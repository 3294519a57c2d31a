-------------------------------- MODULE SpawnTree --------------------------------
(***************************************************************************)
(* The tree of runs that agents grow from inside their sandboxes:          *)
(* children.go, childserver.go, jobs_runner.go and the parts of agent.go,  *)
(* runner.go and results.go that a spawn passes through.                   *)
(*                                                                         *)
(* Each call of a spawning tool is a goroutine of the host: it looks up    *)
(* the caller's spawnContext, reserves a name in it, snapshots the         *)
(* siblings, makes directories, creates a sandbox, records itself as a     *)
(* sibling, and ends by writing results.json and leaving the registry.     *)
(* A background call hands all but the lookup to the goroutine of a job    *)
(* (the gap between the two is part of JobManager).  A step that           *)
(* no other goroutine can tell from the next is joined to it.              *)
(*                                                                         *)
(* Runs are numbered in the order of their calls.  A run's /out is         *)
(* <parent's /out>/child/<name>, so the pair <<parent, name>> stands for   *)
(* it.  Every agent is charged one unit.  Cancel is one step here; its     *)
(* walk is the subject of JobManager, the removal of sidecars and          *)
(* sandboxes that of SandboxLifecycle.                                     *)
(***************************************************************************)
EXTENDS Naturals, FiniteSetsExt

CONSTANTS
  NumRuns,       \* bound on the runs
  MaxRoots,      \* bound on those the host's client starts
  MaxReaped,     \* bound on the jobs that are reaped
  Names,         \* child names
  RootKinds,     \* what the host's client calls: "agent", "research"
  ChildKinds,    \* what agents call: those, and "plain", a script or sandbox_create
  BackgroundKinds   \* what is called with background: true, too

ASSUME NumRunsAssumption == NumRuns \in Nat \ {0} /\ MaxRoots \in Nat /\ MaxReaped \in Nat
ASSUME NamesAssumption   == Names # {}
ASSUME KindsAssumption   == /\ RootKinds \subseteq {"agent", "research"}
                            /\ ChildKinds \subseteq {"agent", "research", "plain"}

VARIABLES
  kind, parent, name, background,   \* of each run, fixed by the call
  open,          \* its sandbox has unrestricted egress
  pc,            \* where the goroutine of the run is
  used,          \* spawnContext.usedNames
  siblings,      \* spawnContext.siblingOutputs
  registry,      \* ChildRegistry.entries
  inputs,        \* the run whose files are mounted at /in
  workspace,     \* the run whose directory is mounted at /workspace
  previousJobs,  \* the runs whose /out is mounted at /in/previous-jobs
  job, jobParent,   \* the background job of a run: its state, its parent's handle
  created,       \* the runs whose sandbox has existed
  results        \* results.json of each run

callVars  == <<kind, parent, name, background, open>>
ctxVars   == <<used, siblings, registry>>
mountVars == <<inputs, workspace, previousJobs>>
jobVars   == <<job, jobParent>>
outVars   == <<created, results>>
vars      == <<callVars, pc, ctxVars, mountVars, jobVars, outVars>>

-------------------------------------------------------------------------------
Runs == 1..NumRuns
Host == 0                          \* the host's client; also "no run", "no job"
NoResults == [written |-> FALSE, total |-> 0]

IsAgent(r)  == kind[r] \in {"agent", "research"}     \* served by runAgent
Isolated(r) == kind[r] = "research"                  \* childSpawn.isolated
Wrote(r)    == results[r].written
Children(r) == {c \in Runs : pc[c] # "none" /\ parent[c] = r}

Background(k) == IF k \in BackgroundKinds THEN BOOLEAN ELSE {FALSE}

\* Names are interchangeable: a call takes one that a sibling has, or a new one.
NamesFor(p) ==
  LET taken == {name[c] : c \in Children(p)}
      free  == Names \ taken
  IN  taken \cup IF free = {} THEN {} ELSE {CHOOSE n \in free : TRUE}

\* spawnContext.bgJobID of r: only a background run has a handle of its own.
BgJobID(r) == IF r \in Runs /\ background[r] THEN r ELSE Host

\* The ancestors of each run; a run is numbered after its parent.
Ancestors ==
  LET above[r \in Runs] == IF parent[r] = Host THEN {} ELSE {parent[r]} \cup above[parent[r]]
  IN  above
Descendants(r) == {d \in Runs : pc[d] # "none" /\ r \in Ancestors[d]}

\* The jobs that a Cancel of j visits: the walk ends at a job that was reaped.
JobSubtree(j) ==
  LET over[r \in Runs] ==
        IF job[r] = "reaped" THEN {}
        ELSE {r} \cup IF jobParent[r] = Host THEN {} ELSE over[jobParent[r]]
  IN  {d \in Runs : j \in over[d]}

Init ==
  /\ kind = [r \in Runs |-> "agent"] /\ parent = [r \in Runs |-> Host]
  /\ name = [r \in Runs |-> CHOOSE n \in Names : TRUE]
  /\ background = [r \in Runs |-> FALSE] /\ open = [r \in Runs |-> FALSE]
  /\ pc = [r \in Runs |-> "none"]
  /\ used = [r \in Runs |-> {}] /\ siblings = [r \in Runs |-> {}] /\ registry = {}
  /\ inputs = [r \in Runs |-> Host] /\ workspace = [r \in Runs |-> Host]
  /\ previousJobs = [r \in Runs |-> {}]
  /\ job = [r \in Runs |-> "none"] /\ jobParent = [r \in Runs |-> Host]
  /\ created = {} /\ results = [r \in Runs |-> NoResults]

Goto(r, l) == pc' = [pc EXCEPT ![r] = l]

-------------------------------------------------------------------------------
(* Calls *)

\* Mutant: a job is registered under its own handle.
startOwnJob(r, p, b) ==
  /\ job'       = [job EXCEPT ![r] = IF b THEN "running" ELSE @]
  /\ jobParent' = [jobParent EXCEPT ![r] = IF b THEN r ELSE Host]
\* Mutant: every job is a root job.
startRootJob(r, p, b) ==
  /\ job'       = [job EXCEPT ![r] = IF b THEN "running" ELSE @]
  /\ jobParent' = [jobParent EXCEPT ![r] = Host]
\* startScriptJob, startAgentJob: the parent of a new job is the job that p's
\* context names, if p is one itself.
startJob(r, p, b) ==
  /\ job'       = [job EXCEPT ![r] = IF b THEN "running" ELSE @]
  /\ jobParent' = [jobParent EXCEPT ![r] = IF b THEN BgJobID(p) ELSE Host]

\* A tool call of p reaches its handler and becomes run r, of kind k, with name n
\* and egress open or not, in a job of its own if it is a background call.
Begin(r, k, p, n, b, o) ==
  /\ pc[r] = "none" /\ \A q \in 1..(r - 1) : pc[q] # "none"
  /\ kind'       = [kind EXCEPT ![r] = k]
  /\ parent'     = [parent EXCEPT ![r] = p]
  /\ name'       = [name EXCEPT ![r] = n]
  /\ background' = [background EXCEPT ![r] = b]
  /\ open'       = [open EXCEPT ![r] = o]
  /\ startJob(r, p, b)
  /\ Goto(r, "started")
  /\ UNCHANGED <<ctxVars, mountVars, outVars>>

rejectOpenEgress(egress) == egress = "open"

\* The host's tools: Runner.Agent or StartAgent, Runner.Research or StartResearch.
hostCall(r, k, o) ==
  /\ k \in RootKinds /\ Cardinality(Children(Host)) < MaxRoots
  /\ \E b \in Background(k) : Begin(r, k, Host, name[r], b, o)

handleSandboxAgent(r) ==
  \E egress \in {"none", "open"} : ~rejectOpenEgress(egress) /\ hostCall(r, "agent", egress = "open")

handleSandboxResearch(r) == hostCall(r, "research", TRUE)

\* Tools are called by the agent in p's sandbox.  A handler may be late: when p's
\* run failed, its sidecar and its place in the registry go while calls are under way.
Calling(p) ==
  /\ pc[p] = "running" \/ (pc[p] = "leaving" /\ ~Wrote(p))
  /\ IsAgent(p)

parentFor(p) == p \in registry

\* childSpawnParams: a tool call finds the context of its caller.
childSpawnParams(k, p) == k \in ChildKinds /\ Calling(p) /\ parentFor(p)

\* handleChildScript, handleChildAgent, handleChildResearch, handleChildCreate.
handleChildScript(r, p, n) ==
  /\ childSpawnParams("plain", p)
  /\ \E b \in Background("plain"), egress \in {"package-managers", "open"} :
       ~rejectOpenEgress(egress) /\ Begin(r, "plain", p, n, b, egress = "open")

handleChildAgent(r, p, n) ==
  /\ childSpawnParams("agent", p)
  /\ \E b \in Background("agent"), egress \in {"none", "open"} :
       ~rejectOpenEgress(egress) /\ Begin(r, "agent", p, n, b, egress = "open")

handleChildResearch(r, p, n) ==
  /\ childSpawnParams("research", p)
  /\ \E b \in Background("research") : Begin(r, "research", p, n, b, TRUE)

handleChildCreate(r, p, n) ==
  /\ childSpawnParams("plain", p)
  /\ \E egress \in {"package-managers", "open"} :
       ~rejectOpenEgress(egress) /\ Begin(r, "plain", p, n, FALSE, egress = "open")

-------------------------------------------------------------------------------
(* Layout *)

GiveUp(r) ==
  /\ Goto(r, "leaving")
  /\ UNCHANGED <<callVars, ctxVars, mountVars, jobVars, outVars>>

\* No credential, no image, no such file: before a name is taken.
prepareAgentFails(r) == pc[r] = "started" /\ GiveUp(r)

\* A directory cannot be made: the name stays taken.
mkLayoutDirsFails(r) == pc[r] = "reserved" /\ GiveUp(r)

\* Mutant: the name is checked but taken only with the directory.
reserveNameLate(r) ==
  /\ pc[r] = "started" /\ parent[r] # Host /\ name[r] \notin used[parent[r]]
  /\ Goto(r, "reserved")
  /\ UNCHANGED <<callVars, ctxVars, mountVars, jobVars, outVars>>
\* Mutant: the sibling is recorded with its name.
reserveNameRecorded(r) ==
  /\ pc[r] = "started" /\ parent[r] # Host /\ name[r] \notin used[parent[r]]
  /\ used'     = [used EXCEPT ![parent[r]] = @ \cup {name[r]}]
  /\ siblings' = [siblings EXCEPT ![parent[r]] = @ \cup {r}]
  /\ Goto(r, "reserved")
  /\ UNCHANGED <<callVars, registry, mountVars, jobVars, outVars>>
\* reserveName: check and record under c.mu.  Nothing ever gives a name back.
reserveName(r) ==
  /\ pc[r] = "started" /\ parent[r] # Host /\ name[r] \notin used[parent[r]]
  /\ used' = [used EXCEPT ![parent[r]] = @ \cup {name[r]}]
  /\ Goto(r, "reserved")
  /\ UNCHANGED <<callVars, siblings, registry, mountVars, jobVars, outVars>>

\* reserveName of a name in use.
nameInUse(r) ==
  /\ pc[r] = "started" /\ parent[r] # Host /\ name[r] \in used[parent[r]]
  /\ GiveUp(r)

\* buildRootLayout and the Register that follows.
buildRootLayout(r) ==
  /\ pc[r] = "started" /\ parent[r] = Host
  /\ inputs'    = [inputs EXCEPT ![r] = IF kind[r] = "research" THEN Host ELSE r]
  /\ workspace' = [workspace EXCEPT ![r] = r]
  /\ registry'  = registry \cup {r}
  /\ Goto(r, "laid")
  /\ UNCHANGED <<callVars, used, siblings, previousJobs, jobVars, outVars>>

\* Mutant: an isolated child keeps the shared workspace.
buildChildLayoutShared(r) ==
  /\ pc[r] = "reserved" /\ IsAgent(r)
  /\ inputs'       = [inputs EXCEPT ![r] = IF Isolated(r) THEN Host ELSE inputs[parent[r]]]
  /\ workspace'    = [workspace EXCEPT ![r] = workspace[parent[r]]]
  /\ previousJobs' = [previousJobs EXCEPT ![r] = IF Isolated(r) THEN {} ELSE siblings[parent[r]]]
  /\ registry'     = registry \cup {r}
  /\ Goto(r, "laid")
  /\ UNCHANGED <<callVars, used, siblings, jobVars, outVars>>
\* buildChildLayout and the Register that follows.
buildChildLayout(r) ==
  /\ pc[r] = "reserved" /\ IsAgent(r)
  /\ inputs'       = [inputs EXCEPT ![r] = IF Isolated(r) THEN Host ELSE inputs[parent[r]]]
  /\ workspace'    = [workspace EXCEPT ![r] = IF Isolated(r) THEN r ELSE workspace[parent[r]]]
  /\ previousJobs' = [previousJobs EXCEPT ![r] = IF Isolated(r) THEN {} ELSE siblings[parent[r]]]
  /\ registry'     = registry \cup {r}
  /\ Goto(r, "laid")
  /\ UNCHANGED <<callVars, used, siblings, jobVars, outVars>>

\* childMounts: a script or a persistent sandbox inherits everything.
childMounts(r) ==
  /\ pc[r] = "reserved" /\ ~IsAgent(r)
  /\ inputs'       = [inputs EXCEPT ![r] = inputs[parent[r]]]
  /\ workspace'    = [workspace EXCEPT ![r] = workspace[parent[r]]]
  /\ previousJobs' = [previousJobs EXCEPT ![r] = siblings[parent[r]]]
  /\ Goto(r, "laid")
  /\ UNCHANGED <<callVars, ctxVars, jobVars, outVars>>

-------------------------------------------------------------------------------
(* The sandbox *)

recordSibling(r) ==
  siblings' = IF parent[r] = Host THEN siblings ELSE [siblings EXCEPT ![parent[r]] = @ \cup {r}]

\* The sandbox exists; recordSibling.
Created(r) ==
  /\ created' = created \cup {r}
  /\ recordSibling(r)
  /\ Goto(r, "running")
  /\ UNCHANGED <<callVars, used, registry, mountVars, jobVars, results>>

createSandbox(r)  == pc[r] = "laid" /\ IsAgent(r) /\ Created(r)

prepareSandbox(r) == pc[r] = "laid" /\ ~IsAgent(r) /\ Created(r)

\* launchSandbox gives up.
createSandboxFails(r) == pc[r] = "laid" /\ GiveUp(r)

\* A call of r's agent that has not been answered.
Outstanding(r) == \E c \in Children(r) : ~background[c] /\ pc[c] # "ended"

\* The children whose results.json can be read.
sumChildResults(r) == {c \in Children(r) : Wrote(c)}
Totals == [c \in Runs |-> results[c].total]

\* Mutant: only background children are looked for.
writeResultsOfJobs(r) ==
  results' = [results EXCEPT ![r] = [written |-> TRUE, total |->
    1 + SumFunctionOnSet(Totals, {c \in sumChildResults(r) : background[c]})]]
\* writeResults: the run's own usage and the totals of its children.
writeResults(r) ==
  results' = [results EXCEPT ![r] = [written |-> TRUE, total |->
    1 + SumFunctionOnSet(Totals, sumChildResults(r))]]

\* The agent's command returns; agents wait for the answers to their calls.
\* finishAgentRun, then the sidecar and the sandbox go.
AgentEnds(r) ==
  /\ pc[r] = "running" /\ IsAgent(r) /\ ~Outstanding(r)
  /\ writeResults(r)
  /\ Goto(r, "leaving")
  /\ UNCHANGED <<callVars, ctxVars, mountVars, jobVars, created>>

\* The script's command or the creation of the persistent sandbox returns.
PlainEnds(r) == pc[r] = "running" /\ ~IsAgent(r) /\ GiveUp(r)

\* The sidecar does not start or RunCommand returns an error: no results.json.
\* The sidecar and the sandbox go.
RunFails(r) == pc[r] = "running" /\ GiveUp(r)

\* Deregister, and the call or the job is over.
Return(r) ==
  /\ pc[r] = "leaving"
  /\ registry' = registry \ {r}
  /\ job' = [job EXCEPT ![r] = IF @ = "running" THEN "over" ELSE @]
  /\ Goto(r, "ended")
  /\ UNCHANGED <<callVars, used, siblings, mountVars, jobParent, outVars>>

\* Runner.Cancel, from the host or from a sandbox.
Cancel(j) ==
  /\ job[j] # "none" /\ \E d \in JobSubtree(j) : job[d] = "running"
  /\ job' = [d \in Runs |-> IF d \in JobSubtree(j) /\ job[d] = "running" THEN "cancelled" ELSE job[d]]
  /\ UNCHANGED <<callVars, pc, ctxVars, mountVars, jobParent, outVars>>

\* reapExpired: the job ended long enough ago and leaves the registry of jobs, though
\* jobs below it may run, and a cancelled one's own run may not have ended.
Reap(r) ==
  /\ job[r] \in {"cancelled", "over"} /\ Cardinality({d \in Runs : job[d] = "reaped"}) < MaxReaped
  /\ job' = [job EXCEPT ![r] = "reaped"]
  /\ UNCHANGED <<callVars, pc, ctxVars, mountVars, jobParent, outVars>>

\* The context of r's calls is cancelled: by the job manager, or, for a blocking
\* child, because the tunnel that carries its request is gone.
ContextDone(r) ==
  \/ background[r] /\ job[r] \in {"cancelled", "reaped"}
  \/ ~background[r] /\ parent[r] # Host /\ pc[parent[r]] \in {"leaving", "ended"}

-------------------------------------------------------------------------------
\* The steps of r's goroutine up to the start of its command.
SetUp(r) ==
  \/ prepareAgentFails(r) \/ reserveName(r) \/ nameInUse(r)
  \/ buildRootLayout(r) \/ buildChildLayout(r) \/ childMounts(r) \/ mkLayoutDirsFails(r)
  \/ createSandbox(r) \/ prepareSandbox(r) \/ createSandboxFails(r)

\* Mutant: a blocking child does not notice that its caller is gone.
BackgroundStep(r) == SetUp(r) \/ Return(r) \/ (background[r] /\ ContextDone(r) /\ RunFails(r))
\* The steps it takes without waiting for a command to return.
OwnStep(r) == SetUp(r) \/ Return(r) \/ (ContextDone(r) /\ RunFails(r))

ChildCall(r) ==
  \E p \in Runs : \E n \in NamesFor(p) :
    \/ handleChildScript(r, p, n) \/ handleChildAgent(r, p, n)
    \/ handleChildResearch(r, p, n) \/ handleChildCreate(r, p, n)

Next ==
  \E r \in Runs :
    \/ handleSandboxAgent(r) \/ handleSandboxResearch(r) \/ ChildCall(r) \/ SetUp(r)
    \/ AgentEnds(r) \/ PlainEnds(r) \/ RunFails(r)
    \/ Return(r) \/ Cancel(r) \/ Reap(r)

Spec == Init /\ [][Next]_vars

\* A goroutine runs; a command may last until its context is cancelled.
FairSpec == Spec /\ \A r \in Runs : WF_vars(OwnStep(r))

-------------------------------------------------------------------------------
(* Properties *)

\* The variables keep their types, and a run's parent was called before it.
TypeOK ==
  /\ kind \in [Runs -> {"agent", "research", "plain"}]
  /\ parent \in [Runs -> Runs \cup {Host}] /\ \A r \in Runs : parent[r] < r
  /\ name \in [Runs -> Names]
  /\ background \in [Runs -> BOOLEAN] /\ open \in [Runs -> BOOLEAN]
  /\ pc \in [Runs -> {"none", "started", "reserved", "laid", "running", "leaving", "ended"}]
  /\ used \in [Runs -> SUBSET Names] /\ siblings \in [Runs -> SUBSET Runs]
  /\ registry \subseteq Runs
  /\ inputs \in [Runs -> Runs \cup {Host}] /\ workspace \in [Runs -> Runs \cup {Host}]
  /\ previousJobs \in [Runs -> SUBSET Runs]
  /\ job \in [Runs -> {"none", "running", "cancelled", "over", "reaped"}]
  /\ jobParent \in [Runs -> Runs \cup {Host}] /\ \A r \in Runs : jobParent[r] < r
  /\ created \subseteq Runs
  /\ results \in [Runs -> [written : BOOLEAN, total : Nat]]

\* A run past buildChildLayout or childMounts has a directory of its own.
LaidOut(r) == workspace[r] # Host

\* Two runs never share an /out, whatever failed before: results.json, usage.json
\* and the transcript of a run are never written by another (reserveName).
OutIsPrivate ==
  \A r, s \in Runs :
    (r # s /\ LaidOut(r) /\ LaidOut(s) /\ parent[r] # Host /\ parent[r] = parent[s])
      => name[r] # name[s]

\* A sandbox with open egress mounts no caller's file, no workspace that a run
\* with such files can write, and no output of such a run, however the tree above
\* and beside it grew (rejectOpenEgress, childSpawn.isolated).
OpenSeesNoInputs ==
  \A r \in Runs : (open[r] /\ LaidOut(r)) =>
    /\ inputs[r] = Host
    /\ \A t \in Runs : inputs[t] # Host =>
         workspace[t] # workspace[r] /\ t \notin previousJobs[r]

\* A sibling is mounted only once its sandbox exists: a spawn that failed never
\* reaches a later one (recordSibling after createSandbox).
SiblingsHaveSandboxes ==
  \A r \in Runs : previousJobs[r] \subseteq created \cap Children(parent[r])

\* Of two siblings spawned at the same time at most one sees the other's /out.
SiblingsNotMutual ==
  \A r, s \in Runs : ~(s \in previousJobs[r] /\ r \in previousJobs[s])

\* What a child mounts of its siblings, however their spawns overlap (priorSiblings,
\* recordSibling).
SiblingMounts == SiblingsHaveSandboxes /\ SiblingsNotMutual

\* For each run, the runs above it that waited for it and for everything between
\* and that wrote results themselves.
WaitedFor ==
  LET above[r \in Runs] == IF parent[r] = Host \/ background[r] \/ ~Wrote(parent[r]) THEN {}
                           ELSE {parent[r]} \cup above[parent[r]]
  IN  above

\* total_usage_usd of a run counts every run below it that wrote results and that
\* it waited for, directly or not, and no run twice (writeResults).
TotalsCoverTree ==
  \A r \in Runs : Wrote(r) =>
    /\ results[r].total >= 1 + Cardinality({d \in Runs : Wrote(d) /\ r \in WaitedFor[d]})
    /\ results[r].total <= 1 + Cardinality({d \in Descendants(r) : Wrote(d)})

\* A Cancel ends each job below its target that only background runs lie between whose
\* jobs have not been reaped: ended ones do not cut it off as long as they are kept.
CancelReachesLinked ==
  [][\A j \in Runs : Cancel(j) =>
       \A d \in Descendants(j) :
         ( /\ job[d] = "running"
           /\ \A m \in Ancestors[d] \ Ancestors[j] : background[m] /\ job[m] # "reaped" ) => job'[d] = "cancelled"]_vars

\* "Cancel a background sandbox job and its entire descendant subtree."
\* (childCancelDescription)
CancelReachesSubtree ==
  [][\A j \in Runs : Cancel(j) =>
       \A d \in Descendants(j) : job[d] = "running" => job'[d] = "cancelled"]_vars

\* The job of r was cancelled; or r is a blocking child whose caller is gone, also one
\* whose handler read the caller's context before and spawned after.
Abandoned(r) ==
  \/ job[r] = "cancelled"
  \/ pc[r] # "none" /\ ~background[r] /\ parent[r] # Host /\ pc[parent[r]] = "ended"

\* Nobody's run goes on for ever: whoever is cancelled, or has lost the caller it ran
\* for, ends (the contexts that the handlers pass down).
AbandonedEnd == \A r \in Runs : Abandoned(r) ~> pc[r] = "ended"
===============================================================================
