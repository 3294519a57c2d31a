---------------------------- MODULE SandboxLifecycle ----------------------------
(***************************************************************************)
(* The containers of demesne: the launch and teardown of a sandbox and of  *)
(* the sidecar that shares its namespaces (runner.go, agent.go, create.go  *)
(* and destroy.go of internal/sandbox, internal/sidecar/runtime.go), and   *)
(* the sweep of orphans at the start of a process (reaper.go, owner.go).   *)
(*                                                                         *)
(* Several processes live on the host, one per session.  A call of one of  *)
(* them makes at most one sandbox, which is named by the call and labelled *)
(* with the identity of the process.  Its sidecar is joined to the network *)
(* of the sandbox: if the sandbox goes first, the sidecar stays behind and *)
(* with it a network container that nobody can remove (runtime.go:371).    *)
(*                                                                         *)
(* OpenSandbox, docker and the kernel are external.                        *)
(***************************************************************************)
EXTENDS Naturals

CONSTANTS
  Processes,     \* lives of demesne-mcp processes
  Pids,          \* process ids the kernel hands out
  Calls,         \* calls that create a sandbox; also the sandboxes
  NoCall, NoProcess, NoOwner,
  MaxAttempts,   \* createSandboxMaxAttempts
  MaxTicks,      \* bound on the clock ticks of one boot
  MaxBoots,      \* bound on the reboots
  MaxFaults      \* bound on the failures of OpenSandbox and docker

ASSUME NoCallAssumption    == NoCall \notin Calls
ASSUME NoProcessAssumption == NoProcess \notin Processes
ASSUME AttemptsAssumption  == MaxAttempts \in Nat \ {0}
ASSUME BoundsAssumption    == MaxTicks \in Nat /\ MaxBoots \in Nat /\ MaxFaults \in Nat

VARIABLES
  boot, tick,    \* the boot of the host, and the clock ticks since
  proc,          \* what each process does
  owner,         \* the identity of each process, told from the others' by ComputeOwner
  todo, reaped,  \* the sandboxes a sweep has yet to look at, the one it is reaping
  orphans,       \* history: those of the list whose owner was dead
  pc,            \* where each call is
  by, persistent,\* the process that serves it; whether its sandbox outlives it
  attempt,       \* the attempts it has made at creating its sandbox
  cancelled,     \* the calls whose request context is cancelled
  boxes, sides,  \* the sandboxes and the sidecars that exist
  partials,      \* how many half-made sandboxes of each call exist
  mishaps,       \* history: what went wrong with each call's containers
  faults

hostVars    == <<boot, tick>>
processVars == <<proc, owner, todo, reaped, orphans>>
callVars    == <<pc, by, persistent, attempt, cancelled>>
containers  == <<boxes, sides, partials>>
faultVars   == <<mishaps, faults>>
vars == <<hostVars, processVars, callVars, containers, faultVars>>

-------------------------------------------------------------------------------
Sweep == {"list", "sweep", "reapRemove", "reapKill"}
Live(i)   == proc[i] \in Sweep \cup {"serving"}
Served(c) == by[c] \in Processes /\ proc[by[c]] = "serving"

Identities == [boot : Nat, pid : Pids, start : Nat]
ASSUME NoOwnerAssumption == NoOwner \notin Identities
label(c) == owner[by[c]]

Init ==
  /\ boot = 0 /\ tick = 0
  /\ proc       = [i \in Processes |-> "off"]
  /\ owner      = [i \in Processes |-> NoOwner]
  /\ todo       = [i \in Processes |-> {}]
  /\ reaped     = [i \in Processes |-> NoCall]
  /\ orphans    = [i \in Processes |-> {}]
  /\ pc         = [c \in Calls |-> "idle"]
  /\ by         = [c \in Calls |-> NoProcess]
  /\ persistent = [c \in Calls |-> FALSE]
  /\ attempt    = [c \in Calls |-> 0]
  /\ cancelled  = {}
  /\ boxes = {} /\ sides = {}
  /\ partials   = [c \in Calls |-> 0]
  /\ mishaps    = [c \in Calls |-> {}]
  /\ faults     = 0

\* Something goes wrong with the containers of a call.
Mishap(c, what) == mishaps' = [mishaps EXCEPT ![c] = @ \cup {what}]
Fault == faults < MaxFaults /\ faults' = faults + 1

Goto(c, where) == pc' = [pc EXCEPT ![c] = where]
Become(i, what) == proc' = [proc EXCEPT ![i] = what]

-------------------------------------------------------------------------------
(* The host, external *)

\* The kernel gives a process a pid that no live process has, and the same pid
\* not twice within a clock tick.  ComputeOwner then reads the identity.
Start(i) ==
  /\ proc[i] = "off"
  /\ \E p \in Pids :
       /\ \A j \in Processes : Live(j) => owner[j].pid # p
       /\ \A j \in Processes : owner[j] # [boot |-> boot, pid |-> p, start |-> tick]
       /\ owner' = [owner EXCEPT ![i] = [boot |-> boot, pid |-> p, start |-> tick]]
  /\ Become(i, "list")
  /\ UNCHANGED <<hostVars, todo, reaped, orphans, callVars, containers, faultVars>>

Tick ==
  /\ tick < MaxTicks
  /\ tick' = tick + 1
  /\ UNCHANGED <<boot, processVars, callVars, containers, faultVars>>

Perish(S) ==
  /\ proc'    = [i \in Processes |-> IF i \in S THEN "dead" ELSE proc[i]]
  /\ todo'    = [i \in Processes |-> IF i \in S THEN {} ELSE todo[i]]
  /\ reaped'  = [i \in Processes |-> IF i \in S THEN NoCall ELSE reaped[i]]
  /\ orphans' = [i \in Processes |-> IF i \in S THEN {} ELSE orphans[i]]

\* A process is killed, at any point.
Die(i) ==
  /\ Live(i)
  /\ Perish({i})
  /\ UNCHANGED <<hostVars, owner, callVars, containers, faultVars>>

\* Every process dies; the containers are still on disk.
Reboot ==
  /\ boot < MaxBoots
  /\ boot' = boot + 1 /\ tick' = 0
  /\ Perish({i \in Processes : Live(i)})
  /\ UNCHANGED <<owner, callVars, containers, faultVars>>

\* The TTL of a sandbox runs out: OpenSandbox removes it, and its sidecar goes
\* with the namespaces or is left behind.
Expire(c) ==
  /\ c \in boxes /\ Fault /\ Mishap(c, "ttl")
  /\ boxes' = boxes \ {c}
  /\ sides' \in {sides, sides \ {c}}
  /\ UNCHANGED <<hostVars, processVars, callVars, partials>>

-------------------------------------------------------------------------------
(* ReapOrphans, before a process serves *)

\* reaperProcessAliveFn, among the processes that run now.
processAlive(pid, start) ==
  \E j \in Processes : Live(j) /\ owner[j].pid = pid /\ owner[j].start = start

\* Mutant: every sandbox of another process is an orphan.
reapsOthers(l) == TRUE
\* Mutant: the boot is not looked at.
reapsAnyBoot(l) == ~processAlive(l.pid, l.start)
\* classifyOwner gives verdictReap.
reaps(l) == l.boot # boot \/ ~processAlive(l.pid, l.start)

List(i) ==
  /\ proc[i] = "list"
  /\ todo'    = [todo EXCEPT ![i] = boxes]
  /\ orphans' = [orphans EXCEPT ![i] = {c \in boxes : ~Live(by[c])}]
  /\ Become(i, "sweep")
  /\ UNCHANGED <<hostVars, owner, reaped, callVars, containers, faultVars>>

ListFails(i) ==
  /\ proc[i] = "list" /\ Fault
  /\ Become(i, "serving")
  /\ UNCHANGED <<hostVars, owner, todo, reaped, orphans, callVars, containers, mishaps>>

Keep(i, c) ==
  /\ proc[i] = "sweep" /\ c \in todo[i] /\ ~reaps(label(c))
  /\ todo' = [todo EXCEPT ![i] = @ \ {c}]
  /\ UNCHANGED <<hostVars, proc, owner, reaped, orphans, callVars, containers, faultVars>>

Reap(i, c) ==
  /\ proc[i] = "sweep" /\ c \in todo[i] /\ reaps(label(c))
  /\ todo'   = [todo EXCEPT ![i] = @ \ {c}]
  /\ reaped' = [reaped EXCEPT ![i] = c]
  /\ Become(i, "reapRemove")
  /\ UNCHANGED <<hostVars, owner, orphans, callVars, containers, faultVars>>

ReapRemove(i) ==
  /\ proc[i] = "reapRemove"
  /\ sides' = sides \ {reaped[i]}
  /\ Become(i, "reapKill")
  /\ UNCHANGED <<hostVars, owner, todo, reaped, orphans, callVars, boxes, partials, faultVars>>

\* The error is noted, the sandbox is killed all the same.
ReapRemoveFails(i) ==
  /\ proc[i] = "reapRemove" /\ Fault /\ Mishap(reaped[i], "remove")
  /\ Become(i, "reapKill")
  /\ UNCHANGED <<hostVars, owner, todo, reaped, orphans, callVars, containers>>

ReapKill(i) ==
  /\ proc[i] = "reapKill"
  /\ boxes' = boxes \ {reaped[i]}
  /\ reaped' = [reaped EXCEPT ![i] = NoCall]
  /\ Become(i, "sweep")
  /\ UNCHANGED <<hostVars, owner, todo, orphans, callVars, sides, partials, faultVars>>

ReapKillFails(i) ==
  /\ proc[i] = "reapKill" /\ Fault /\ Mishap(reaped[i], "kill")
  /\ reaped' = [reaped EXCEPT ![i] = NoCall]
  /\ Become(i, "sweep")
  /\ UNCHANGED <<hostVars, owner, todo, orphans, callVars, containers>>

Serve(i) ==
  /\ proc[i] = "sweep" /\ todo[i] = {}
  /\ Become(i, "serving")
  /\ UNCHANGED <<hostVars, owner, todo, reaped, orphans, callVars, containers, faultVars>>

ReapOrphans(i) ==
  \/ List(i) \/ ListFails(i) \/ Serve(i)
  \/ \E c \in Calls : Keep(i, c) \/ Reap(i, c)
  \/ ReapRemove(i) \/ ReapRemoveFails(i) \/ ReapKill(i) \/ ReapKillFails(i)

-------------------------------------------------------------------------------
(* launchSandbox *)

Step(c, from, to) == Served(c) /\ pc[c] = from /\ Goto(c, to)

\* sandbox_script, sandbox_agent and sandbox_research remove their sandbox when
\* they return; that of sandbox_create is persistent.
Begin(c) ==
  /\ pc[c] = "idle"
  /\ \E i \in Processes : proc[i] = "serving" /\ by' = [by EXCEPT ![c] = i]
  /\ \E p \in BOOLEAN : persistent' = [persistent EXCEPT ![c] = p]
  /\ Goto(c, "create")
  /\ UNCHANGED <<hostVars, processVars, attempt, cancelled, containers, faultVars>>

Cancel(c) ==
  /\ Served(c) /\ pc[c] \notin {"idle", "held", "done"} /\ c \notin cancelled
  /\ cancelled' = cancelled \cup {c}
  /\ UNCHANGED <<hostVars, processVars, pc, by, persistent, attempt, containers, faultVars>>

CreateOk(c) ==
  /\ Step(c, "create", "sidecar") /\ c \notin cancelled
  /\ boxes' = boxes \cup {c}
  /\ UNCHANGED <<hostVars, processVars, by, persistent, attempt, cancelled, sides,
                 partials, faultVars>>

\* An error that is not transient, or the context is cancelled.
CreateFails(c) ==
  /\ Step(c, "create", "done")
  /\ UNCHANGED <<hostVars, processVars, by, persistent, attempt, cancelled, containers,
                 faultVars>>

\* Nobody waits for what OpenSandbox or docker still does for a call: its context
\* is cancelled, or its process has died since this boot began.
Abandoned(c) ==
  IF Served(c) THEN c \in cancelled ELSE by[c] \in Processes /\ label(c).boot = boot

\* The answer is lost, or nobody waits for it, and there is a sandbox.
CreateUnheard(c) ==
  /\ pc[c] = "create" /\ (Served(c) \/ Abandoned(c))
  /\ IF Abandoned(c) THEN UNCHANGED faults ELSE Fault
  /\ Goto(c, "done") /\ Mishap(c, "create")
  /\ boxes' = boxes \cup {c}
  /\ UNCHANGED <<hostVars, processVars, by, persistent, attempt, cancelled, sides, partials>>

\* The copy into the container fails and a half-made sandbox is left.
CreateTransient(c) ==
  /\ Step(c, "create", "cleanup")
  /\ attempt'  = [attempt EXCEPT ![c] = @ + 1]
  /\ partials' = [partials EXCEPT ![c] = @ + 1]
  /\ UNCHANGED <<hostVars, processVars, by, persistent, cancelled, boxes, sides, faultVars>>

AfterCleanup(c) == IF attempt[c] = MaxAttempts THEN "done" ELSE "backoff"

\* dockerForceRemove
RemovePartial(c) ==
  /\ Step(c, "cleanup", AfterCleanup(c)) /\ c \notin cancelled
  /\ partials' = [partials EXCEPT ![c] = @ - 1]
  /\ UNCHANGED <<hostVars, processVars, by, persistent, attempt, cancelled, boxes, sides,
                 faultVars>>

\* Docker fails, the error names no container, or the context is cancelled.
RemovePartialFails(c) ==
  /\ Step(c, "cleanup", AfterCleanup(c)) /\ Mishap(c, "partial")
  /\ IF c \in cancelled THEN UNCHANGED faults ELSE Fault
  /\ UNCHANGED <<hostVars, processVars, by, persistent, attempt, cancelled, containers>>

Retry(c) ==
  /\ Step(c, "backoff", "create")
  /\ UNCHANGED <<hostVars, processVars, by, persistent, attempt, cancelled, containers,
                 faultVars>>

BackoffCancelled(c) ==
  /\ Step(c, "backoff", "done") /\ c \in cancelled
  /\ UNCHANGED <<hostVars, processVars, by, persistent, attempt, cancelled, containers,
                 faultVars>>

-------------------------------------------------------------------------------
(* sidecar.Start *)

RunSidecar(c) ==
  /\ Step(c, "sidecar", "verify") /\ c \in boxes /\ c \notin cancelled
  /\ sides' = sides \cup {c}
  /\ UNCHANGED <<hostVars, processVars, by, persistent, attempt, cancelled, boxes, partials,
                 faultVars>>

\* Mutant: the sandbox is not killed.
SidecarFailsLeaves(c) ==
  /\ Step(c, "sidecar", "done")
  /\ UNCHANGED <<hostVars, processVars, by, persistent, attempt, cancelled, containers,
                 faultVars>>
\* The image, the egress container or docker run fails, and no sidecar is made.
SidecarFails(c) ==
  /\ Step(c, "sidecar", "kill")
  /\ UNCHANGED <<hostVars, processVars, by, persistent, attempt, cancelled, containers,
                 faultVars>>

\* docker run is cut off after it made the container: the caller takes it for a
\* failure, or is dead.
SidecarCut(c) ==
  /\ pc[c] = "sidecar" /\ c \in boxes /\ Abandoned(c)
  /\ Goto(c, IF Served(c) THEN "kill" ELSE "done") /\ Mishap(c, "cut")
  /\ sides' = sides \cup {c}
  /\ UNCHANGED <<hostVars, processVars, by, persistent, attempt, cancelled, boxes, partials,
                 faults>>

\* verifySidecarRunning
Verify(c) ==
  /\ Step(c, "verify", IF persistent[c] THEN "held" ELSE "run") /\ c \in sides \ cancelled
  /\ UNCHANGED <<hostVars, processVars, by, persistent, attempt, cancelled, containers,
                 faultVars>>

\* The sidecar has exited, or the context is cancelled: it is removed.
VerifyFails(c) ==
  /\ Step(c, "verify", "remove")
  /\ UNCHANGED <<hostVars, processVars, by, persistent, attempt, cancelled, containers,
                 faultVars>>

-------------------------------------------------------------------------------
(* The command, and the deferred teardown *)

\* Mutant: the deferred calls run in the other order.
CommandKillsFirst(c) ==
  /\ Step(c, "run", "kill")
  /\ UNCHANGED <<hostVars, processVars, by, persistent, attempt, cancelled, containers,
                 faultVars>>
\* RunCommandWithOpts returns, with a result or an error.
Command(c) ==
  /\ Step(c, "run", "remove")
  /\ UNCHANGED <<hostVars, processVars, by, persistent, attempt, cancelled, containers,
                 faultVars>>

\* sidecar.Remove, which no cancellation reaches.
Remove(c) ==
  /\ Step(c, "remove", "kill")
  /\ sides' = sides \ {c}
  /\ UNCHANGED <<hostVars, processVars, by, persistent, attempt, cancelled, boxes, partials,
                 faultVars>>

RemoveFails(c) ==
  /\ Step(c, "remove", "kill") /\ Fault /\ Mishap(c, "remove")
  /\ UNCHANGED <<hostVars, processVars, by, persistent, attempt, cancelled, containers>>

\* killSandbox
Kill(c) ==
  /\ Step(c, "kill", "done")
  /\ boxes' = boxes \ {c}
  /\ UNCHANGED <<hostVars, processVars, by, persistent, attempt, cancelled, sides, partials,
                 faultVars>>

KillFails(c) ==
  /\ Step(c, "kill", "done") /\ Fault /\ Mishap(c, "kill")
  /\ UNCHANGED <<hostVars, processVars, by, persistent, attempt, cancelled, containers>>

-------------------------------------------------------------------------------
(* Destroy, with a request context of its own *)

Destroy(c) ==
  /\ Step(c, "held", "destroyRemove") /\ c \in boxes
  /\ cancelled' = cancelled \ {c}
  /\ UNCHANGED <<hostVars, processVars, by, persistent, attempt, containers, faultVars>>

DestroyRemove(c) ==
  /\ Step(c, "destroyRemove", "destroyKill") /\ c \notin cancelled
  /\ sides' = sides \ {c}
  /\ UNCHANGED <<hostVars, processVars, by, persistent, attempt, cancelled, boxes, partials,
                 faultVars>>

DestroyRemoveFails(c) ==
  /\ Step(c, "destroyRemove", "destroyKill")
  /\ IF c \in cancelled THEN UNCHANGED faultVars ELSE Fault /\ Mishap(c, "remove")
  /\ UNCHANGED <<hostVars, processVars, by, persistent, attempt, cancelled, containers>>

DestroyKill(c) ==
  /\ Step(c, "destroyKill", "done") /\ c \notin cancelled
  /\ boxes' = boxes \ {c}
  /\ UNCHANGED <<hostVars, processVars, by, persistent, attempt, cancelled, sides, partials,
                 faultVars>>

\* The caller still has the sandbox, and may try again.
DestroyKillFails(c) ==
  /\ Step(c, "destroyKill", "held")
  /\ IF c \in cancelled THEN UNCHANGED faults ELSE Fault
  /\ UNCHANGED <<hostVars, processVars, by, persistent, attempt, cancelled, containers, mishaps>>

launchSandbox(c) ==
  \/ CreateOk(c) \/ CreateFails(c) \/ CreateUnheard(c) \/ CreateTransient(c)
  \/ RemovePartial(c) \/ RemovePartialFails(c) \/ Retry(c) \/ BackoffCancelled(c)
startSidecar(c) ==
  RunSidecar(c) \/ SidecarFails(c) \/ SidecarCut(c) \/ Verify(c) \/ VerifyFails(c)
teardown(c) == Command(c) \/ Remove(c) \/ RemoveFails(c) \/ Kill(c) \/ KillFails(c)
destroy(c) ==
  \/ Destroy(c) \/ DestroyRemove(c) \/ DestroyRemoveFails(c)
  \/ DestroyKill(c) \/ DestroyKillFails(c)
Next ==
  \/ Tick \/ Reboot
  \/ \E i \in Processes : Start(i) \/ Die(i) \/ ReapOrphans(i)
  \/ \E c \in Calls : \/ Begin(c) \/ Cancel(c) \/ Expire(c)
                      \/ launchSandbox(c) \/ startSidecar(c) \/ teardown(c) \/ destroy(c)

Spec == Init /\ [][Next]_vars

-------------------------------------------------------------------------------
(* Properties *)

\* Every variable keeps its type; in particular no more half-made sandboxes of a
\* call exist than it made attempts, of which there are at most MaxAttempts.
TypeOK ==
  /\ boot \in Nat /\ tick \in Nat
  /\ proc \in [Processes -> Sweep \cup {"off", "serving", "dead"}]
  /\ owner \in [Processes -> Identities \cup {NoOwner}]
  /\ todo \in [Processes -> SUBSET Calls] /\ orphans \in [Processes -> SUBSET Calls]
  /\ reaped \in [Processes -> Calls \cup {NoCall}]
  /\ pc \in [Calls -> {"idle", "create", "cleanup", "backoff", "sidecar", "verify", "run",
                       "remove", "kill", "held", "destroyRemove", "destroyKill", "done"}]
  /\ by \in [Calls -> Processes \cup {NoProcess}]
  /\ persistent \in [Calls -> BOOLEAN]
  /\ attempt \in [Calls -> 0..MaxAttempts]
  /\ cancelled \subseteq Calls /\ boxes \subseteq Calls /\ sides \subseteq Calls
  /\ partials \in [Calls -> Nat] /\ \A c \in Calls : partials[c] <= attempt[c]
  /\ mishaps \in [Calls -> SUBSET {"create", "partial", "cut", "remove", "kill", "ttl"}]
  /\ faults \in 0..MaxFaults

Went(c, kinds) == \E k \in kinds : k \in mishaps[c]

\* "destroys sandboxes whose demesne owner process is confirmed dead"
\* (reaper.go:81): a sandbox that a live process uses or holds is there until that
\* process removes it or its TTL runs out, and so is the sidecar of one in use,
\* whatever other processes start, sweep and die meanwhile.
InUseIsUp ==
  \A c \in Calls : Served(c) /\ ~Went(c, {"ttl"}) =>
    /\ pc[c] \in {"sidecar", "verify", "run", "held", "destroyRemove", "destroyKill"} => c \in boxes
    /\ pc[c] \in {"verify", "run"} => c \in sides

\* "It MUST run before OpenSandbox tears down the egress sidecar" (runtime.go:373):
\* a sidecar outlives its sandbox only when docker failed to remove it, the TTL ran
\* out, or docker run was cut off; of the order in which the many paths tear down,
\* none leaves one.
NoPinned == \A c \in sides \ boxes : Went(c, {"remove", "ttl", "cut"})

\* The same, as the comment has it: with nothing else for an excuse.
RemovedBeforeKill == \A c \in sides \ boxes : Went(c, {"remove", "ttl"})

\* A live process leaves no sandbox behind but the ones its callers hold: a call
\* that returns has removed its own, on every path, unless the kill failed or
\* OpenSandbox made the sandbox and did not say so.
NoStray ==
  \A c \in boxes : Served(c) /\ ~Went(c, {"create", "kill"}) => pc[c] # "done"

\* "This must run on the final attempt too" (runner.go:274): a live call that is
\* not about to clean up has left no half-made sandbox, unless docker failed to
\* remove it or the call was cancelled.
PartialsCleaned ==
  \A c \in Calls : Served(c) /\ pc[c] # "cleanup" /\ ~Went(c, {"partial"}) => partials[c] = 0

\* A live process leaves nothing behind, whole or half-made (launchSandbox, teardown).
NothingLeft == NoStray /\ PartialsCleaned

\* A process that serves has destroyed every sandbox it found whose owner was dead,
\* though the pid of that owner may be in use again, unless the kill failed.
ReapComplete ==
  \A i \in Processes : proc[i] = "serving" =>
    \A c \in orphans[i] \cap boxes : Went(c, {"kill"})
===============================================================================
