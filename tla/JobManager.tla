------------------------------ MODULE JobManager ------------------------------
(***************************************************************************)
(* The background-job registry of internal/sandbox/jobs.go: Start, Status, *)
(* Wait, Cancel, Shutdown and the TTL reaper, at the grain at which their  *)
(* goroutines interleave.                                                  *)
(*                                                                         *)
(* A step is one atomic operation of the code: one critical section of     *)
(* m.mu or j.mu, one atomic load or compare-and-swap of j.state, one call  *)
(* of the notifier, one receive.  The actors are                           *)
(*   - one goroutine per job (pc), from the tool handler that calls Start  *)
(*     to the close of j.done;                                             *)
(*   - Cancellers, the callers of Cancel, each walking the job tree;       *)
(*   - Watchers, the callers of Status and Wait;                           *)
(*   - the reaper, the clock and Shutdown.                                 *)
(*                                                                         *)
(* run(), the sandbox work, is an external step that ends in a result, an  *)
(* error or a panic.  Costs and the stdout tail, which Status reads from   *)
(* files, are left out.                                                    *)
(***************************************************************************)
EXTENDS Naturals, Sequences, FiniteSets

CONSTANTS
  Jobs,          \* the job handles that Start may issue
  NoJob,         \* the empty parent of a root job
  RunEnds,       \* the ways run() may end: "ok", "err", "panic"
  ExitCodes,     \* exit codes of a run that returns without error
  Cancellers,    \* concurrent callers of Cancel
  Watchers,      \* concurrent callers of Status and Wait
  JobTTL,        \* jobTTL in clock ticks
  MaxClock,      \* bound on the clock
  MaxShutdowns   \* 0 in an instance whose server never shuts down, else 1

ASSUME ParentAssumption == NoJob \notin Jobs
ASSUME ExitAssumption   == ExitCodes \subseteq Nat
ASSUME EndAssumption    == RunEnds \subseteq {"ok", "err", "panic"}
ASSUME ClockAssumption  == JobTTL \in Nat /\ MaxClock \in Nat

VARIABLES
  pc,            \* where the goroutine (earlier: the handler) of each job is
  state,         \* j.state
  parent,        \* j.parent
  returned,      \* what run() returned, not yet visible to anyone
  outcome,       \* j.outcome
  finishedAt,    \* j.finishedAt, 0 being Go's zero time
  aborted,       \* j.cancel has been called
  notes,         \* the statuses passed to j.notify, in order
  known,         \* the keys of m.jobs
  children,      \* m.children
  clock,         \* m.now, from 1
  phase,         \* "up", "waiting" in Shutdown's wg.Wait, "down" after it
  cpc, todo, node, target, scope,    \* the Cancel calls
  wpc, wjob, wseen, reply            \* the Status and Wait calls

jobVars   == <<pc, state, parent, returned, outcome, finishedAt, aborted, notes>>
regVars   == <<known, children, clock, phase>>
canVars   == <<cpc, todo, node, target, scope>>
watchVars == <<wpc, wjob, wseen, reply>>
vars      == <<jobVars, regVars, canVars, watchVars>>

-------------------------------------------------------------------------------
Statuses      == {"running", "succeeded", "failed", "cancelled"}
isTerminal(s) == s \in {"succeeded", "failed", "cancelled"}

\* JobOutcome, of which the zero value is what an error, a panic or a lost
\* terminal race leaves behind.
ZeroOutcome == [text |-> FALSE, exit |-> 0]
Outcome     == [text : BOOLEAN, exit : ExitCodes \cup {0}]

\* The pair (outcome, err) of run(), or its panic.
Results     == [how : {"ok"}, out : [text : {TRUE}, exit : ExitCodes]]
                 \cup [how : {"err", "panic"}, out : {ZeroOutcome}]
NoResult    == [how |-> "none", out |-> ZeroOutcome]

WinState(r) == IF r.how = "ok" THEN "succeeded" ELSE "failed"

Registered(j) == pc[j] \notin {"unborn", "requested"}
Done(j)       == pc[j] = "exited"                   \* j.done is closed
Live          == {j \in Jobs : pc[j] \in
                    {"run", "ready", "returned", "record", "announce", "closing"}}
CtxDone(j)    == aborted[j] \/ phase # "up"         \* jobCtx derives from rootCtx

NoReply  == [op |-> "none", job |-> NoJob, status |-> "none", out |-> ZeroOutcome]
Replies  == [op : {"none", "status", "wait"}, job : Jobs \cup {NoJob},
             status : Statuses \cup {"none", "notfound"}, out : Outcome]
WorkItem == [op : {"enter", "kill"}, job : Jobs]

Init ==
  /\ pc         = [j \in Jobs |-> "unborn"]
  /\ state      = [j \in Jobs |-> "running"]
  /\ parent     = [j \in Jobs |-> NoJob]
  /\ returned   = [j \in Jobs |-> NoResult]
  /\ outcome    = [j \in Jobs |-> ZeroOutcome]
  /\ finishedAt = [j \in Jobs |-> 0]
  /\ aborted    = [j \in Jobs |-> FALSE]
  /\ notes      = [j \in Jobs |-> <<>>]
  /\ known      = {}
  /\ children   = [j \in Jobs |-> <<>>]
  /\ clock      = 1
  /\ phase      = "up"
  /\ cpc        = [c \in Cancellers |-> "idle"]
  /\ todo       = [c \in Cancellers |-> <<>>]
  /\ node       = [c \in Cancellers |-> NoJob]
  /\ target     = [c \in Cancellers |-> NoJob]
  /\ scope      = [c \in Cancellers |-> {}]
  /\ wpc        = [w \in Watchers |-> "idle"]
  /\ wjob       = [w \in Watchers |-> NoJob]
  /\ wseen      = [w \in Watchers |-> "running"]
  /\ reply      = [w \in Watchers |-> NoReply]

-------------------------------------------------------------------------------
(* Start, and the goroutine it launches *)

\* A tool handler is about to call Start.  A child's handler resolves the
\* parent's spawn context while the parent's run has it registered; it keeps
\* the parent handle however long it takes to reach Start.
Request(j, p) ==
  /\ pc[j] = "unborn"
  /\ p = NoJob \/ (p \in Jobs /\ pc[p] = "ready")
  /\ pc'     = [pc EXCEPT ![j] = "requested"]
  /\ parent' = [parent EXCEPT ![j] = p]
  /\ UNCHANGED <<state, returned, outcome, finishedAt, aborted, notes,
                 regVars, canVars, watchVars>>

\* Start's critical section: the job becomes visible, whatever became of the
\* parent in the meantime.
Register(j) ==
  /\ pc[j] = "requested"
  /\ pc'       = [pc EXCEPT ![j] = "registered"]
  /\ known'    = known \cup {j}
  /\ children' = IF parent[j] = NoJob THEN children
                 ELSE [children EXCEPT ![parent[j]] = Append(@, j)]
  /\ UNCHANGED <<state, parent, returned, outcome, finishedAt, aborted, notes,
                 clock, phase, canVars, watchVars>>

\* m.wg.Add(1) and the go statement.
Launch(j) ==
  /\ pc[j] = "registered"
  /\ pc' = [pc EXCEPT ![j] = "run"]
  /\ UNCHANGED <<state, parent, returned, outcome, finishedAt, aborted, notes,
                 regVars, canVars, watchVars>>

\* run() calls OnOutputReady, after which it may serve child spawns.
OutputReady(j) ==
  /\ pc[j] = "run"
  /\ pc' = [pc EXCEPT ![j] = "ready"]
  /\ UNCHANGED <<state, parent, returned, outcome, finishedAt, aborted, notes,
                 regVars, canVars, watchVars>>

\* run() returns or panics.  It has a result only once its output exists.
RunReturns(j) ==
  /\ pc[j] \in {"run", "ready"}
  /\ \E r \in Results :
       /\ r.how \in RunEnds
       /\ r.how = "ok" => pc[j] = "ready"
       /\ returned' = [returned EXCEPT ![j] = r]
  /\ pc' = [pc EXCEPT ![j] = "returned"]
  /\ UNCHANGED <<state, parent, outcome, finishedAt, aborted, notes,
                 regVars, canVars, watchVars>>

\* Mutant: the loser of the race records and announces as well.
FinishLoud(j) ==
  /\ pc[j] = "returned"
  /\ state' = [state EXCEPT ![j] = IF @ = "running" THEN WinState(returned[j]) ELSE @]
  /\ pc'    = [pc EXCEPT ![j] = "record"]
  /\ UNCHANGED <<parent, returned, outcome, finishedAt, aborted, notes,
                 regVars, canVars, watchVars>>

\* The goroutine's compare-and-swap, on return and on recovery from a panic.
Finish(j) ==
  /\ pc[j] = "returned"
  /\ IF state[j] = "running"
       THEN /\ state' = [state EXCEPT ![j] = WinState(returned[j])]
            /\ pc'    = [pc EXCEPT ![j] = "record"]
       ELSE /\ pc'    = [pc EXCEPT ![j] = "closing"]
            /\ state' = state
  /\ UNCHANGED <<parent, returned, outcome, finishedAt, aborted, notes,
                 regVars, canVars, watchVars>>

\* Mutant: the notification is forgotten.
RecordSilent(j) ==
  /\ pc[j] = "record"
  /\ outcome'    = [outcome EXCEPT ![j] = returned[j].out]
  /\ finishedAt' = [finishedAt EXCEPT ![j] = clock]
  /\ pc'         = [pc EXCEPT ![j] = "closing"]
  /\ UNCHANGED <<state, parent, returned, aborted, notes,
                 regVars, canVars, watchVars>>

\* The winner's critical section on j.mu; the recovery path stores no outcome.
Record(j) ==
  /\ pc[j] = "record"
  /\ outcome'    = IF returned[j].how = "panic" THEN outcome
                   ELSE [outcome EXCEPT ![j] = returned[j].out]
  /\ finishedAt' = [finishedAt EXCEPT ![j] = clock]
  /\ pc'         = [pc EXCEPT ![j] = "announce"]
  /\ UNCHANGED <<state, parent, returned, aborted, notes,
                 regVars, canVars, watchVars>>

Announce(j) ==
  /\ pc[j] = "announce"
  /\ notes' = [notes EXCEPT ![j] = Append(@, WinState(returned[j]))]
  /\ pc'    = [pc EXCEPT ![j] = "closing"]
  /\ UNCHANGED <<state, parent, returned, outcome, finishedAt, aborted,
                 regVars, canVars, watchVars>>

\* The deferred close(j.done) and wg.Done.
Exit(j) ==
  /\ pc[j] = "closing"
  /\ pc' = [pc EXCEPT ![j] = "exited"]
  /\ UNCHANGED <<state, parent, returned, outcome, finishedAt, aborted, notes,
                 regVars, canVars, watchVars>>

-------------------------------------------------------------------------------
(* Cancel.  The recursion of cancelSubtree is the stack todo[c]: "enter" is  *)
(* the call on a node, "kill" what is left of it after the recursive calls.  *)

\* Cancel's lookup.  scope[c] is a history variable: what was registered then.
CancelCall(c, j) ==
  /\ cpc[c] = "idle"
  /\ j \in known
  /\ cpc'    = [cpc EXCEPT ![c] = "walk"]
  /\ todo'   = [todo EXCEPT ![c] = <<[op |-> "enter", job |-> j]>>]
  /\ target' = [target EXCEPT ![c] = j]
  /\ scope'  = [scope EXCEPT ![c] = known]
  /\ UNCHANGED <<node, jobVars, regVars, watchVars>>

Calls(j) == [i \in 1..Len(children[j]) |-> [op |-> "enter", job |-> children[j][i]]]

\* Mutants: an ended node is not descended from; the node goes before its children.
VisitRunning(j) ==
  IF j \in known /\ state[j] = "running"
    THEN Calls(j) \o <<[op |-> "kill", job |-> j]>> ELSE <<>>
VisitTopDown(j) ==
  IF j \in known THEN <<[op |-> "kill", job |-> j]>> \o Calls(j) ELSE <<>>
\* The snapshot of a node's children under m.mu; a node that is gone ends there.
Visit(j) ==
  IF j \in known
    THEN Calls(j) \o <<[op |-> "kill", job |-> j]>>
    ELSE <<>>

Enter(c) ==
  /\ cpc[c] = "walk"
  /\ todo[c] # <<>>
  /\ Head(todo[c]).op = "enter"
  /\ todo' = [todo EXCEPT ![c] = Visit(Head(@).job) \o Tail(@)]
  /\ UNCHANGED <<cpc, node, target, scope, jobVars, regVars, watchVars>>

\* The canceller's compare-and-swap; losing it ends the node.
Kill(c) ==
  /\ cpc[c] = "walk"
  /\ todo[c] # <<>>
  /\ Head(todo[c]).op = "kill"
  /\ todo' = [todo EXCEPT ![c] = Tail(@)]
  /\ LET j == Head(todo[c]).job IN
       IF state[j] = "running"
         THEN /\ state' = [state EXCEPT ![j] = "cancelled"]
              /\ node'  = [node EXCEPT ![c] = j]
              /\ cpc'   = [cpc EXCEPT ![c] = "stamp"]
         ELSE UNCHANGED <<state, node, cpc>>
  /\ UNCHANGED <<target, scope, pc, parent, returned, outcome, finishedAt,
                 aborted, notes, regVars, watchVars>>

Stamp(c) ==
  /\ cpc[c] = "stamp"
  /\ finishedAt' = [finishedAt EXCEPT ![node[c]] = clock]
  /\ cpc'        = [cpc EXCEPT ![c] = "abort"]
  /\ UNCHANGED <<todo, node, target, scope, pc, state, parent, returned, outcome,
                 aborted, notes, regVars, watchVars>>

\* Mutant: j.cancel() is forgotten.
AbortMissing(c) ==
  /\ cpc[c] = "abort"
  /\ cpc' = [cpc EXCEPT ![c] = "notify"]
  /\ UNCHANGED <<todo, node, target, scope, jobVars, regVars, watchVars>>
\* j.cancel()
Abort(c) ==
  /\ cpc[c] = "abort"
  /\ aborted' = [aborted EXCEPT ![node[c]] = TRUE]
  /\ cpc'     = [cpc EXCEPT ![c] = "notify"]
  /\ UNCHANGED <<todo, node, target, scope, pc, state, parent, returned, outcome,
                 finishedAt, notes, regVars, watchVars>>

NotifyCancelled(c) ==
  /\ cpc[c] = "notify"
  /\ notes' = [notes EXCEPT ![node[c]] = Append(@, "cancelled")]
  /\ node'  = [node EXCEPT ![c] = NoJob]
  /\ cpc'   = [cpc EXCEPT ![c] = "walk"]
  /\ UNCHANGED <<todo, target, scope, pc, state, parent, returned, outcome,
                 finishedAt, aborted, regVars, watchVars>>

\* Cancel returns state[target[c]].
Returning(c) == cpc[c] = "walk" /\ todo[c] = <<>>

CancelReturn(c) ==
  /\ Returning(c)
  /\ cpc'    = [cpc EXCEPT ![c] = "idle"]
  /\ target' = [target EXCEPT ![c] = NoJob]
  /\ scope'  = [scope EXCEPT ![c] = {}]
  /\ UNCHANGED <<todo, node, jobVars, regVars, watchVars>>

-------------------------------------------------------------------------------
(* Status and Wait *)

\* The lookup under m.mu.  The watcher keeps the job's pointer from here on.
Lookup(w, op, j) ==
  /\ wpc[w] = "idle"
  /\ Registered(j)
  /\ IF j \in known
       THEN /\ wpc'  = [wpc EXCEPT ![w] = op]
            /\ wjob' = [wjob EXCEPT ![w] = j]
            /\ reply' = reply
       ELSE /\ reply' = [reply EXCEPT ![w] =
                 [op |-> op, job |-> j, status |-> "notfound", out |-> ZeroOutcome]]
            /\ UNCHANGED <<wpc, wjob>>
  /\ UNCHANGED <<wseen, jobVars, regVars, canVars>>

\* Replying hands the caller a status and an outcome and ends the call.
Respond(w, op, s, o) ==
  /\ reply' = [reply EXCEPT ![w] =
                 [op |-> op, job |-> wjob[w], status |-> s, out |-> o]]
  /\ wpc'   = [wpc EXCEPT ![w] = "idle"]
  /\ wjob'  = [wjob EXCEPT ![w] = NoJob]
  /\ wseen' = [wseen EXCEPT ![w] = "running"]
  /\ UNCHANGED <<jobVars, regVars, canVars>>

\* Status loads j.state ...
StatusLoad(w) ==
  /\ wpc[w] = "status"
  /\ wseen' = [wseen EXCEPT ![w] = state[wjob[w]]]
  /\ wpc'   = [wpc EXCEPT ![w] = "fields"]
  /\ UNCHANGED <<wjob, reply, jobVars, regVars, canVars>>

\* ... and then the exit code of j.outcome under j.mu.
StatusReply(w) ==
  /\ wpc[w] = "fields"
  /\ Respond(w, "status", wseen[w],
             [text |-> FALSE, exit |-> outcome[wjob[w]].exit])

\* Mutant: a terminal job is waited for like a running one.
WaitCheckNone(w) ==
  /\ wpc[w] = "wait"
  /\ wpc' = [wpc EXCEPT ![w] = "select"]
  /\ UNCHANGED <<wjob, wseen, reply, jobVars, regVars, canVars>>

\* Wait's test of j.state: a terminal job is awaited without the timer.
WaitCheck(w) ==
  /\ wpc[w] = "wait"
  /\ wpc' = [wpc EXCEPT ![w] =
               IF isTerminal(state[wjob[w]]) THEN "settling" ELSE "select"]
  /\ UNCHANGED <<wjob, wseen, reply, jobVars, regVars, canVars>>

\* Mutant: the fast path does not receive from j.done.
WaitDoneEarly(w) ==
  /\ wpc[w] = "settling" \/ (wpc[w] = "select" /\ Done(wjob[w]))
  /\ Respond(w, "wait", state[wjob[w]], outcome[wjob[w]])

\* Either receive of j.done, followed by buildWaitResult.
WaitDone(w) ==
  /\ wpc[w] \in {"settling", "select"}
  /\ Done(wjob[w])
  /\ Respond(w, "wait", state[wjob[w]], outcome[wjob[w]])

WaitTimeout(w) ==
  /\ wpc[w] = "select"
  /\ Respond(w, "wait", "running", ZeroOutcome)

\* ctx.Done(): the caller gets an error and the job is left alone.
WaitAbandoned(w) ==
  /\ wpc[w] = "select"
  /\ wpc'   = [wpc EXCEPT ![w] = "idle"]
  /\ wjob'  = [wjob EXCEPT ![w] = NoJob]
  /\ UNCHANGED <<wseen, reply, jobVars, regVars, canVars>>

-------------------------------------------------------------------------------
(* The clock, the reaper and Shutdown *)

Tick ==
  /\ clock < MaxClock
  /\ clock' = clock + 1
  /\ UNCHANGED <<known, children, phase, jobVars, canVars, watchVars>>

Expired(j) ==
  /\ isTerminal(state[j])
  /\ finishedAt[j] # 0
  /\ finishedAt[j] + JobTTL < clock

\* reapExpired's sweep, under m.mu; reapLoop ends with the root context.
Reap ==
  LET gone == {j \in known : Expired(j)} IN
  /\ phase = "up"
  /\ gone # {}
  /\ known'    = known \ gone
  /\ children' = [j \in Jobs |-> IF j \in gone THEN <<>> ELSE children[j]]
  /\ UNCHANGED <<clock, phase, jobVars, canVars, watchVars>>

\* m.rootCancel()
Shutdown ==
  /\ phase = "up"
  /\ MaxShutdowns = 1
  /\ phase' = "waiting"
  /\ UNCHANGED <<known, children, clock, jobVars, canVars, watchVars>>

\* m.wg.Wait() returns
ShutdownReturns ==
  /\ phase = "waiting"
  /\ Live = {}
  /\ phase' = "down"
  /\ UNCHANGED <<known, children, clock, jobVars, canVars, watchVars>>

-------------------------------------------------------------------------------
JobStep(j) ==
  \/ \E p \in Jobs \cup {NoJob} : Request(j, p)
  \/ Register(j) \/ Launch(j) \/ OutputReady(j) \/ RunReturns(j)
  \/ Finish(j) \/ Record(j) \/ Announce(j) \/ Exit(j)

CancelStep(c) ==
  \/ \E j \in Jobs : CancelCall(c, j)
  \/ Enter(c) \/ Kill(c) \/ Stamp(c) \/ Abort(c) \/ NotifyCancelled(c)
  \/ CancelReturn(c)

WatchStep(w) ==
  \/ \E op \in {"status", "wait"}, j \in Jobs : Lookup(w, op, j)
  \/ StatusLoad(w) \/ StatusReply(w)
  \/ WaitCheck(w) \/ WaitDone(w) \/ WaitTimeout(w) \/ WaitAbandoned(w)

ManagerStep == Tick \/ Reap \/ Shutdown \/ ShutdownReturns

Next ==
  \/ \E j \in Jobs : JobStep(j)
  \/ \E c \in Cancellers : CancelStep(c)
  \/ \E w \in Watchers : WatchStep(w)
  \/ ManagerStep

Spec == Init /\ [][Next]_vars

\* The Go scheduler runs every goroutine that can take a step.  run() is only
\* assumed to return once its context is cancelled: the sandbox calls it makes
\* take that context.  Nobody is obliged to call Cancel, Status or Wait.
GoroutineFairness(j) ==
  /\ WF_vars(Register(j)) /\ WF_vars(Launch(j))
  /\ WF_vars(CtxDone(j) /\ RunReturns(j))
  /\ WF_vars(Finish(j)) /\ WF_vars(Record(j)) /\ WF_vars(Announce(j))
  /\ WF_vars(Exit(j))

CancelFairness(c) ==
  WF_vars(Enter(c) \/ Kill(c) \/ Stamp(c) \/ Abort(c) \/ NotifyCancelled(c)
            \/ CancelReturn(c))

WatchFairness(w) ==
  /\ WF_vars(StatusLoad(w)) /\ WF_vars(StatusReply(w)) /\ WF_vars(WaitCheck(w))
  /\ WF_vars(WaitDone(w)) /\ WF_vars(WaitTimeout(w))

FairSpec ==
  /\ Spec
  /\ \A j \in Jobs : GoroutineFairness(j)
  /\ \A c \in Cancellers : CancelFairness(c)
  /\ \A w \in Watchers : WatchFairness(w)
  /\ WF_vars(ShutdownReturns)
-------------------------------------------------------------------------------
(* Properties *)

\* Every variable has the shape of the Go field or local it stands for.
TypeOK ==
  /\ pc \in [Jobs -> {"unborn", "requested", "registered", "run", "ready",
                      "returned", "record", "announce", "closing", "exited"}]
  /\ state      \in [Jobs -> Statuses]
  /\ parent     \in [Jobs -> Jobs \cup {NoJob}]
  /\ returned   \in [Jobs -> Results \cup {NoResult}]
  /\ outcome    \in [Jobs -> Outcome]
  /\ finishedAt \in [Jobs -> Nat]
  /\ aborted    \in [Jobs -> BOOLEAN]
  /\ notes      \in [Jobs -> Seq(Statuses)]
  /\ known      \subseteq Jobs
  /\ children   \in [Jobs -> Seq(Jobs)]
  /\ clock      \in Nat
  /\ phase      \in {"up", "waiting", "down"}
  /\ cpc        \in [Cancellers -> {"idle", "walk", "stamp", "abort", "notify"}]
  /\ todo       \in [Cancellers -> Seq(WorkItem)]
  /\ node       \in [Cancellers -> Jobs \cup {NoJob}]
  /\ target     \in [Cancellers -> Jobs \cup {NoJob}]
  /\ scope      \in [Cancellers -> SUBSET Jobs]
  /\ wpc        \in [Watchers -> {"idle", "status", "fields", "wait",
                                  "settling", "select"}]
  /\ wjob       \in [Watchers -> Jobs \cup {NoJob}]
  /\ wseen      \in [Watchers -> Statuses]
  /\ reply      \in [Watchers -> Replies]

\* The terminal-state race of jobs.go:309 and 487 has one winner: no later
\* return, panic or Cancel rewrites the status a job ended in.
TerminalStable ==
  [][\A j \in Jobs : isTerminal(state[j]) => state'[j] = state[j]]_vars

\* "TerminalNotifier is called once": however a return, a panic and any number
\* of Cancels race, a notifier hears at most one status, and it is the one the
\* job ended in.
NotifiedOnce ==
  \A j \in Jobs :
    notes[j] = <<>> \/ (isTerminal(state[j]) /\ notes[j] = <<state[j]>>)

\* The result a job ended with: what run() returned if the goroutine won the
\* race, nothing at all if Cancel did.
FinalOutcome(j) == IF state[j] = "succeeded" THEN returned[j].out ELSE ZeroOutcome

\* A Wait that reports an ending reports the job's final status together with
\* its final outcome, never the status before the outcome is stored.  The state
\* turns terminal first, so this is what the receive of j.done is there for.
WaitNeverTorn ==
  \A w \in Watchers :
    LET r == reply[w] IN
      r.op = "wait" /\ isTerminal(r.status)
        => r.status = state[r.job] /\ r.out = FinalOutcome(r.job)

\* What one caller is told of one job only advances: from running to an ending,
\* and from there at most to "job not found" (sandbox_status.md, idempotentHint).
\* Wait must not answer "running" to a caller who saw the job end.
RepliesAdvance ==
  [][\A w \in Watchers :
       reply'[w].job = reply[w].job
         => /\ isTerminal(reply[w].status)
                 => reply'[w].status \in {reply[w].status, "notfound"}
            /\ reply[w].status = "notfound" => reply'[w].status = "notfound"]_vars

\* A job leaves the registry only once it is settled: its end has been stamped,
\* and if it succeeded its outcome is stored, so "not found" never replaces a
\* result that nobody could have read yet.
ReapedIsSettled ==
  \A j \in Jobs :
    Registered(j) /\ j \notin known
      => /\ isTerminal(state[j])
         /\ outcome[j] = FinalOutcome(j)

\* Between the moment a state turns terminal and the moment its outcome is stored
\* (jobs.go:309 to 315), neither a Wait nor the reaper takes the job for over.
EndingsAreComplete == WaitNeverTorn /\ ReapedIsSettled

\* Cancel never reports "running": when the walk is over its target has ended,
\* by this call, by another one, or by itself.
CancelEndsTarget ==
  \A c \in Cancellers : Returning(c) => isTerminal(state[target[c]])

\* f leads from t to j along n edges of the tree of the jobs still registered.
Path(f, n, t, j) ==
  /\ f \in [0..n -> known] /\ f[0] = t /\ f[n] = j
  /\ \A i \in 1..n : parent[f[i]] = f[i - 1]

\* t and what hangs below it in that tree.
Below(t) ==
  {j \in known : \E n \in 0..Cardinality(Jobs) : \E f \in [0..n -> known] : Path(f, n, t, j)}

\* What a Cancel does guarantee of the subtree: the target, and every descendant
\* registered when the call began, on a path from the target none of whose jobs was
\* reaped, has ended when it returns - below ended jobs too, whose own children may
\* still run.
CancelCoversSubtree ==
  \A c \in Cancellers :
    Returning(c) =>
      \A j \in {target[c]} \cup (scope[c] \cap Below(target[c])) : isTerminal(state[j])

\* "depth-first (children are cancelled before their parent)": at the moment a
\* Cancel ends a job, the children it had when the call began have all ended.
ChildrenBeforeParent ==
  [][\A p \in Jobs : state[p] = "running" /\ state'[p] = "cancelled" =>
       \E c \in Cancellers :
         /\ cpc[c] = "walk" /\ cpc'[c] = "stamp" /\ node'[c] = p
         /\ \A j \in scope[c] : parent[j] = p => isTerminal(state[j])]_vars

\* Every Wait and Status returns - also on the path that waits for a terminal job
\* without a timer.
WatchersReturn == \A w \in Watchers : wpc[w] # "idle" ~> wpc[w] = "idle"

\* Every Cancel returns, and Shutdown's wg.Wait does.
CancelReturns   == \A c \in Cancellers : cpc[c] # "idle" ~> cpc[c] = "idle"
ShutdownEnds    == phase = "waiting" ~> phase = "down"

\* No caller of the registry is left waiting: each Status, Wait, Cancel and Shutdown
\* returns, whichever jobs end, are cancelled or are reaped meanwhile.
CallsReturn == WatchersReturn /\ CancelReturns /\ ShutdownEnds

-------------------------------------------------------------------------------
(* The registry implements JobLifecycle. *)

LifeStatus == [j \in Jobs |-> IF Registered(j) THEN state[j] ELSE "unborn"]
LifeTold   == [j \in Jobs |-> notes[j]]

Life == INSTANCE JobLifecycle WITH status <- LifeStatus, told <- LifeTold

\* Each job ends once, in one status, and its notifier hears that status at most
\* once and nothing else: a second notification is no step of JobLifecycle.
LifecycleSafety == Life!Spec
\* ... and is told eventually.
LifecycleFair   == Life!FairSpec

-------------------------------------------------------------------------------
(* What the comments and documents say, beyond the above *)

\* The jobs registered below t, those below a reaped job included.
Offspring(t) ==
  LET upTo[n \in Nat] ==
        IF n = 0 THEN {t}
        ELSE upTo[n - 1] \cup {j \in Jobs : parent[j] \in upTo[n - 1]}
  IN upTo[Cardinality(Jobs)]

\* "Cancel requests cancellation of job id and all of its descendants"
\* (jobs.go:448): when Cancel returns, no job that was registered below its
\* target when it was called still runs.
CancelReachesOffspring ==
  \A c \in Cancellers :
    Returning(c) /\ target[c] \in known =>
      \A j \in scope[c] \cap Offspring(target[c]) : isTerminal(state[j])
===============================================================================
