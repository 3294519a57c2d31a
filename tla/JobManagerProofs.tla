--------------------------- MODULE JobManagerProofs ---------------------------
(***************************************************************************)
(* Theorems of JobManager, for any set of jobs, cancellers and watchers:   *)
(*   1. type correctness;                                                  *)
(*   2. the inductive invariant of the registry, its goroutines and its    *)
(*      callers, and the safety properties that follow from it;            *)
(*   3. what a Cancel does: it ends its target and the registered subtree, *)
(*      children first;                                                    *)
(*   4. the registry implements JobLifecycle.                              *)
(***************************************************************************)
EXTENDS JobManager, TLAPS

-------------------------------------------------------------------------------
(* 1. Types: lemmas *)

\* A status computed by the goroutine is one of the two it can win with.
LEMMA WinStateType ==
  ASSUME NEW r PROVE WinState(r) \in {"succeeded", "failed"}
BY DEF WinState

\* Whatever run() left behind carries an outcome.
LEMMA ResultType ==
  ASSUME NEW r \in Results \cup {NoResult} PROVE r.out \in Outcome
<1>1. ZeroOutcome \in Outcome
  BY DEF ZeroOutcome, Outcome
<1>2. CASE r \in [how : {"ok"}, out : [text : {TRUE}, exit : ExitCodes]]
  <2>1. r.out \in [text : {TRUE}, exit : ExitCodes]
    BY <1>2
  <2> QED BY <2>1 DEF Outcome
<1>3. CASE r \in [how : {"err", "panic"}, out : {ZeroOutcome}]
  BY <1>1, <1>3
<1>4. CASE r = NoResult
  BY <1>1, <1>4 DEF NoResult
<1> QED BY <1>2, <1>3, <1>4 DEF Results

\* The calls cancelSubtree makes at a node are work items.
LEMMA VisitType ==
  ASSUME TypeOK, NEW j \in Jobs PROVE Visit(j) \in Seq(WorkItem)
<1>1. children[j] \in Seq(Jobs)
  BY DEF TypeOK
<1>2. Calls(j) \in Seq(WorkItem)
  <2>1. Len(children[j]) \in Nat
    BY <1>1
  <2>2. \A i \in 1..Len(children[j]) :
          [op |-> "enter", job |-> children[j][i]] \in WorkItem
    BY <1>1 DEF WorkItem
  <2> QED BY <2>1, <2>2 DEF Calls
<1>3. <<[op |-> "kill", job |-> j]>> \in Seq(WorkItem)
  BY DEF WorkItem
<1> QED BY <1>2, <1>3 DEF Visit

-------------------------------------------------------------------------------
(* Type correctness.  TypeOK is inductive together with the fact that a call *)
(* of Status or Wait under way holds a job.                                  *)

WatchersHold == \A w \in Watchers : wpc[w] # "idle" => wjob[w] \in Jobs

TypeInv == TypeOK /\ WatchersHold

LEMMA TypeInit == Init => TypeInv
BY DEF Init, TypeInv, TypeOK, WatchersHold, Statuses, Outcome, ZeroOutcome,
       Results, NoResult, NoReply, Replies

LEMMA TypeJobStep ==
  ASSUME TypeInv, NEW j \in Jobs, JobStep(j) PROVE TypeInv'
<1> USE DEF TypeInv
<1>1. WatchersHold'
  BY DEF JobStep, Request, Register, Launch, OutputReady, RunReturns, Finish, Record,
         Announce, Exit, WatchersHold, watchVars
<1> SUFFICES TypeOK'
  BY <1>1
<1>2. ASSUME NEW p \in Jobs \cup {NoJob}, Request(j, p) PROVE TypeOK'
  BY <1>2 DEF Request, TypeOK, regVars, canVars, watchVars
<1>3. CASE Register(j)
  <2>1. children' \in [Jobs -> Seq(Jobs)]
    BY <1>3 DEF Register, TypeOK
  <2> QED BY <1>3, <2>1 DEF Register, TypeOK, canVars, watchVars
<1>4. CASE Launch(j)
  BY <1>4 DEF Launch, TypeOK, regVars, canVars, watchVars
<1>5. CASE OutputReady(j)
  BY <1>5 DEF OutputReady, TypeOK, regVars, canVars, watchVars
<1>6. CASE RunReturns(j)
  <2>1. PICK r \in Results : returned' = [returned EXCEPT ![j] = r]
    BY <1>6 DEF RunReturns
  <2>2. returned' \in [Jobs -> Results \cup {NoResult}]
    BY <2>1 DEF TypeOK
  <2> QED BY <1>6, <2>2 DEF RunReturns, TypeOK, regVars, canVars, watchVars
<1>7. CASE Finish(j)
  <2>1. WinState(returned[j]) \in Statuses
    BY WinStateType DEF Statuses
  <2>2. state' = [state EXCEPT ![j] = WinState(returned[j])] \/ state' = state
    BY <1>7 DEF Finish
  <2>3. state' \in [Jobs -> Statuses]
    BY <2>1, <2>2 DEF TypeOK
  <2> QED BY <1>7, <2>3 DEF Finish, TypeOK, regVars, canVars, watchVars
<1>8. CASE Record(j)
  <2>1. returned[j].out \in Outcome
    BY ResultType DEF TypeOK
  <2> QED BY <1>8, <2>1 DEF Record, TypeOK, regVars, canVars, watchVars
<1>9. CASE Announce(j)
  <2>1. Append(notes[j], WinState(returned[j])) \in Seq(Statuses)
    BY WinStateType DEF TypeOK, Statuses
  <2> QED BY <1>9, <2>1 DEF Announce, TypeOK, regVars, canVars, watchVars
<1>10. CASE Exit(j)
  BY <1>10 DEF Exit, TypeOK, regVars, canVars, watchVars
<1> QED BY <1>1, <1>2, <1>3, <1>4, <1>5, <1>6, <1>7, <1>8, <1>9, <1>10 DEF JobStep

LEMMA TypeCancelStep ==
  ASSUME TypeInv, NEW c \in Cancellers, CancelStep(c) PROVE TypeInv'
<1> USE DEF TypeInv
<1>1. WatchersHold'
  BY DEF CancelStep, CancelCall, Enter, Kill, Stamp, Abort, NotifyCancelled,
         CancelReturn, WatchersHold, watchVars
<1> SUFFICES TypeOK'
  BY <1>1
<1>2. ASSUME NEW j \in Jobs, CancelCall(c, j) PROVE TypeOK'
  <2>1. <<[op |-> "enter", job |-> j]>> \in Seq(WorkItem)
    BY DEF WorkItem
  <2> QED BY <1>2, <2>1 DEF CancelCall, TypeOK, jobVars, regVars, watchVars
<1>3. CASE Enter(c)
  <2>1. Head(todo[c]) \in WorkItem /\ Tail(todo[c]) \in Seq(WorkItem)
    BY <1>3 DEF Enter, TypeOK
  <2>2. Visit(Head(todo[c]).job) \in Seq(WorkItem)
    BY <2>1, VisitType DEF WorkItem
  <2>3. Visit(Head(todo[c]).job) \o Tail(todo[c]) \in Seq(WorkItem)
    BY <2>1, <2>2
  <2> QED BY <1>3, <2>3 DEF Enter, TypeOK, jobVars, regVars, watchVars
<1>4. CASE Kill(c)
  <2>1. Head(todo[c]) \in WorkItem /\ Tail(todo[c]) \in Seq(WorkItem)
    BY <1>4 DEF Kill, TypeOK
  <2>2. Head(todo[c]).job \in Jobs
    BY <2>1 DEF WorkItem
  <2> QED BY <1>4, <2>1, <2>2 DEF Kill, TypeOK, Statuses, regVars, watchVars
<1>5. CASE Stamp(c)
  BY <1>5 DEF Stamp, TypeOK, regVars, watchVars
<1>6. CASE Abort(c)
  BY <1>6 DEF Abort, TypeOK, regVars, watchVars
<1>7. CASE NotifyCancelled(c)
  <2>1. \A j \in Jobs : Append(notes[j], "cancelled") \in Seq(Statuses)
    BY DEF TypeOK, Statuses
  <2>2. notes' \in [Jobs -> Seq(Statuses)]
    BY <1>7, <2>1 DEF NotifyCancelled, TypeOK
  <2> QED BY <1>7, <2>2 DEF NotifyCancelled, TypeOK, regVars, watchVars
<1>8. CASE CancelReturn(c)
  BY <1>8 DEF CancelReturn, TypeOK, jobVars, regVars, watchVars
<1> QED BY <1>1, <1>2, <1>3, <1>4, <1>5, <1>6, <1>7, <1>8 DEF CancelStep

LEMMA TypeWatchStep ==
  ASSUME TypeInv, NEW w \in Watchers, WatchStep(w) PROVE TypeInv'
<1> USE DEF TypeInv
<1>1. ASSUME NEW op \in {"status", "wait"}, NEW s \in Statuses, NEW o \in Outcome,
             Respond(w, op, s, o)
      PROVE  TypeInv'
  <2>1. [op |-> op, job |-> wjob[w], status |-> s, out |-> o] \in Replies
    BY DEF Replies, TypeOK
  <2>2. TypeOK'
    BY <1>1, <2>1 DEF Respond, TypeOK, Statuses, jobVars, regVars, canVars
  <2>3. WatchersHold'
    BY <1>1 DEF Respond, TypeOK, WatchersHold
  <2> QED BY <2>2, <2>3
<1>2. ASSUME NEW op \in {"status", "wait"}, NEW j \in Jobs, Lookup(w, op, j)
      PROVE  TypeInv'
  <2>1. [op |-> op, job |-> j, status |-> "notfound", out |-> ZeroOutcome] \in Replies
    BY DEF Replies, Outcome, ZeroOutcome
  <2>2. TypeOK'
    BY <1>2, <2>1 DEF Lookup, TypeOK, jobVars, regVars, canVars
  <2>3. WatchersHold'
    BY <1>2 DEF Lookup, TypeOK, WatchersHold
  <2> QED BY <2>2, <2>3
<1>3. CASE StatusLoad(w)
  BY <1>3 DEF StatusLoad, TypeOK, WatchersHold, Statuses, jobVars, regVars, canVars
<1>4. CASE StatusReply(w)
  <2>1. [text |-> FALSE, exit |-> outcome[wjob[w]].exit] \in Outcome
    BY <1>4 DEF StatusReply, TypeOK, WatchersHold, Outcome
  <2>2. wseen[w] \in Statuses
    BY DEF TypeOK
  <2> QED BY <1>1, <1>4, <2>1, <2>2 DEF StatusReply
<1>5. CASE WaitCheck(w)
  BY <1>5 DEF WaitCheck, TypeOK, WatchersHold, jobVars, regVars, canVars
<1>6. CASE WaitDone(w)
  <2>1. state[wjob[w]] \in Statuses /\ outcome[wjob[w]] \in Outcome
    BY <1>6 DEF WaitDone, TypeOK, WatchersHold
  <2> QED BY <1>1, <1>6, <2>1 DEF WaitDone
<1>7. CASE WaitTimeout(w)
  <2>1. "running" \in Statuses /\ ZeroOutcome \in Outcome
    BY DEF Statuses, ZeroOutcome, Outcome
  <2> QED BY <1>1, <1>7, <2>1 DEF WaitTimeout
<1>8. CASE WaitAbandoned(w)
  BY <1>8 DEF WaitAbandoned, TypeOK, WatchersHold, jobVars, regVars, canVars
<1> QED BY <1>2, <1>3, <1>4, <1>5, <1>6, <1>7, <1>8 DEF WatchStep

LEMMA TypeManagerStep == TypeInv /\ ManagerStep => TypeInv'
<1> SUFFICES ASSUME TypeInv, ManagerStep PROVE TypeInv'
  OBVIOUS
<1> USE DEF TypeInv
<1>1. WatchersHold'
  BY DEF ManagerStep, Tick, Reap, Shutdown, ShutdownReturns, WatchersHold, watchVars
<1>2. CASE Tick
  BY <1>1, <1>2 DEF Tick, TypeOK, jobVars, canVars, watchVars
<1>3. CASE Reap
  <2>1. known' \subseteq Jobs
    BY <1>3 DEF Reap, TypeOK
  <2>2. children' \in [Jobs -> Seq(Jobs)]
    BY <1>3 DEF Reap, TypeOK
  <2> QED BY <1>1, <1>3, <2>1, <2>2 DEF Reap, TypeOK, jobVars, canVars, watchVars
<1>4. CASE Shutdown
  BY <1>1, <1>4 DEF Shutdown, TypeOK, jobVars, canVars, watchVars
<1>5. CASE ShutdownReturns
  BY <1>1, <1>5 DEF ShutdownReturns, TypeOK, jobVars, canVars, watchVars
<1> QED BY <1>2, <1>3, <1>4, <1>5 DEF ManagerStep

LEMMA TypeStutter == TypeInv /\ UNCHANGED vars => TypeInv'
BY DEF TypeInv, TypeOK, WatchersHold, vars, jobVars, regVars, canVars, watchVars

LEMMA TypeStep == TypeInv /\ [Next]_vars => TypeInv'
BY TypeJobStep, TypeCancelStep, TypeWatchStep, TypeManagerStep, TypeStutter DEF Next

LEMMA TypeInvariant == Spec => []TypeInv
BY TypeInit, TypeStep, PTL DEF Spec

\* Every variable keeps its type, whatever the jobs and callers.
THEOREM TypeCorrect == Spec => []TypeOK
BY TypeInvariant, PTL DEF TypeInv

-------------------------------------------------------------------------------
(* 2. The inductive invariant.  One conjunct speaks of the goroutine of a     *)
(* job, one of the Cancels that won a race, one of the reaper, one of the     *)
(* callers of Status and Wait.                                                *)

\* The outcome of j is stored, or there will never be one.
Stored(j)  == pc[j] \in {"announce", "closing", "exited"}
Settled(j) == isTerminal(state[j]) /\ (state[j] = "cancelled" \/ Stored(j))

\* What the goroutine has done so far, told from where it is.
GoroutineOK(j) ==
  /\ ~Registered(j) => state[j] = "running"
  /\ state[j] \in {"succeeded", "failed"} =>
       pc[j] \in {"record", "announce", "closing", "exited"}
  /\ pc[j] \in {"returned", "record", "announce", "closing", "exited"} =>
       returned[j] \in Results
  /\ pc[j] \in {"record", "announce"} =>
       state[j] = WinState(returned[j]) /\ notes[j] = <<>>
  /\ pc[j] \in {"closing", "exited"} => isTerminal(state[j])
  /\ outcome[j] = IF Stored(j) THEN FinalOutcome(j) ELSE ZeroOutcome

GoroutineInv == \A j \in Jobs : GoroutineOK(j)

\* c has won the race for node[c] and has not told its notifier yet.
Killing(c) == cpc[c] \in {"stamp", "abort", "notify"}

\* Its job is cancelled and untold; CancelInv adds that it is nobody else's.
HoldsOne(c) ==
  Killing(c) => node[c] \in Jobs /\ state[node[c]] = "cancelled" /\ notes[node[c]] = <<>>

\* Work that a Cancel may keep on its stack: it only kills what was started.
SafeWork == {x \in WorkItem : x.op = "kill" => Registered(x.job)}

CancelInv ==
  /\ \A c \in Cancellers : todo[c] \in Seq(SafeWork)
  /\ \A c \in Cancellers : HoldsOne(c)
  /\ \A c, d \in Cancellers :
       Killing(c) /\ Killing(d) /\ c # d => node[c] # node[d]

RegistryOK(j) ==
  /\ j \in known => Registered(j)
  /\ Registered(j) /\ j \notin known => Settled(j)
  /\ finishedAt[j] # 0 => Settled(j)

RegistryInv == \A j \in Jobs : RegistryOK(j)

\* What a caller was told is still so, and what it is about to be told fits.
WatcherOK(w) ==
  LET r == reply[w] IN
    /\ isTerminal(r.status) => r.job \in Jobs /\ r.status = state[r.job]
    /\ r.status = "notfound" =>
         r.job \in Jobs /\ Registered(r.job) /\ r.job \notin known
    /\ wpc[w] # "idle" => wjob[w] \in Jobs
    /\ wpc[w] # "idle" /\ r.job = wjob[w] => r.status # "notfound"
    /\ wpc[w] = "fields" /\ isTerminal(wseen[w]) => wseen[w] = state[wjob[w]]
    /\ wpc[w] = "fields" /\ r.job = wjob[w] /\ isTerminal(r.status) =>
         wseen[w] = r.status
    /\ wpc[w] = "select" /\ r.job = wjob[w] => ~isTerminal(r.status)

WatcherInv == \A w \in Watchers : WatcherOK(w)

JobInv ==
  /\ TypeOK
  /\ GoroutineInv
  /\ CancelInv
  /\ NotifiedOnce
  /\ RegistryInv
  /\ WatcherInv
  /\ WaitNeverTorn

-------------------------------------------------------------------------------
(* What each kind of step leaves alone *)

LEMMA JobFrame ==
  ASSUME NEW j \in Jobs, JobStep(j)
  PROVE  UNCHANGED <<canVars, watchVars, clock, phase>>
BY DEF JobStep, Request, Register, Launch, OutputReady, RunReturns, Finish, Record,
       Announce, Exit, canVars, watchVars, regVars

LEMMA CancelFrame ==
  ASSUME NEW c \in Cancellers, CancelStep(c)
  PROVE  UNCHANGED <<regVars, watchVars, pc, parent, returned, outcome>>
BY DEF CancelStep, CancelCall, Enter, Kill, Stamp, Abort, NotifyCancelled, CancelReturn,
       regVars, watchVars, jobVars

LEMMA WatchFrame ==
  ASSUME NEW w \in Watchers, WatchStep(w)
  PROVE  UNCHANGED <<jobVars, regVars, canVars>>
BY DEF WatchStep, Lookup, StatusLoad, StatusReply, WaitCheck, WaitDone, WaitTimeout,
       WaitAbandoned, Respond, jobVars, regVars, canVars

LEMMA ManagerFrame ==
  ASSUME ManagerStep PROVE UNCHANGED <<jobVars, canVars, watchVars>>
BY DEF ManagerStep, Tick, Reap, Shutdown, ShutdownReturns, jobVars, canVars, watchVars

\* The step of one job leaves the others alone.
LEMMA OtherJobs ==
  ASSUME TypeOK, NEW j \in Jobs, JobStep(j), NEW k \in Jobs, k # j
  PROVE  /\ pc'[k] = pc[k] /\ state'[k] = state[k] /\ returned'[k] = returned[k]
         /\ outcome'[k] = outcome[k] /\ notes'[k] = notes[k]
         /\ finishedAt'[k] = finishedAt[k] /\ (k \in known' <=> k \in known)
<1> USE DEF TypeOK
<1>1. ASSUME NEW p \in Jobs \cup {NoJob}, Request(j, p)
      PROVE  /\ pc'[k] = pc[k] /\ state'[k] = state[k] /\ returned'[k] = returned[k]
             /\ outcome'[k] = outcome[k] /\ notes'[k] = notes[k]
             /\ finishedAt'[k] = finishedAt[k] /\ (k \in known' <=> k \in known)
  BY <1>1 DEF Request, regVars
<1>2. CASE Register(j)
  BY <1>2 DEF Register
<1>3. CASE Launch(j) \/ OutputReady(j) \/ Exit(j)
  BY <1>3 DEF Launch, OutputReady, Exit, regVars
<1>4. CASE RunReturns(j)
  BY <1>4 DEF RunReturns, regVars
<1>5. CASE Finish(j)
  BY <1>5 DEF Finish, regVars
<1>6. CASE Record(j)
  BY <1>6 DEF Record, regVars
<1>7. CASE Announce(j)
  BY <1>7 DEF Announce, regVars
<1> QED BY <1>1, <1>2, <1>3, <1>4, <1>5, <1>6, <1>7 DEF JobStep

-------------------------------------------------------------------------------
(* The goroutines *)

\* Only a run that returns without an error leaves an outcome behind.
LEMMA ResultCases ==
  ASSUME NEW r \in Results
  PROVE  \/ r.how = "ok" /\ WinState(r) = "succeeded"
         \/ r.how # "ok" /\ WinState(r) = "failed" /\ r.out = ZeroOutcome
BY DEF Results, WinState

LEMMA GoroutineJobStep ==
  ASSUME JobInv, NEW j \in Jobs, JobStep(j) PROVE GoroutineInv'
<1> USE DEF JobInv
<1>1. ASSUME NEW k \in Jobs, k # j PROVE GoroutineOK(k)'
  BY <1>1, OtherJobs DEF GoroutineInv, GoroutineOK, Registered, Stored, FinalOutcome
<1> SUFFICES GoroutineOK(j)'
  BY <1>1 DEF GoroutineInv
<1> USE DEF GoroutineInv, GoroutineOK, Registered, Stored, FinalOutcome, isTerminal
<1>2. ASSUME NEW p \in Jobs \cup {NoJob}, Request(j, p) PROVE GoroutineOK(j)'
  BY <1>2 DEF Request, TypeOK
<1>3. CASE Register(j)
  BY <1>3 DEF Register, TypeOK
<1>4. CASE Launch(j)
  BY <1>4 DEF Launch, TypeOK
<1>5. CASE OutputReady(j)
  BY <1>5 DEF OutputReady, TypeOK
<1>6. CASE RunReturns(j)
  BY <1>6 DEF RunReturns, TypeOK
<1>7. CASE Finish(j)
  <2>1. WinState(returned[j]) \in {"succeeded", "failed"}
    BY WinStateType
  <2>2. pc[j] = "returned" /\ outcome' = outcome /\ notes' = notes /\ returned' = returned
    BY <1>7 DEF Finish
  <2>3. notes[j] = <<>> \/ isTerminal(state[j])
    BY DEF NotifiedOnce
  <2>4. CASE state[j] = "running"
    <3>1. state'[j] = WinState(returned[j]) /\ pc'[j] = "record"
      BY <1>7, <2>4 DEF Finish, TypeOK
    <3> QED BY <2>1, <2>2, <2>3, <2>4, <3>1 DEF TypeOK
  <2>5. CASE state[j] # "running"
    <3>1. state'[j] = state[j] /\ pc'[j] = "closing"
      BY <1>7, <2>5 DEF Finish, TypeOK
    <3> QED BY <2>2, <2>5, <3>1 DEF TypeOK, Statuses
  <2> QED BY <2>4, <2>5
<1>8. CASE Record(j)
  <2>1. returned[j] \in Results /\ pc[j] = "record"
    BY <1>8 DEF Record
  <2>2. outcome'[j] = IF returned[j].how = "panic" THEN outcome[j] ELSE returned[j].out
    BY <1>8 DEF Record, TypeOK
  <2>3. outcome'[j] = IF state[j] = "succeeded" THEN returned[j].out ELSE ZeroOutcome
    BY <2>1, <2>2, ResultCases
  <2> QED BY <1>8, <2>1, <2>3 DEF Record, TypeOK
<1>9. CASE Announce(j)
  BY <1>9, WinStateType DEF Announce, TypeOK
<1>10. CASE Exit(j)
  BY <1>10 DEF Exit, TypeOK
<1> QED BY <1>2, <1>3, <1>4, <1>5, <1>6, <1>7, <1>8, <1>9, <1>10 DEF JobStep

\* A Cancel that wins a race wins it for a job that was started.
LEMMA KillCases ==
  ASSUME JobInv, NEW c \in Cancellers, Kill(c)
  PROVE  \/ UNCHANGED <<state, node, cpc>>
         \/ \E j \in Jobs :
              /\ Registered(j) /\ state[j] = "running"
              /\ state' = [state EXCEPT ![j] = "cancelled"]
              /\ node'  = [node EXCEPT ![c] = j]
              /\ cpc'   = [cpc EXCEPT ![c] = "stamp"]
<1>1. todo[c] \in Seq(SafeWork) /\ todo[c] # <<>> /\ Head(todo[c]).op = "kill"
  BY DEF JobInv, CancelInv, Kill
<1>2. Head(todo[c]) \in SafeWork
  BY <1>1
<1>3. Head(todo[c]).job \in Jobs /\ Registered(Head(todo[c]).job)
  BY <1>1, <1>2 DEF SafeWork, WorkItem
<1> QED BY <1>3 DEF Kill

LEMMA GoroutineCancelStep ==
  ASSUME JobInv, NEW c \in Cancellers, CancelStep(c) PROVE GoroutineInv'
<1> USE DEF JobInv, GoroutineInv, GoroutineOK, Registered, Stored, FinalOutcome, isTerminal
<1> SUFFICES ASSUME NEW k \in Jobs PROVE GoroutineOK(k)'
  OBVIOUS
<1>1. UNCHANGED <<pc, returned, outcome>>
  BY CancelFrame
<1>2. CASE Kill(c)
  <2>1. notes' = notes
    BY <1>2 DEF Kill
  <2>2. CASE UNCHANGED state
    BY <1>1, <2>1, <2>2
  <2>3. ASSUME NEW j \in Jobs, Registered(j), state[j] = "running",
               state' = [state EXCEPT ![j] = "cancelled"]
        PROVE  GoroutineOK(k)'
    <3>1. CASE k = j
      <4>1. pc[k] \notin {"record", "announce", "closing", "exited"}
        BY <2>3, <3>1, WinStateType
      <4>2. state'[k] = "cancelled"
        BY <2>3, <3>1 DEF TypeOK
      <4> QED BY <1>1, <2>3, <3>1, <4>1, <4>2
    <3>2. CASE k # j
      BY <1>1, <2>1, <2>3, <3>2 DEF TypeOK
    <3> QED BY <3>1, <3>2
  <2> QED BY <1>2, <2>2, <2>3, KillCases
<1>3. CASE NotifyCancelled(c)
  <2>1. state' = state
    BY <1>3 DEF NotifyCancelled
  <2>2. state[node[c]] = "cancelled" /\ node[c] \in Jobs
    BY <1>3 DEF NotifyCancelled, CancelInv, HoldsOne, Killing
  <2>3. CASE k = node[c]
    <3>1. pc[k] \notin {"record", "announce"}
      BY <2>2, <2>3, WinStateType
    <3> QED BY <1>1, <2>1, <3>1
  <2>4. CASE k # node[c]
    <3>1. notes'[k] = notes[k]
      BY <1>3, <2>4 DEF NotifyCancelled, TypeOK
    <3> QED BY <1>1, <2>1, <3>1
  <2> QED BY <2>3, <2>4
<1>4. CASE UNCHANGED <<state, notes>>
  BY <1>1, <1>4
<1> QED BY <1>2, <1>3, <1>4
        DEF CancelStep, CancelCall, Enter, Stamp, Abort, CancelReturn, jobVars

LEMMA GoroutineStep == JobInv /\ [Next]_vars => GoroutineInv'
<1>1. ASSUME JobInv, UNCHANGED jobVars PROVE GoroutineInv'
  BY <1>1 DEF JobInv, GoroutineInv, GoroutineOK, Registered, Stored, FinalOutcome, jobVars
<1> QED BY <1>1, GoroutineJobStep, GoroutineCancelStep, WatchFrame, ManagerFrame
        DEF Next, vars

-------------------------------------------------------------------------------
(* The notifications *)

LEMMA NotesStep == JobInv /\ [Next]_vars => NotifiedOnce'
<1> SUFFICES ASSUME JobInv, [Next]_vars, NEW k \in Jobs
             PROVE  notes'[k] = <<>>
                      \/ (isTerminal(state'[k]) /\ notes'[k] = <<state'[k]>>)
  BY DEF NotifiedOnce, isTerminal
<1> DEFINE Told == notes[k] = <<>> \/ (isTerminal(state[k]) /\ notes[k] = <<state[k]>>)
<1>1. Told
  BY DEF JobInv, NotifiedOnce
<1>2. CASE state'[k] = state[k] /\ notes'[k] = notes[k]
  BY <1>1, <1>2 DEF isTerminal
<1>3. CASE notes'[k] = notes[k] /\ state[k] = "running"
  BY <1>1, <1>3 DEF isTerminal
<1>4. CASE Announce(k)
  <2>1. notes'[k] = Append(notes[k], WinState(returned[k])) /\ state'[k] = state[k]
    BY <1>4 DEF Announce, JobInv, TypeOK
  <2>2. notes[k] = <<>> /\ state[k] = WinState(returned[k])
    BY <1>4 DEF Announce, JobInv, GoroutineInv, GoroutineOK
  <2>3. notes'[k] = <<state[k]>>
    BY <2>1, <2>2
  <2> QED BY <2>1, <2>2, <2>3, WinStateType DEF isTerminal
<1>5. ASSUME NEW c \in Cancellers, NotifyCancelled(c), node[c] = k
      PROVE  isTerminal(state'[k]) /\ notes'[k] = <<state'[k]>>
  <2>1. notes'[k] = Append(notes[k], "cancelled") /\ state'[k] = state[k]
    BY <1>5 DEF NotifyCancelled, JobInv, TypeOK
  <2>2. notes[k] = <<>> /\ state[k] = "cancelled"
    BY <1>5 DEF NotifyCancelled, JobInv, CancelInv, HoldsOne, Killing
  <2>3. notes'[k] = <<"cancelled">>
    BY <2>1, <2>2
  <2> QED BY <2>1, <2>2, <2>3 DEF isTerminal
<1>6. ASSUME NEW j \in Jobs, JobStep(j) 
      PROVE  \/ state'[k] = state[k] /\ notes'[k] = notes[k]
             \/ notes'[k] = notes[k] /\ state[k] = "running"
             \/ Announce(k)
  <2>1. CASE k # j
    BY <1>6, <2>1, OtherJobs DEF JobInv
  <2>2. CASE Finish(j)
    BY <2>2 DEF Finish, JobInv, TypeOK
  <2>3. CASE k = j /\ ~Finish(j) /\ ~Announce(j)
    BY <1>6, <2>3
       DEF JobStep, Request, Register, Launch, OutputReady, RunReturns, Record, Exit
  <2> QED BY <2>1, <2>2, <2>3
<1>7. ASSUME NEW c \in Cancellers, CancelStep(c)
      PROVE  \/ state'[k] = state[k] /\ notes'[k] = notes[k]
             \/ notes'[k] = notes[k] /\ state[k] = "running"
             \/ NotifyCancelled(c) /\ node[c] = k
  <2>1. CASE Kill(c)
    <3>1. notes' = notes
      BY <2>1 DEF Kill
    <3> QED BY <2>1, <3>1, KillCases DEF JobInv, TypeOK
  <2>2. CASE NotifyCancelled(c)
    BY <2>2 DEF NotifyCancelled, JobInv, TypeOK
  <2>3. CASE ~Kill(c) /\ ~NotifyCancelled(c)
    BY <1>7, <2>3 DEF CancelStep, CancelCall, Enter, Stamp, Abort, CancelReturn, jobVars
  <2> QED BY <2>1, <2>2, <2>3
<1>8. ASSUME UNCHANGED jobVars PROVE state'[k] = state[k] /\ notes'[k] = notes[k]
  BY <1>8 DEF jobVars
<1> QED BY <1>2, <1>3, <1>4, <1>5, <1>6, <1>7, <1>8, WatchFrame, ManagerFrame
        DEF Next, vars

-------------------------------------------------------------------------------
(* The Cancels *)

LEMMA SeqMonotone ==
  ASSUME NEW S, NEW T, S \subseteq T, NEW s \in Seq(S) PROVE s \in Seq(T)
OBVIOUS

\* Once started, a job stays started.
LEMMA StaysRegistered ==
  ASSUME TypeOK, [Next]_vars, NEW k \in Jobs, Registered(k) PROVE Registered(k)'
<1>1. ASSUME NEW j \in Jobs, JobStep(j) PROVE Registered(k)'
  <2>1. CASE k # j
    BY <1>1, <2>1, OtherJobs DEF Registered
  <2>2. CASE k = j
    BY <1>1, <2>2 DEF JobStep, Request, Register, Launch, OutputReady, RunReturns,
                      Finish, Record, Announce, Exit, Registered, TypeOK
  <2> QED BY <2>1, <2>2
<1>2. ASSUME UNCHANGED pc PROVE Registered(k)'
  BY <1>2 DEF Registered
<1> QED BY <1>1, <1>2, CancelFrame, WatchFrame, ManagerFrame DEF Next, vars, jobVars

LEMMA SafeWorkGrows ==
  ASSUME TypeOK, [Next]_vars PROVE SafeWork \subseteq SafeWork'
BY StaysRegistered DEF SafeWork, WorkItem

\* What a visit pushes is safe.
LEMMA VisitSafe ==
  ASSUME TypeOK, RegistryInv, NEW j \in Jobs PROVE Visit(j) \in Seq(SafeWork)
<1>1. children[j] \in Seq(Jobs)
  BY DEF TypeOK
<1>2. Calls(j) \in Seq(SafeWork)
  <2>1. Len(children[j]) \in Nat
    BY <1>1
  <2>2. \A i \in 1..Len(children[j]) :
          [op |-> "enter", job |-> children[j][i]] \in SafeWork
    BY <1>1 DEF SafeWork, WorkItem
  <2> QED BY <2>1, <2>2 DEF Calls
<1>3. CASE j \in known
  <2>1. Registered(j)
    BY <1>3 DEF RegistryInv, RegistryOK
  <2>2. <<[op |-> "kill", job |-> j]>> \in Seq(SafeWork)
    BY <2>1 DEF SafeWork, WorkItem
  <2> QED BY <1>2, <2>2 DEF Visit
<1>4. CASE j \notin known
  BY <1>4 DEF Visit
<1> QED BY <1>3, <1>4

LEMMA StackStep ==
  ASSUME JobInv, [Next]_vars, NEW d \in Cancellers PROVE todo'[d] \in Seq(SafeWork')
<1> USE DEF JobInv
<1>1. todo[d] \in Seq(SafeWork)
  BY DEF CancelInv
<1>2. ASSUME todo'[d] \in Seq(SafeWork) PROVE todo'[d] \in Seq(SafeWork')
  BY <1>2, SafeWorkGrows, SeqMonotone
<1>3. ASSUME UNCHANGED todo PROVE todo'[d] \in Seq(SafeWork)
  BY <1>1, <1>3
<1>4. ASSUME NEW c \in Cancellers, CancelStep(c) PROVE todo'[d] \in Seq(SafeWork)
  <2>1. CASE c # d
    <3>1. todo'[d] = todo[d]
      BY <1>4, <2>1 DEF CancelStep, CancelCall, Enter, Kill, Stamp, Abort,
                        NotifyCancelled, CancelReturn, TypeOK
    <3> QED BY <1>1, <3>1
  <2>2. CASE c = d
    <3>1. ASSUME NEW j \in Jobs, CancelCall(d, j) PROVE todo'[d] \in Seq(SafeWork)
      <4>1. <<[op |-> "enter", job |-> j]>> \in Seq(SafeWork)
        BY DEF SafeWork, WorkItem
      <4> QED BY <3>1, <4>1 DEF CancelCall, TypeOK
    <3>2. CASE Enter(d)
      <4>1. Head(todo[d]) \in SafeWork /\ Tail(todo[d]) \in Seq(SafeWork)
        BY <1>1, <3>2 DEF Enter
      <4>2. Visit(Head(todo[d]).job) \in Seq(SafeWork)
        BY <4>1, VisitSafe DEF SafeWork, WorkItem
      <4>3. todo'[d] = Visit(Head(todo[d]).job) \o Tail(todo[d])
        BY <3>2 DEF Enter, TypeOK
      <4> QED BY <4>1, <4>2, <4>3
    <3>3. CASE Kill(d)
      <4>1. todo[d] # <<>> /\ todo'[d] = Tail(todo[d])
        BY <3>3 DEF Kill, TypeOK
      <4> QED BY <1>1, <4>1
    <3>4. CASE Stamp(d) \/ Abort(d) \/ NotifyCancelled(d) \/ CancelReturn(d)
      BY <1>3, <3>4 DEF Stamp, Abort, NotifyCancelled, CancelReturn
    <3> QED BY <1>4, <2>2, <3>1, <3>2, <3>3, <3>4 DEF CancelStep
  <2> QED BY <2>1, <2>2
<1> QED BY <1>2, <1>3, <1>4, JobFrame, WatchFrame, ManagerFrame DEF Next, vars, canVars

\* Two Cancels never hold the same job, and the job they hold is still untold.
LEMMA HoldStep ==
  ASSUME JobInv, [Next]_vars
  PROVE  /\ \A c \in Cancellers : HoldsOne(c)'
         /\ \A c, d \in Cancellers :
              Killing(c)' /\ Killing(d)' /\ c # d => node'[c] # node'[d]
<1> DEFINE Alone == \A c, d \in Cancellers :
                      Killing(c)' /\ Killing(d)' /\ c # d => node'[c] # node'[d]
<1> DEFINE Goal == (\A c \in Cancellers : HoldsOne(c)') /\ Alone
<1>1. \A c \in Cancellers : HoldsOne(c)
  BY DEF JobInv, CancelInv
<1>2. \A c, d \in Cancellers : Killing(c) /\ Killing(d) /\ c # d => node[c] # node[d]
  BY DEF JobInv, CancelInv
<1>3. ASSUME UNCHANGED <<cpc, node, state, notes>> PROVE Goal
  BY <1>1, <1>2, <1>3 DEF HoldsOne, Killing
<1>4. ASSUME NEW j \in Jobs, JobStep(j) PROVE Goal
  <2>1. UNCHANGED <<cpc, node>>
    BY <1>4, JobFrame DEF canVars
  <2>2. ASSUME NEW c \in Cancellers, Killing(c)
        PROVE  state'[node[c]] = "cancelled" /\ notes'[node[c]] = <<>>
    <3>1. node[c] \in Jobs /\ state[node[c]] = "cancelled" /\ notes[node[c]] = <<>>
      BY <1>1, <2>2 DEF HoldsOne
    <3>2. CASE node[c] # j
      BY <1>4, <3>1, <3>2, OtherJobs DEF JobInv
    <3>3. CASE node[c] = j
      <4>1. ~Announce(j) /\ (Finish(j) => UNCHANGED state)
        BY <3>1, <3>3, WinStateType
           DEF Announce, Finish, JobInv, GoroutineInv, GoroutineOK
      <4>2. UNCHANGED <<state, notes>>
        BY <1>4, <4>1 DEF JobStep, Request, Register, Launch, OutputReady, RunReturns,
                          Finish, Record, Exit
      <4> QED BY <3>1, <4>2
    <3> QED BY <3>2, <3>3
  <2> QED BY <1>1, <1>2, <2>1, <2>2 DEF HoldsOne, Killing
<1>5. ASSUME NEW c \in Cancellers, Kill(c) PROVE Goal
  <2>1. cpc[c] = "walk" /\ notes' = notes
    BY <1>5 DEF Kill
  <2>2. ASSUME NEW j \in Jobs, state[j] = "running",
               state' = [state EXCEPT ![j] = "cancelled"],
               node' = [node EXCEPT ![c] = j], cpc' = [cpc EXCEPT ![c] = "stamp"]
        PROVE  Goal
    <3>1. notes[j] = <<>>
      BY <2>2 DEF JobInv, NotifiedOnce, isTerminal
    <3>2. node'[c] = j /\ state'[j] = "cancelled"
      BY <2>2 DEF JobInv, TypeOK
    <3>3. ASSUME NEW d \in Cancellers, d # c, Killing(d)'
          PROVE  /\ Killing(d) /\ node'[d] = node[d] /\ node[d] # j
                 /\ node[d] \in Jobs /\ notes[node[d]] = <<>>
                 /\ state'[node[d]] = "cancelled"
      BY <1>1, <2>2, <3>3 DEF Killing, HoldsOne, JobInv, TypeOK
    <3>4. \A d \in Cancellers : HoldsOne(d)'
      BY <2>1, <3>1, <3>2, <3>3 DEF HoldsOne
    <3>5. Alone
      BY <1>2, <3>2, <3>3
    <3> QED BY <3>4, <3>5
  <2> QED BY <1>3, <1>5, <2>1, <2>2, KillCases
<1>6. ASSUME NEW c \in Cancellers, NotifyCancelled(c) PROVE Goal
  <2>1. Killing(c) /\ ~Killing(c)'
    BY <1>6 DEF NotifyCancelled, Killing, JobInv, TypeOK
  <2>2. ASSUME NEW d \in Cancellers, Killing(d)'
        PROVE  d # c /\ Killing(d) /\ node'[d] = node[d] /\ notes'[node[d]] = <<>>
    <3>1. d # c
      BY <2>1, <2>2
    <3>2. Killing(d) /\ node'[d] = node[d]
      BY <1>6, <2>2, <3>1 DEF NotifyCancelled, Killing, JobInv, TypeOK
    <3>3. node[d] # node[c] /\ node[d] \in Jobs /\ notes[node[d]] = <<>>
      BY <1>1, <1>2, <2>1, <3>1, <3>2 DEF HoldsOne
    <3> QED BY <1>6, <3>1, <3>2, <3>3 DEF NotifyCancelled, JobInv, TypeOK
  <2>3. state' = state
    BY <1>6 DEF NotifyCancelled
  <2> QED BY <1>1, <1>2, <2>2, <2>3 DEF HoldsOne
<1>7. ASSUME NEW c \in Cancellers, Stamp(c) \/ Abort(c) PROVE Goal
  <2>1. \A d \in Cancellers : Killing(d)' => Killing(d)
    BY <1>7 DEF Stamp, Abort, Killing, JobInv, TypeOK
  <2>2. UNCHANGED <<node, state, notes>>
    BY <1>7 DEF Stamp, Abort
  <2> QED BY <1>1, <1>2, <2>1, <2>2 DEF HoldsOne
<1>8. ASSUME NEW c \in Cancellers, NEW j \in Jobs, CancelCall(c, j) PROVE Goal
  <2>1. \A d \in Cancellers : Killing(d)' => Killing(d)
    BY <1>8 DEF CancelCall, Killing, JobInv, TypeOK
  <2>2. UNCHANGED <<node, state, notes>>
    BY <1>8 DEF CancelCall, jobVars
  <2> QED BY <1>1, <1>2, <2>1, <2>2 DEF HoldsOne
<1>9. ASSUME NEW c \in Cancellers, Enter(c) \/ CancelReturn(c) PROVE Goal
  <2>1. \A d \in Cancellers : Killing(d)' => Killing(d)
    BY <1>9 DEF Enter, CancelReturn, Killing, JobInv, TypeOK
  <2>2. UNCHANGED <<node, state, notes>>
    BY <1>9 DEF Enter, CancelReturn, jobVars
  <2> QED BY <1>1, <1>2, <2>1, <2>2 DEF HoldsOne
<1>10. ASSUME NEW c \in Cancellers, CancelStep(c) PROVE Goal
  BY <1>5, <1>6, <1>7, <1>8, <1>9, <1>10 DEF CancelStep
<1> QED BY <1>3, <1>4, <1>10, WatchFrame, ManagerFrame DEF Next, vars, jobVars, canVars

LEMMA CancelInvStep == JobInv /\ [Next]_vars => CancelInv'
BY StackStep, HoldStep DEF CancelInv

-------------------------------------------------------------------------------
(* The registry *)

\* Nothing changes the state a job ended in.
LEMMA StaysTerminal ==
  ASSUME JobInv, [Next]_vars, NEW k \in Jobs, isTerminal(state[k])
  PROVE  state'[k] = state[k]
<1> USE DEF JobInv
<1>1. state[k] # "running"
  BY DEF isTerminal
<1>2. ASSUME NEW j \in Jobs, JobStep(j) PROVE state'[k] = state[k]
  <2>1. CASE k # j
    BY <1>2, <2>1, OtherJobs
  <2>2. CASE k = j
    <3>1. Finish(j) => UNCHANGED state
      BY <1>1, <2>2 DEF Finish
    <3> QED BY <1>2, <3>1 DEF JobStep, Request, Register, Launch, OutputReady, RunReturns,
                              Record, Announce, Exit
  <2> QED BY <2>1, <2>2
<1>3. ASSUME NEW c \in Cancellers, CancelStep(c) PROVE state'[k] = state[k]
  <2>1. CASE Kill(c)
    BY <1>1, <2>1, KillCases DEF TypeOK
  <2>2. CASE ~Kill(c)
    BY <1>3, <2>2 DEF CancelStep, CancelCall, Enter, Stamp, Abort, NotifyCancelled,
                      CancelReturn, jobVars
  <2> QED BY <2>1, <2>2
<1> QED BY <1>2, <1>3, WatchFrame, ManagerFrame DEF Next, vars, jobVars

\* The result of an ended job is final as well: it was there before the end.
LEMMA StaysFinal ==
  ASSUME JobInv, [Next]_vars, NEW k \in Jobs, isTerminal(state[k])
  PROVE  FinalOutcome(k)' = FinalOutcome(k) /\ (Stored(k) => Stored(k)')
<1> USE DEF JobInv
<1>1. state'[k] = state[k]
  BY StaysTerminal
<1>2. ASSUME NEW j \in Jobs, JobStep(j)
      PROVE  FinalOutcome(k)' = FinalOutcome(k) /\ (Stored(k) => Stored(k)')
  <2>1. CASE k # j
    BY <1>1, <1>2, <2>1, OtherJobs DEF FinalOutcome, Stored
  <2>2. CASE k = j
    <3>1. RunReturns(j) => state[k] # "succeeded"
      BY <2>2 DEF RunReturns, GoroutineInv, GoroutineOK
    <3>2. ~RunReturns(j) => UNCHANGED returned
      BY <1>2 DEF JobStep, Request, Register, Launch, OutputReady, Finish, Record,
                  Announce, Exit
    <3>3. Stored(k) => Stored(k)'
      BY <1>2, <2>2 DEF Stored, TypeOK, JobStep, Request, Register, Launch, OutputReady,
                        RunReturns, Finish, Record, Announce, Exit
    <3> QED BY <1>1, <3>1, <3>2, <3>3 DEF FinalOutcome
  <2> QED BY <2>1, <2>2
<1>3. ASSUME UNCHANGED <<pc, returned>>
      PROVE  FinalOutcome(k)' = FinalOutcome(k) /\ (Stored(k) => Stored(k)')
  BY <1>1, <1>3 DEF FinalOutcome, Stored
<1> QED BY <1>2, <1>3, CancelFrame, WatchFrame, ManagerFrame DEF Next, vars, jobVars

\* A settled job stays settled.
LEMMA StaysSettled ==
  ASSUME JobInv, [Next]_vars, NEW k \in Jobs, Settled(k) PROVE Settled(k)'
BY StaysTerminal, StaysFinal DEF Settled, isTerminal

\* Jobs enter the registry when they are registered, and leave it settled.
LEMMA KnownStep ==
  ASSUME JobInv, [Next]_vars, NEW k \in Jobs
  PROVE  /\ k \in known' => Registered(k)'
         /\ Registered(k)' /\ k \notin known' => Settled(k)'
<1> USE DEF JobInv
<1>1. RegistryOK(k)
  BY DEF RegistryInv
<1>2. CASE (Registered(k)' <=> Registered(k)) /\ (k \in known' <=> k \in known)
  BY <1>1, <1>2, StaysSettled DEF RegistryOK
<1>3. CASE Register(k)
  BY <1>3 DEF Register, Registered, TypeOK
<1>4. ASSUME NEW j \in Jobs, JobStep(j), ~Register(k)
      PROVE  (Registered(k)' <=> Registered(k)) /\ (k \in known' <=> k \in known)
  <2>1. CASE k # j
    BY <1>4, <2>1, OtherJobs DEF Registered
  <2>2. CASE k = j
    BY <1>4, <2>2 DEF JobStep, Request, Launch, OutputReady, RunReturns, Finish, Record,
                      Announce, Exit, Registered, TypeOK, regVars
  <2> QED BY <2>1, <2>2
<1>5. CASE Reap
  <2>1. Registered(k)' <=> Registered(k)
    BY <1>5 DEF Reap, Registered, jobVars
  <2>2. k \in known /\ k \notin known' => Expired(k)
    BY <1>5 DEF Reap
  <2>3. Expired(k) => Settled(k)
    BY <1>1 DEF Expired, RegistryOK
  <2>4. k \in known' => k \in known
    BY <1>5 DEF Reap
  <2> QED BY <1>1, <2>1, <2>2, <2>3, <2>4, StaysSettled DEF RegistryOK
<1>6. ASSUME UNCHANGED <<pc, known>>
      PROVE  (Registered(k)' <=> Registered(k)) /\ (k \in known' <=> k \in known)
  BY <1>6 DEF Registered
<1>7. ManagerStep /\ ~Reap => UNCHANGED known
  BY DEF ManagerStep, Tick, Shutdown, ShutdownReturns
<1> QED BY <1>2, <1>3, <1>4, <1>5, <1>6, <1>7, CancelFrame, WatchFrame, ManagerFrame
        DEF Next, vars, jobVars, regVars

\* Only a settled job carries the time of its end.
LEMMA StampStep ==
  ASSUME JobInv, [Next]_vars, NEW k \in Jobs, finishedAt'[k] # 0 PROVE Settled(k)'
<1> USE DEF JobInv
<1>1. CASE finishedAt'[k] = finishedAt[k]
  BY <1>1, StaysSettled DEF RegistryInv, RegistryOK
<1>2. CASE Record(k)
  <2>1. state'[k] \in {"succeeded", "failed"}
    BY <1>2, WinStateType DEF Record, GoroutineInv, GoroutineOK
  <2>2. pc'[k] = "announce"
    BY <1>2 DEF Record, TypeOK
  <2> QED BY <2>1, <2>2 DEF Settled, Stored, isTerminal
<1>3. ASSUME NEW c \in Cancellers, Stamp(c), node[c] = k PROVE Settled(k)'
  <2>1. state'[k] = "cancelled"
    BY <1>3 DEF Stamp, CancelInv, HoldsOne, Killing
  <2> QED BY <2>1 DEF Settled, isTerminal
<1>4. ASSUME NEW j \in Jobs, JobStep(j), ~Record(k) PROVE finishedAt'[k] = finishedAt[k]
  <2>1. CASE k # j
    BY <1>4, <2>1, OtherJobs
  <2>2. CASE k = j
    BY <1>4, <2>2 DEF JobStep, Request, Register, Launch, OutputReady, RunReturns, Finish,
                      Announce, Exit
  <2> QED BY <2>1, <2>2
<1>5. ASSUME NEW c \in Cancellers, CancelStep(c), ~(Stamp(c) /\ node[c] = k)
      PROVE  finishedAt'[k] = finishedAt[k]
  <2>1. CASE Stamp(c)
    BY <1>5, <2>1 DEF Stamp, TypeOK
  <2>2. CASE ~Stamp(c)
    BY <1>5, <2>2 DEF CancelStep, CancelCall, Enter, Kill, Abort, NotifyCancelled,
                      CancelReturn, jobVars
  <2> QED BY <2>1, <2>2
<1> QED BY <1>1, <1>2, <1>3, <1>4, <1>5, WatchFrame, ManagerFrame DEF Next, vars, jobVars

LEMMA RegistryStep == JobInv /\ [Next]_vars => RegistryInv'
BY KnownStep, StampStep DEF RegistryInv, RegistryOK

-------------------------------------------------------------------------------
(* The callers of Status and Wait *)

\* A step of anything else leaves what w knows true.
LEMMA WatcherElsewhere ==
  ASSUME JobInv, [Next]_vars, NEW w \in Watchers,
         reply'[w] = reply[w], wpc'[w] = wpc[w], wjob'[w] = wjob[w], wseen'[w] = wseen[w]
  PROVE  WatcherOK(w)'
<1> USE DEF JobInv
<1>1. WatcherOK(w)
  BY DEF WatcherInv
<1>2. ASSUME NEW k \in Jobs, isTerminal(state[k]) PROVE state'[k] = state[k]
  BY <1>2, StaysTerminal
<1>3. ASSUME NEW k \in Jobs, Registered(k), k \notin known
      PROVE  Registered(k)' /\ k \notin known'
  <2>1. Registered(k)'
    BY <1>3, StaysRegistered
  <2>2. k \notin known'
    <3>1. ASSUME NEW j \in Jobs, JobStep(j) PROVE k \notin known'
      BY <1>3, <3>1, OtherJobs
         DEF JobStep, Request, Register, Launch, OutputReady, RunReturns, Finish, Record,
             Announce, Exit, Registered, regVars
    <3>2. ManagerStep => known' \subseteq known
      BY DEF ManagerStep, Tick, Reap, Shutdown, ShutdownReturns
    <3> QED BY <1>3, <3>1, <3>2, CancelFrame, WatchFrame DEF Next, vars, regVars
  <2> QED BY <2>1, <2>2
<1>4. isTerminal(reply[w].status)
        => reply[w].job \in Jobs /\ reply[w].status = state'[reply[w].job]
  BY <1>1, <1>2 DEF WatcherOK
<1>5. wpc[w] = "fields" /\ isTerminal(wseen[w]) => wseen[w] = state'[wjob[w]]
  BY <1>1, <1>2 DEF WatcherOK
<1>6. reply[w].status = "notfound" =>
        reply[w].job \in Jobs /\ Registered(reply[w].job)' /\ reply[w].job \notin known'
  BY <1>1, <1>3 DEF WatcherOK
<1> QED BY <1>1, <1>4, <1>5, <1>6 DEF WatcherOK, isTerminal

\* A reply to w keeps what w knows true if its status is so.
LEMMA RespondStep ==
  ASSUME JobInv, NEW w \in Watchers, NEW op, NEW s \in Statuses, NEW o,
         wpc[w] # "idle", Respond(w, op, s, o),
         isTerminal(s) => s = state[wjob[w]]
  PROVE  WatcherOK(w)'
<1>1. wjob[w] \in Jobs
  BY DEF JobInv, WatcherInv, WatcherOK
<1>2. /\ reply'[w] = [op |-> op, job |-> wjob[w], status |-> s, out |-> o]
      /\ wpc'[w] = "idle" /\ UNCHANGED state
  BY DEF Respond, JobInv, TypeOK, jobVars
<1>3. s # "notfound"
  BY DEF Statuses
<1> QED BY <1>1, <1>2, <1>3 DEF WatcherOK, isTerminal

LEMMA WatcherOwnStep ==
  ASSUME JobInv, NEW w \in Watchers, WatchStep(w) PROVE WatcherOK(w)'
<1> USE DEF JobInv
<1>1. UNCHANGED <<state, pc, known>>
  BY WatchFrame DEF jobVars, regVars
<1>2. WatcherOK(w)
  BY DEF WatcherInv
<1>3. ASSUME NEW op \in {"status", "wait"}, NEW j \in Jobs, Lookup(w, op, j)
      PROVE  WatcherOK(w)'
  <2>1. CASE j \in known
    <3>1. wpc'[w] = op /\ wjob'[w] = j /\ UNCHANGED reply
      BY <1>3, <2>1 DEF Lookup, TypeOK
    <3> QED BY <1>1, <1>2, <2>1, <3>1 DEF WatcherOK, Registered, isTerminal
  <2>2. CASE j \notin known
    <3>1. /\ reply'[w].job = j /\ reply'[w].status = "notfound"
          /\ wpc'[w] = "idle" /\ Registered(j)
      BY <1>3, <2>2 DEF Lookup, TypeOK
    <3> QED BY <1>1, <1>2, <2>2, <3>1 DEF WatcherOK, Registered, isTerminal
  <2> QED BY <2>1, <2>2
<1>4. CASE StatusLoad(w)
  <2>1. /\ wpc[w] = "status" /\ wpc'[w] = "fields" /\ wseen'[w] = state[wjob[w]]
        /\ UNCHANGED <<wjob, reply>>
    BY <1>4 DEF StatusLoad, TypeOK
  <2> QED BY <1>1, <1>2, <2>1 DEF WatcherOK, Registered, isTerminal
<1>5. CASE StatusReply(w)
  <2>1. wpc[w] = "fields" /\ wseen[w] \in Statuses
    BY <1>5 DEF StatusReply, TypeOK
  <2>2. isTerminal(wseen[w]) => wseen[w] = state[wjob[w]]
    BY <1>2, <2>1 DEF WatcherOK
  <2> QED BY <1>5, <2>1, <2>2, RespondStep DEF StatusReply
<1>6. CASE WaitCheck(w)
  <2>1. /\ wpc[w] = "wait"
        /\ wpc'[w] = IF isTerminal(state[wjob[w]]) THEN "settling" ELSE "select"
        /\ UNCHANGED <<wjob, reply>>
    BY <1>6 DEF WaitCheck, TypeOK
  <2> QED BY <1>1, <1>2, <2>1 DEF WatcherOK, Registered, isTerminal
<1>7. CASE WaitDone(w)
  <2>1. wpc[w] # "idle" /\ state[wjob[w]] \in Statuses
    BY <1>2, <1>7 DEF WaitDone, WatcherOK, TypeOK
  <2> QED BY <1>7, <2>1, RespondStep DEF WaitDone
<1>8. CASE WaitTimeout(w)
  <2>1. wpc[w] # "idle" /\ "running" \in Statuses /\ ~isTerminal("running")
    BY <1>8 DEF WaitTimeout, Statuses, isTerminal
  <2> QED BY <1>8, <2>1, RespondStep DEF WaitTimeout
<1>9. CASE WaitAbandoned(w)
  <2>1. wpc'[w] = "idle" /\ UNCHANGED reply
    BY <1>9 DEF WaitAbandoned, TypeOK
  <2> QED BY <1>1, <1>2, <2>1 DEF WatcherOK, Registered, isTerminal
<1> QED BY <1>3, <1>4, <1>5, <1>6, <1>7, <1>8, <1>9 DEF WatchStep

\* A step of one caller leaves the others alone.
LEMMA OtherWatchers ==
  ASSUME TypeOK, NEW v \in Watchers, WatchStep(v), NEW w \in Watchers, w # v
  PROVE  /\ reply'[w] = reply[w] /\ wpc'[w] = wpc[w]
         /\ wjob'[w] = wjob[w] /\ wseen'[w] = wseen[w]
BY DEF WatchStep, Lookup, StatusLoad, StatusReply, WaitCheck, WaitDone, WaitTimeout,
       WaitAbandoned, Respond, TypeOK

\* The steps of w itself and those of everything else.
LEMMA WatcherCases ==
  ASSUME TypeOK, [Next]_vars, NEW w \in Watchers
  PROVE  \/ WatchStep(w)
         \/ /\ reply'[w] = reply[w] /\ wpc'[w] = wpc[w]
            /\ wjob'[w] = wjob[w] /\ wseen'[w] = wseen[w]
<1>1. UNCHANGED watchVars \/ \E v \in Watchers : WatchStep(v)
  BY JobFrame, CancelFrame, ManagerFrame DEF Next, vars
<1> QED BY <1>1, OtherWatchers DEF watchVars

LEMMA WatcherStep == JobInv /\ [Next]_vars => WatcherInv'
<1> SUFFICES ASSUME JobInv, [Next]_vars, NEW w \in Watchers PROVE WatcherOK(w)'
  BY DEF WatcherInv
<1> QED BY WatcherCases, WatcherOwnStep, WatcherElsewhere DEF JobInv

LEMMA TornStep == JobInv /\ [Next]_vars => WaitNeverTorn'
<1> SUFFICES ASSUME JobInv, [Next]_vars, NEW w \in Watchers,
                    reply'[w].op = "wait", isTerminal(reply'[w].status),
                    NEW k, k = reply'[w].job
             PROVE  /\ reply'[w].status = state'[k]
                    /\ reply'[w].out = FinalOutcome(k)'
  BY DEF WaitNeverTorn, isTerminal, FinalOutcome
<1> USE DEF JobInv
<1>1. CASE reply'[w] = reply[w]
  <2>1. /\ k \in Jobs /\ isTerminal(state[k])
        /\ reply[w].status = state[k] /\ reply[w].out = FinalOutcome(k)
    BY <1>1 DEF WaitNeverTorn, WatcherInv, WatcherOK
  <2>2. state'[k] = state[k] /\ FinalOutcome(k)' = FinalOutcome(k)
    BY <2>1, StaysTerminal, StaysFinal
  <2> QED BY <1>1, <2>1, <2>2
<1>2. CASE WaitDone(w)
  <2>1. /\ reply'[w] = [op |-> "wait", job |-> wjob[w], status |-> state[wjob[w]],
                        out |-> outcome[wjob[w]]]
        /\ UNCHANGED <<state, returned>>
    BY <1>2 DEF WaitDone, Respond, TypeOK, jobVars
  <2>2. k = wjob[w] /\ k \in Jobs /\ pc[k] = "exited"
    BY <1>2, <2>1 DEF WaitDone, Done, WatcherInv, WatcherOK
  <2>3. outcome[k] = FinalOutcome(k)
    BY <2>2 DEF GoroutineInv, GoroutineOK, Stored
  <2> QED BY <2>1, <2>2, <2>3 DEF FinalOutcome
<1>3. WatchStep(w) /\ ~WaitDone(w) => reply'[w] = reply[w]
  <2>1. ASSUME NEW op \in {"status", "wait"}, NEW j \in Jobs, Lookup(w, op, j)
        PROVE  reply'[w] = reply[w] \/ reply'[w].status = "notfound"
    BY <2>1 DEF Lookup, TypeOK
  <2>2. StatusReply(w) => reply'[w].op = "status"
    BY DEF StatusReply, Respond, TypeOK
  <2>3. WaitTimeout(w) => reply'[w].status = "running"
    BY DEF WaitTimeout, Respond, TypeOK
  <2>4. StatusLoad(w) \/ WaitCheck(w) \/ WaitAbandoned(w) => reply'[w] = reply[w]
    BY DEF StatusLoad, WaitCheck, WaitAbandoned
  <2> QED BY <2>1, <2>2, <2>3, <2>4 DEF WatchStep, isTerminal
<1> QED BY <1>1, <1>2, <1>3, WatcherCases

-------------------------------------------------------------------------------
(* The invariant, and what follows from it *)

LEMMA JobInvInit == Init => JobInv
<1> SUFFICES ASSUME Init PROVE JobInv
  OBVIOUS
<1>1. TypeOK
  BY TypeInit DEF TypeInv
<1>2. GoroutineInv /\ NotifiedOnce /\ RegistryInv
  BY DEF Init, GoroutineInv, GoroutineOK, NotifiedOnce, RegistryInv, RegistryOK,
         Registered, Stored
<1>3. CancelInv
  BY DEF Init, CancelInv, HoldsOne, Killing
<1>4. WatcherInv /\ WaitNeverTorn
  BY DEF Init, WatcherInv, WatcherOK, WaitNeverTorn, NoReply, isTerminal
<1> QED BY <1>1, <1>2, <1>3, <1>4 DEF JobInv

LEMMA JobInvStep == JobInv /\ [Next]_vars => JobInv'
<1> SUFFICES ASSUME JobInv, [Next]_vars PROVE JobInv'
  OBVIOUS
<1>1. TypeOK'
  <2>1. TypeInv
    BY DEF JobInv, TypeInv, WatchersHold, WatcherInv, WatcherOK
  <2> QED BY <2>1, TypeStep DEF TypeInv
<1> QED BY <1>1, GoroutineStep, CancelInvStep, NotesStep, RegistryStep, WatcherStep,
           TornStep DEF JobInv

LEMMA JobInvariant == Spec => []JobInv
BY JobInvInit, JobInvStep, PTL DEF Spec

\* A notifier hears at most one status, the one its job ended in.
THEOREM NotifiedOnceHolds == Spec => []NotifiedOnce
BY JobInvariant, PTL DEF JobInv

\* A Wait that reports an ending reports the final status and outcome.
THEOREM WaitNeverTornHolds == Spec => []WaitNeverTorn
BY JobInvariant, PTL DEF JobInv

\* The reaper only takes jobs whose end is stamped and whose outcome is stored.
THEOREM ReapedIsSettledHolds == Spec => []ReapedIsSettled
<1>1. JobInv => ReapedIsSettled
  <2> SUFFICES ASSUME JobInv, NEW j \in Jobs, Registered(j), j \notin known
               PROVE  isTerminal(state[j]) /\ outcome[j] = FinalOutcome(j)
    BY DEF ReapedIsSettled
  <2>1. Settled(j)
    BY DEF JobInv, RegistryInv, RegistryOK
  <2> QED BY <2>1 DEF JobInv, GoroutineInv, GoroutineOK, Settled, FinalOutcome
<1> QED BY <1>1, JobInvariant, PTL

\* Neither a Wait nor the reaper takes a job for over before its outcome is stored.
THEOREM EndingsAreCompleteHolds == Spec => []EndingsAreComplete
<1>1. WaitNeverTorn /\ ReapedIsSettled => EndingsAreComplete
  BY DEF EndingsAreComplete
<1> QED BY <1>1, WaitNeverTornHolds, ReapedIsSettledHolds, PTL

\* No return, panic or Cancel rewrites the status a job ended in.
THEOREM TerminalStableHolds == Spec => TerminalStable
<1>1. JobInv /\ [Next]_vars
        => [\A j \in Jobs : isTerminal(state[j]) => state'[j] = state[j]]_vars
  BY StaysTerminal
<1> QED BY <1>1, JobInvariant, PTL DEF Spec, TerminalStable

-------------------------------------------------------------------------------
(* What a caller is told only advances *)

Advances(w) ==
  reply'[w].job = reply[w].job
    => /\ isTerminal(reply[w].status)
            => reply'[w].status \in {reply[w].status, "notfound"}
       /\ reply[w].status = "notfound" => reply'[w].status = "notfound"

LEMMA AdvanceOwnStep ==
  ASSUME JobInv, NEW w \in Watchers, WatchStep(w) PROVE Advances(w)
<1> USE DEF JobInv
<1>1. WatcherOK(w)
  BY DEF WatcherInv
<1>2. ASSUME reply'[w] = reply[w] PROVE Advances(w)
  BY <1>2 DEF Advances
<1>3. ASSUME NEW op \in {"status", "wait"}, NEW j \in Jobs, Lookup(w, op, j)
      PROVE  reply'[w] = reply[w] \/ reply'[w].status = "notfound"
  BY <1>3 DEF Lookup, TypeOK
<1>4. CASE StatusReply(w)
  <2>1. wpc[w] = "fields" /\ reply'[w].job = wjob[w] /\ reply'[w].status = wseen[w]
    BY <1>4 DEF StatusReply, Respond, TypeOK
  <2> QED BY <1>1, <2>1 DEF WatcherOK, Advances
<1>5. CASE WaitDone(w)
  <2>1. /\ wpc[w] # "idle" /\ reply'[w].job = wjob[w]
        /\ reply'[w].status = state[wjob[w]]
    BY <1>5 DEF WaitDone, Respond, TypeOK
  <2> QED BY <1>1, <2>1 DEF WatcherOK, Advances
<1>6. CASE WaitTimeout(w)
  <2>1. wpc[w] = "select" /\ reply'[w].job = wjob[w]
    BY <1>6 DEF WaitTimeout, Respond, TypeOK
  <2> QED BY <1>1, <2>1 DEF WatcherOK, Advances
<1>7. StatusLoad(w) \/ WaitCheck(w) \/ WaitAbandoned(w) => reply'[w] = reply[w]
  BY DEF StatusLoad, WaitCheck, WaitAbandoned
<1>8. reply'[w].status = "notfound" => Advances(w)
  BY DEF Advances
<1> QED BY <1>2, <1>3, <1>4, <1>5, <1>6, <1>7, <1>8 DEF WatchStep

\* From running to an ending, and from there at most to "job not found".
THEOREM RepliesAdvanceHolds == Spec => RepliesAdvance
<1>1. ASSUME JobInv, [Next]_vars, NEW w \in Watchers PROVE Advances(w)
  <2>1. reply'[w] = reply[w] => Advances(w)
    BY DEF Advances
  <2> QED BY <1>1, <2>1, WatcherCases, AdvanceOwnStep DEF JobInv
<1>2. JobInv /\ [Next]_vars =>
        [\A w \in Watchers :
           reply'[w].job = reply[w].job
             => /\ isTerminal(reply[w].status)
                     => reply'[w].status \in {reply[w].status, "notfound"}
                /\ reply[w].status = "notfound" => reply'[w].status = "notfound"]_vars
  BY <1>1 DEF Advances
<1> QED BY <1>2, JobInvariant, PTL DEF Spec, RepliesAdvance

-------------------------------------------------------------------------------
(* 3. Cancel.  Until its target has ended it is somewhere on the stack of the *)
(* walk, and a walk only returns with an empty stack.                         *)

\* Positions in a sequence.
LEMMA ConcatAt ==
  ASSUME NEW S, NEW s \in Seq(S), NEW t \in Seq(S), NEW k \in 1..Len(s \o t)
  PROVE  \/ k \in 1..Len(s) /\ (s \o t)[k] = s[k]
         \/ k > Len(s) /\ k - Len(s) \in 1..Len(t) /\ (s \o t)[k] = t[k - Len(s)]
OBVIOUS

LEMMA ConcatLeft ==
  ASSUME NEW S, NEW s \in Seq(S), NEW t \in Seq(S), NEW i \in 1..Len(s)
  PROVE  i \in 1..Len(s \o t) /\ (s \o t)[i] = s[i]
OBVIOUS

LEMMA ConcatRight ==
  ASSUME NEW S, NEW s \in Seq(S), NEW t \in Seq(S), NEW i \in 1..Len(t)
  PROVE  Len(s) + i \in 1..Len(s \o t) /\ (s \o t)[Len(s) + i] = t[i]
OBVIOUS

LEMMA TailAt ==
  ASSUME NEW S, NEW s \in Seq(S), s # <<>>, NEW i \in 1..Len(Tail(s))
  PROVE  i + 1 \in 1..Len(s) /\ Tail(s)[i] = s[i + 1]
OBVIOUS

LEMMA TailFrom ==
  ASSUME NEW S, NEW s \in Seq(S), s # <<>>, NEW i \in 1..Len(s), i # 1
  PROVE  i - 1 \in 1..Len(Tail(s)) /\ Tail(s)[i - 1] = s[i]
OBVIOUS

\* Job j is still to be visited or killed in the stack s.
Pending(s, j) == \E i \in 1..Len(s) : s[i].job = j

TargetOK(c) ==
  cpc[c] # "idle" =>
    /\ target[c] \in Jobs /\ Registered(target[c])
    /\ isTerminal(state[target[c]]) \/ Pending(todo[c], target[c])

TargetInv == \A c \in Cancellers : TargetOK(c)

-------------------------------------------------------------------------------
(* Stacks *)

LEMMA PendingTail ==
  ASSUME NEW s \in Seq(WorkItem), s # <<>>, NEW j, Pending(s, j), Head(s).job # j
  PROVE  Pending(Tail(s), j)
<1>1. PICK i \in 1..Len(s) : s[i].job = j
  BY DEF Pending
<1>2. i # 1
  BY <1>1
<1>3. i - 1 \in 1..Len(Tail(s)) /\ Tail(s)[i - 1] = s[i]
  BY <1>2
<1> QED BY <1>1, <1>3 DEF Pending

LEMMA PendingConcat ==
  ASSUME NEW s \in Seq(WorkItem), NEW t \in Seq(WorkItem), NEW j,
         Pending(s, j) \/ Pending(t, j)
  PROVE  Pending(s \o t, j)
<1>1. ASSUME NEW i \in 1..Len(s), s[i].job = j PROVE Pending(s \o t, j)
  <2>1. i \in 1..Len(s \o t) /\ (s \o t)[i] = s[i]
    OBVIOUS
  <2> QED BY <1>1, <2>1 DEF Pending
<1>2. ASSUME NEW i \in 1..Len(t), t[i].job = j PROVE Pending(s \o t, j)
  <2>1. Len(s) + i \in 1..Len(s \o t) /\ (s \o t)[Len(s) + i] = t[i]
    OBVIOUS
  <2> QED BY <1>2, <2>1 DEF Pending
<1> QED BY <1>1, <1>2 DEF Pending

\* A visit keeps a registered job on the stack, below its children.
LEMMA PendingVisit ==
  ASSUME TypeOK, NEW j \in Jobs, j \in known PROVE Pending(Visit(j), j)
<1> DEFINE last == <<[op |-> "kill", job |-> j]>>
<1>1. children[j] \in Seq(Jobs)
  BY DEF TypeOK
<1>2. Calls(j) \in Seq(WorkItem)
  <2>1. Len(children[j]) \in Nat
    BY <1>1
  <2>2. \A i \in 1..Len(children[j]) :
          [op |-> "enter", job |-> children[j][i]] \in WorkItem
    BY <1>1 DEF WorkItem
  <2> QED BY <2>1, <2>2 DEF Calls
<1>3. last \in Seq(WorkItem) /\ Pending(last, j)
  BY DEF WorkItem, Pending
<1> QED BY <1>2, <1>3, PendingConcat DEF Visit

-------------------------------------------------------------------------------
(* The target *)

\* A step that leaves the walk of c alone.
LEMMA TargetElsewhere ==
  ASSUME JobInv, [Next]_vars, NEW c \in Cancellers, TargetOK(c),
         cpc[c] # "idle", target'[c] = target[c], todo'[c] = todo[c]
  PROVE  TargetOK(c)'
<1>1. target[c] \in Jobs /\ Registered(target[c])
  BY DEF TargetOK
<1>2. \A j \in Jobs : Registered(j) => Registered(j)'
  BY StaysRegistered DEF JobInv
<1>3. \A j \in Jobs : isTerminal(state[j]) => isTerminal(state'[j])
  BY StaysTerminal
<1> QED BY <1>1, <1>2, <1>3 DEF TargetOK, Registered, isTerminal, Pending

LEMMA TargetOwnStep ==
  ASSUME JobInv, NEW c \in Cancellers, CancelStep(c), TargetOK(c) PROVE TargetOK(c)'
<1> USE DEF JobInv
<1>1. [Next]_vars
  BY DEF Next
<1>2. UNCHANGED <<pc, known>>
  BY CancelFrame DEF regVars
<1>3. ASSUME NEW j \in Jobs, CancelCall(c, j) PROVE TargetOK(c)'
  <2>1. target'[c] = j /\ todo'[c] = <<[op |-> "enter", job |-> j]>> /\ j \in known
    BY <1>3 DEF CancelCall, TypeOK
  <2>2. Registered(j)
    BY <2>1 DEF RegistryInv, RegistryOK
  <2>3. Pending(todo'[c], j)
    BY <2>1 DEF Pending
  <2> QED BY <1>2, <2>1, <2>2, <2>3 DEF TargetOK, Registered, Pending
<1>4. CASE Enter(c)
  <2> DEFINE h == Head(todo[c])
  <2>1. /\ todo[c] \in Seq(WorkItem) /\ todo[c] # <<>>
        /\ target'[c] = target[c] /\ todo'[c] = Visit(h.job) \o Tail(todo[c])
        /\ UNCHANGED state /\ cpc[c] # "idle"
    BY <1>4 DEF Enter, TypeOK, jobVars
  <2>2. h.job \in Jobs /\ Tail(todo[c]) \in Seq(WorkItem)
    <3>1. h \in WorkItem /\ Tail(todo[c]) \in Seq(WorkItem)
      BY <2>1
    <3> QED BY <3>1 DEF WorkItem
  <2>3. Visit(h.job) \in Seq(WorkItem)
    BY <2>2, VisitType
  <2>4. target[c] \in Jobs /\ Registered(target[c])
    BY <2>1 DEF TargetOK
  <2>5. CASE isTerminal(state[target[c]])
    BY <1>2, <2>1, <2>4, <2>5 DEF TargetOK, Registered, isTerminal
  <2>6. CASE h.job = target[c] /\ target[c] \notin known
    <3>1. isTerminal(state[target[c]])
      BY <2>4, <2>6 DEF RegistryInv, RegistryOK, Settled
    <3> QED BY <2>5, <3>1
  <2>7. CASE h.job = target[c] /\ target[c] \in known
    <3>1. Pending(Visit(h.job), target[c])
      BY <2>2, <2>7, PendingVisit
    <3>2. Pending(Visit(h.job) \o Tail(todo[c]), target[c])
      BY <2>2, <2>3, <3>1, PendingConcat
    <3>3. Pending(todo'[c], target[c])
      BY <2>1, <3>2
    <3> QED BY <1>2, <2>1, <2>4, <3>3 DEF TargetOK, Registered, Pending
  <2>8. CASE h.job # target[c] /\ Pending(todo[c], target[c])
    <3>1. Pending(Tail(todo[c]), target[c])
      BY <2>1, <2>8, PendingTail
    <3>2. Pending(todo'[c], target[c])
      BY <2>1, <2>2, <2>3, <3>1, PendingConcat
    <3> QED BY <1>2, <2>1, <2>4, <3>2 DEF TargetOK, Registered, Pending
  <2> QED BY <2>1, <2>5, <2>6, <2>7, <2>8 DEF TargetOK
<1>5. CASE Kill(c)
  <2>1. /\ todo[c] \in Seq(WorkItem) /\ todo[c] # <<>>
        /\ target'[c] = target[c] /\ todo'[c] = Tail(todo[c]) /\ cpc[c] # "idle"
    BY <1>5 DEF Kill, TypeOK
  <2>2. target[c] \in Jobs /\ Registered(target[c])
    BY <2>1 DEF TargetOK
  <2>3. CASE isTerminal(state[target[c]])
    <3>1. isTerminal(state'[target[c]])
      BY <1>1, <2>2, <2>3, StaysTerminal
    <3> QED BY <1>2, <2>1, <2>2, <3>1 DEF TargetOK, Registered, isTerminal
  <2>4. CASE Head(todo[c]).job = target[c]
    <3>1. isTerminal(state'[target[c]])
      BY <1>5, <2>2, <2>4 DEF Kill, TypeOK, Statuses, isTerminal
    <3> QED BY <1>2, <2>1, <2>2, <3>1 DEF TargetOK, Registered, isTerminal
  <2>5. CASE Head(todo[c]).job # target[c] /\ Pending(todo[c], target[c])
    <3>1. Pending(todo'[c], target[c])
      BY <2>1, <2>5, PendingTail
    <3> QED BY <1>2, <2>1, <2>2, <3>1 DEF TargetOK, Registered, Pending
  <2> QED BY <2>1, <2>3, <2>4, <2>5 DEF TargetOK
<1>6. CASE Stamp(c) \/ Abort(c) \/ NotifyCancelled(c)
  <2>1. cpc[c] # "idle" /\ target'[c] = target[c] /\ todo'[c] = todo[c]
    BY <1>6 DEF Stamp, Abort, NotifyCancelled
  <2> QED BY <1>1, <2>1, TargetElsewhere
<1>7. CASE CancelReturn(c)
  BY <1>7 DEF CancelReturn, TargetOK, TypeOK
<1> QED BY <1>3, <1>4, <1>5, <1>6, <1>7 DEF CancelStep

LEMMA TargetStep == JobInv /\ TargetInv /\ [Next]_vars => TargetInv'
<1> SUFFICES ASSUME JobInv, TargetInv, [Next]_vars, NEW c \in Cancellers
             PROVE  TargetOK(c)'
  BY DEF TargetInv
<1>1. TargetOK(c)
  BY DEF TargetInv
<1>2. ASSUME cpc'[c] = cpc[c], target'[c] = target[c], todo'[c] = todo[c]
      PROVE  TargetOK(c)'
  <2>1. CASE cpc[c] = "idle"
    BY <1>2, <2>1 DEF TargetOK
  <2>2. CASE cpc[c] # "idle"
    BY <1>1, <1>2, <2>2, TargetElsewhere
  <2> QED BY <2>1, <2>2
<1>3. ASSUME NEW d \in Cancellers, d # c, CancelStep(d)
      PROVE  cpc'[c] = cpc[c] /\ target'[c] = target[c] /\ todo'[c] = todo[c]
  BY <1>3 DEF CancelStep, CancelCall, Enter, Kill, Stamp, Abort, NotifyCancelled,
              CancelReturn, JobInv, TypeOK
<1>4. UNCHANGED canVars \/ \E d \in Cancellers : CancelStep(d)
  BY JobFrame, WatchFrame, ManagerFrame DEF Next, vars
<1> QED BY <1>1, <1>2, <1>3, <1>4, TargetOwnStep DEF canVars

\* When a Cancel returns, its target has ended.
THEOREM CancelEndsTargetHolds == Spec => []CancelEndsTarget
<1>1. Init => TargetInv
  BY DEF Init, TargetInv, TargetOK
<1>2. TargetInv => CancelEndsTarget
  BY DEF TargetInv, TargetOK, Pending, CancelEndsTarget, Returning
<1> QED BY <1>1, <1>2, TargetStep, JobInvariant, PTL DEF Spec

-------------------------------------------------------------------------------
(* The subtree.  On every path from the target to a job in the scope of the   *)
(* call somebody is still to be visited, until the job is to be killed or has *)
(* ended; and a job is killed after its children.                             *)

Waiting(s, op, j) == \E i \in 1..Len(s) : s[i].op = op /\ s[i].job = j

\* The registry's children are the parent pointers, as far as both are registered.
TreeInv ==
  /\ \A j \in Jobs : parent[j] \in Jobs => Registered(parent[j])
  /\ \A j \in known : parent[j] \in known =>
       \E i \in 1..Len(children[parent[j]]) : children[parent[j]][i] = j

ScopeInv == \A c \in Cancellers : \A j \in scope[c] : j \in Jobs /\ Registered(j)

PathOK(c) ==
  \A j \in scope[c] : \A n \in Nat : \A f \in [0..n -> known] : Path(f, n, target[c], j) =>
    \/ isTerminal(state[j]) \/ Waiting(todo[c], "kill", j)
    \/ \E i \in 0..n : Waiting(todo[c], "enter", f[i])

OrderOK(c) ==
  \A k \in 1..Len(todo[c]) : todo[c][k].op = "kill" =>
    \A q \in scope[c] : parent[q] = todo[c][k].job =>
      isTerminal(state[q]) \/ \E i \in 1..Len(todo[c]) : i < k /\ todo[c][i].job = q

WalkInv == \A c \in Cancellers : cpc[c] # "idle" => PathOK(c) /\ OrderOK(c)

SubtreeInv == TreeInv /\ ScopeInv /\ WalkInv

LEMMA AppendKeeps ==
  ASSUME NEW S, NEW s \in Seq(S), NEW x \in S, NEW i \in 1..Len(s)
  PROVE  Append(s, x)[i] = s[i] /\ i \in 1..Len(Append(s, x))
OBVIOUS

LEMMA TreeStep == JobInv /\ TreeInv /\ [Next]_vars => TreeInv'
<1> SUFFICES ASSUME JobInv, TreeInv, [Next]_vars PROVE TreeInv'
  OBVIOUS
<1> USE DEF JobInv, TypeOK
<1>1. \A j \in Jobs : Registered(j) => Registered(j)'
  BY StaysRegistered
<1>2. CASE UNCHANGED <<parent, known, children>>
  BY <1>1, <1>2 DEF TreeInv
<1>3. ASSUME NEW j \in Jobs, NEW p \in Jobs \cup {NoJob}, Request(j, p) PROVE TreeInv'
  <2>1. known' = known /\ children' = children /\ parent' = [parent EXCEPT ![j] = p]
    BY <1>3 DEF Request, regVars
  <2>2. j \notin known
    BY <1>3 DEF Request, RegistryInv, RegistryOK, Registered
  <2>3. p \in Jobs => Registered(p)
    BY <1>3, ParentAssumption DEF Request, Registered
  <2>4. \A k \in Jobs : parent'[k] \in Jobs => pc'[parent'[k]] \notin {"unborn", "requested"}
    BY <1>1, <2>1, <2>3 DEF TreeInv, Registered
  <2>5. \A k \in known : parent'[k] = parent[k]
    BY <2>1, <2>2
  <2>6. \A k \in known' : parent'[k] \in known' =>
          \E i \in 1..Len(children'[parent'[k]]) : children'[parent'[k]][i] = k
    <3> HIDE DEF JobInv, TypeOK
    <3> QED BY <2>1, <2>5 DEF TreeInv
  <2> HIDE DEF JobInv, TypeOK
  <2> QED BY <2>4, <2>6 DEF TreeInv, Registered
<1>4. ASSUME NEW j \in Jobs, Register(j) PROVE TreeInv'
  <2>1. known' = known \cup {j} /\ parent' = parent /\ ~Registered(j)
    BY <1>4 DEF Register, Registered
  <2>2. \A p \in Jobs : parent[j] = p =>
          \E i \in 1..Len(children'[p]) : children'[p][i] = j
    <3> SUFFICES ASSUME NEW p \in Jobs, parent[j] = p
                 PROVE  \E i \in 1..Len(children'[p]) : children'[p][i] = j
      OBVIOUS
    <3>1. children'[p] = Append(children[p], j) /\ children[p] \in Seq(Jobs)
      BY <1>4, ParentAssumption DEF Register
    <3>2. Len(children[p]) + 1 \in 1..Len(children'[p]) /\ children'[p][Len(children[p]) + 1] = j
      BY <3>1
    <3> QED BY <3>2
  <2>3. \A p \in Jobs : \A i \in 1..Len(children[p]) :
          i \in 1..Len(children'[p]) /\ children'[p][i] = children[p][i]
    <3> SUFFICES ASSUME NEW p \in Jobs, NEW i \in 1..Len(children[p])
                 PROVE  i \in 1..Len(children'[p]) /\ children'[p][i] = children[p][i]
      OBVIOUS
    <3>1. children'[p] = children[p] \/ children'[p] = Append(children[p], j)
      BY <1>4 DEF Register
    <3>2. children[p] \in Seq(Jobs)
      OBVIOUS
    <3>3. Append(children[p], j)[i] = children[p][i] /\ i \in 1..Len(Append(children[p], j))
      BY <3>2, AppendKeeps
    <3> HIDE DEF JobInv, TypeOK
    <3> QED BY <3>1, <3>3
  <2>4. \A k \in Jobs : parent[k] # j
    BY <2>1 DEF TreeInv
  <2>5. \A k \in known' : parent'[k] \in known' =>
          \E i \in 1..Len(children'[parent'[k]]) : children'[parent'[k]][i] = k
    <3> SUFFICES ASSUME NEW k \in known', parent[k] \in known'
                 PROVE  \E i \in 1..Len(children'[parent[k]]) : children'[parent[k]][i] = k
      BY <2>1
    <3>1. k \in Jobs /\ parent[k] \in known
      BY <2>1, <2>4
    <3>2. CASE k = j
      BY <2>2, <3>1, <3>2
    <3>3. CASE k # j
      <4>1. PICK i \in 1..Len(children[parent[k]]) : children[parent[k]][i] = k
        BY <2>1, <3>1, <3>3 DEF TreeInv
      <4> QED BY <2>3, <3>1, <4>1
    <3> QED BY <3>2, <3>3
  <2> QED BY <1>1, <2>1, <2>5 DEF TreeInv
<1>5. CASE Reap
  <2>1. /\ known' \subseteq known /\ parent' = parent
        /\ \A p \in known' : children'[p] = children[p]
    BY <1>5 DEF Reap, jobVars
  <2> QED BY <1>1, <2>1 DEF TreeInv
<1>6. ASSUME NEW j \in Jobs, JobStep(j),
             ~Register(j), \A p \in Jobs \cup {NoJob} : ~Request(j, p)
      PROVE  UNCHANGED <<parent, known, children>>
  BY <1>6 DEF JobStep, Launch, OutputReady, RunReturns, Finish, Record, Announce, Exit, regVars
<1>7. ManagerStep /\ ~Reap => UNCHANGED <<parent, known, children>>
  BY DEF ManagerStep, Tick, Shutdown, ShutdownReturns, jobVars
<1>8. \A c \in Cancellers : CancelStep(c) => UNCHANGED <<parent, known, children>>
  BY CancelFrame DEF regVars
<1>9. \A w \in Watchers : WatchStep(w) => UNCHANGED <<parent, known, children>>
  BY WatchFrame DEF regVars, jobVars
<1> QED BY <1>2, <1>3, <1>4, <1>5, <1>6, <1>7, <1>8, <1>9 DEF Next, vars, jobVars, regVars

\* The scope of a call is part of what was registered when it began.
LEMMA ScopeStep == JobInv /\ ScopeInv /\ [Next]_vars => ScopeInv'
<1> SUFFICES ASSUME JobInv, ScopeInv, [Next]_vars PROVE ScopeInv'
  OBVIOUS
<1>1. \A j \in Jobs : Registered(j) => Registered(j)'
  BY StaysRegistered DEF JobInv
<1>2. CASE UNCHANGED scope
  BY <1>1, <1>2 DEF ScopeInv
<1>3. ASSUME NEW c \in Cancellers, CancelStep(c) PROVE ScopeInv'
  <2>1. \/ UNCHANGED scope \/ scope' = [scope EXCEPT ![c] = known]
        \/ scope' = [scope EXCEPT ![c] = {}]
    BY <1>3 DEF CancelStep, CancelCall, Enter, Kill, Stamp, Abort, NotifyCancelled,
                CancelReturn
  <2>2. \A j \in known : j \in Jobs /\ Registered(j)
    BY DEF JobInv, TypeOK, RegistryInv, RegistryOK
  <2> QED BY <1>1, <2>1, <2>2 DEF ScopeInv, JobInv, TypeOK
<1> QED BY <1>2, <1>3, JobFrame, WatchFrame, ManagerFrame DEF Next, vars, canVars

-------------------------------------------------------------------------------
(* Paths.  No step puts a new path to a job that was registered before: a job  *)
(* is nobody's parent when it is registered.                                  *)

LEMMA ParentStep ==
  ASSUME JobInv, [Next]_vars, NEW k \in Jobs, Registered(k) PROVE parent'[k] = parent[k]
<1>1. ASSUME NEW j \in Jobs, JobStep(j) PROVE parent'[k] = parent[k]
  BY <1>1 DEF JobStep, Request, Register, Launch, OutputReady, RunReturns, Finish, Record,
              Announce, Exit, Registered, JobInv, TypeOK
<1> QED BY <1>1, CancelFrame, WatchFrame, ManagerFrame DEF Next, vars, jobVars

LEMMA KnownGrows ==
  ASSUME JobInv, [Next]_vars, NEW k \in known', k \notin known
  PROVE  k \in Jobs /\ ~Registered(k) /\ UNCHANGED parent
<1>1. PICK j \in Jobs : Register(j)
  <2>1. ASSUME NEW j \in Jobs, JobStep(j), ~Register(j) PROVE UNCHANGED known
    BY <2>1 DEF JobStep, Request, Launch, OutputReady, RunReturns, Finish, Record,
                Announce, Exit, regVars
  <2>2. ManagerStep => known' \subseteq known
    BY DEF ManagerStep, Tick, Reap, Shutdown, ShutdownReturns
  <2> QED BY <2>1, <2>2, CancelFrame, WatchFrame DEF Next, vars, regVars
<1> QED BY <1>1 DEF Register, Registered

LEMMA PathBefore ==
  ASSUME JobInv, TreeInv, [Next]_vars, NEW n \in Nat, NEW f, NEW t, NEW j \in Jobs,
         Registered(j), Path(f, n, t, j)'
  PROVE  f \in [0..n -> known] /\ Path(f, n, t, j)
<1>1. /\ f \in [0..n -> known'] /\ f[0] = t /\ f[n] = j
      /\ \A i \in 1..n : parent'[f[i]] = f[i - 1]
  BY DEF Path
<1>2. ASSUME NEW i \in 0..n PROVE f[i] \in known
  <2> SUFFICES ASSUME f[i] \notin known PROVE FALSE
    OBVIOUS
  <2>1. f[i] \in Jobs /\ ~Registered(f[i]) /\ UNCHANGED parent
    BY <1>1, KnownGrows
  <2>2. i # n
    BY <1>1, <2>1
  <2>3. i + 1 \in 1..n /\ i + 1 \in 0..n /\ (i + 1) - 1 = i
    BY <2>2
  <2>4. parent[f[i + 1]] = f[i] /\ f[i + 1] \in known'
    BY <1>1, <2>1, <2>3
  <2>5. f[i + 1] \in Jobs
    BY <2>4, KnownGrows DEF JobInv, TypeOK
  <2> QED BY <2>1, <2>4, <2>5 DEF TreeInv
<1>3. f \in [0..n -> known]
  BY <1>1, <1>2
<1>4. ASSUME NEW i \in 1..n PROVE parent[f[i]] = f[i - 1]
  <2>1. i \in 0..n
    OBVIOUS
  <2>2. f[i] \in Jobs /\ Registered(f[i])
    BY <1>2, <2>1 DEF JobInv, TypeOK, RegistryInv, RegistryOK
  <2> QED BY <1>1, <2>2, ParentStep
<1> QED BY <1>1, <1>3, <1>4 DEF Path

-------------------------------------------------------------------------------
(* Stacks, by operation *)

\* A job of the stack s before its k-th item.
Before(s, k, q) == \E i \in 1..Len(s) : i < k /\ s[i].job = q

LEMMA WaitingTail ==
  ASSUME NEW s \in Seq(WorkItem), s # <<>>, NEW op, NEW j, Waiting(s, op, j),
         Head(s).op # op \/ Head(s).job # j
  PROVE  Waiting(Tail(s), op, j)
<1>1. PICK i \in 1..Len(s) : s[i].op = op /\ s[i].job = j
  BY DEF Waiting
<1>2. i # 1
  BY <1>1
<1>3. i - 1 \in 1..Len(Tail(s)) /\ Tail(s)[i - 1] = s[i]
  BY <1>2
<1> QED BY <1>1, <1>3 DEF Waiting

LEMMA WaitingConcat ==
  ASSUME NEW s \in Seq(WorkItem), NEW t \in Seq(WorkItem), NEW op, NEW j,
         Waiting(s, op, j) \/ Waiting(t, op, j)
  PROVE  Waiting(s \o t, op, j)
<1>1. ASSUME NEW i \in 1..Len(s), s[i].op = op, s[i].job = j PROVE Waiting(s \o t, op, j)
  <2>1. i \in 1..Len(s \o t) /\ (s \o t)[i] = s[i]
    OBVIOUS
  <2> QED BY <1>1, <2>1 DEF Waiting
<1>2. ASSUME NEW i \in 1..Len(t), t[i].op = op, t[i].job = j PROVE Waiting(s \o t, op, j)
  <2>1. Len(s) + i \in 1..Len(s \o t) /\ (s \o t)[Len(s) + i] = t[i]
    OBVIOUS
  <2> QED BY <1>2, <2>1 DEF Waiting
<1> QED BY <1>1, <1>2 DEF Waiting

\* A visit of a registered job: its children are entered, then it is killed.
LEMMA VisitShape ==
  ASSUME TypeOK, NEW e \in Jobs, e \in known
  PROVE  LET n == Len(children[e]) IN
         /\ n \in Nat /\ Visit(e) \in Seq(WorkItem) /\ Len(Visit(e)) = n + 1
         /\ \A i \in 1..n : Visit(e)[i] = [op |-> "enter", job |-> children[e][i]]
         /\ Visit(e)[n + 1] = [op |-> "kill", job |-> e]
<1> DEFINE n == Len(children[e])
           last == [op |-> "kill", job |-> e]
<1>1. children[e] \in Seq(Jobs) /\ n \in Nat
  BY DEF TypeOK
<1>2. \A i \in 1..n : [op |-> "enter", job |-> children[e][i]] \in WorkItem
  BY <1>1 DEF WorkItem
<1>3. Calls(e) = [i \in 1..n |-> [op |-> "enter", job |-> children[e][i]]]
  BY DEF Calls
<1>4. last \in WorkItem /\ last = [op |-> "kill", job |-> e]
  BY DEF WorkItem
<1>5. Visit(e) = Calls(e) \o <<last>>
  BY DEF Visit
<1>6. n \in Nat
  BY <1>1
<1> HIDE DEF n, last
<1>7. Calls(e) \in Seq(WorkItem)
  BY <1>2, <1>3, <1>6
<1>8. Len(Calls(e)) = n
  BY <1>3, <1>6
<1>9. Calls(e) \o <<last>> \in Seq(WorkItem) /\ Len(Calls(e) \o <<last>>) = n + 1
  BY <1>4, <1>7, <1>8
<1>10. \A i \in 1..n : (Calls(e) \o <<last>>)[i] = Calls(e)[i]
  BY <1>4, <1>7, <1>8
<1>11. (Calls(e) \o <<last>>)[n + 1] = last
  BY <1>4, <1>6, <1>7, <1>8
<1>12. \A i \in 1..n : Calls(e)[i] = [op |-> "enter", job |-> children[e][i]]
  BY <1>3
<1> QED BY <1>4, <1>5, <1>6, <1>9, <1>10, <1>11, <1>12 DEF n

LEMMA VisitWaits ==
  ASSUME TypeOK, NEW e \in Jobs, e \in known
  PROVE  /\ Waiting(Visit(e), "kill", e)
         /\ \A i \in 1..Len(children[e]) : Waiting(Visit(e), "enter", children[e][i])
<1> DEFINE n == Len(children[e])
<1>1. /\ n \in Nat /\ Visit(e) \in Seq(WorkItem) /\ Len(Visit(e)) = n + 1
      /\ \A i \in 1..n : Visit(e)[i] = [op |-> "enter", job |-> children[e][i]]
      /\ Visit(e)[n + 1] = [op |-> "kill", job |-> e]
  BY VisitShape
<1>2. n + 1 \in 1..Len(Visit(e)) /\ \A i \in 1..n : i \in 1..Len(Visit(e))
  BY <1>1
<1>3. Visit(e)[n + 1].op = "kill" /\ Visit(e)[n + 1].job = e
  BY <1>1
<1>4. ASSUME NEW i \in 1..n
      PROVE  Visit(e)[i].op = "enter" /\ Visit(e)[i].job = children[e][i]
  <2>1. Visit(e)[i] = [op |-> "enter", job |-> children[e][i]]
    BY <1>1
  <2> QED BY <2>1
<1>5. Waiting(Visit(e), "kill", e)
  BY <1>2, <1>3 DEF Waiting
<1>6. \A i \in 1..n : Waiting(Visit(e), "enter", children[e][i])
  BY <1>2, <1>4 DEF Waiting
<1> QED BY <1>5, <1>6

-------------------------------------------------------------------------------
(* The walk.  Both parts survive a step that keeps target and scope if they     *)
(* hold of the paths and parents there were before the step.                    *)

LEMMA PathKeeps ==
  ASSUME JobInv, TreeInv, ScopeInv, [Next]_vars, NEW c \in Cancellers,
         target'[c] = target[c], scope'[c] = scope[c],
         \A j \in scope[c] : \A n \in Nat : \A f \in [0..n -> known] :
           Path(f, n, target[c], j) =>
             \/ isTerminal(state'[j]) \/ Waiting(todo'[c], "kill", j)
             \/ \E i \in 0..n : Waiting(todo'[c], "enter", f[i])
  PROVE  PathOK(c)'
<1> SUFFICES ASSUME NEW j \in scope[c], NEW n \in Nat, NEW f \in [0..n -> known'],
                    Path(f, n, target[c], j)'
             PROVE  \/ isTerminal(state'[j]) \/ Waiting(todo'[c], "kill", j)
                    \/ \E i \in 0..n : Waiting(todo'[c], "enter", f[i])
  BY DEF PathOK, isTerminal, Waiting
<1>1. j \in Jobs /\ Registered(j)
  BY DEF ScopeInv
<1>2. ASSUME NEW t, t = target[c] PROVE Path(f, n, target[c], j)
  <2>1. Path(f, n, t, j)'
    BY <1>2 DEF Path
  <2>2. Path(f, n, t, j)
    BY <1>1, <2>1, PathBefore
  <2> QED BY <1>2, <2>2
<1>3. Path(f, n, target[c], j)
  BY <1>2
<1>4. f \in [0..n -> known]
  BY <1>3 DEF Path
<1> QED BY <1>3, <1>4

LEMMA OrderKeeps ==
  ASSUME JobInv, ScopeInv, [Next]_vars, NEW c \in Cancellers, scope'[c] = scope[c],
         \A k \in 1..Len(todo'[c]) : todo'[c][k].op = "kill" =>
           \A q \in scope[c] : parent[q] = todo'[c][k].job =>
             isTerminal(state'[q]) \/ Before(todo'[c], k, q)
  PROVE  OrderOK(c)'
<1> SUFFICES ASSUME NEW k \in 1..Len(todo'[c]), todo'[c][k].op = "kill",
                    NEW q \in scope[c], parent'[q] = todo'[c][k].job
             PROVE  isTerminal(state'[q]) \/ Before(todo'[c], k, q)
  BY DEF OrderOK, isTerminal, Before
<1>1. parent'[q] = parent[q]
  BY ParentStep DEF ScopeInv
<1> QED BY <1>1

\* A step that leaves the walk of c alone.
LEMMA WalkElsewhere ==
  ASSUME JobInv, TreeInv, ScopeInv, [Next]_vars, NEW c \in Cancellers,
         PathOK(c), OrderOK(c),
         target'[c] = target[c], scope'[c] = scope[c], todo'[c] = todo[c]
  PROVE  PathOK(c)' /\ OrderOK(c)'
<1>1. \A j \in scope[c] : isTerminal(state[j]) => isTerminal(state'[j])
  BY StaysTerminal DEF ScopeInv
<1>2. PathOK(c)'
  <2>1. \A j \in scope[c] : \A n \in Nat : \A f \in [0..n -> known] :
          Path(f, n, target[c], j) =>
            \/ isTerminal(state'[j]) \/ Waiting(todo'[c], "kill", j)
            \/ \E i \in 0..n : Waiting(todo'[c], "enter", f[i])
    BY <1>1 DEF PathOK
  <2> QED BY <2>1, PathKeeps
<1>3. OrderOK(c)'
  <2>1. \A k \in 1..Len(todo'[c]) : todo'[c][k].op = "kill" =>
          \A q \in scope[c] : parent[q] = todo'[c][k].job =>
            isTerminal(state'[q]) \/ Before(todo'[c], k, q)
    BY <1>1 DEF OrderOK, Before
  <2> QED BY <2>1, OrderKeeps
<1> QED BY <1>2, <1>3

\* The call has only the target to visit.
LEMMA WalkBegins ==
  ASSUME NEW c \in Cancellers, NEW t \in Jobs, JobInv, CancelCall(c, t)
  PROVE  PathOK(c)' /\ OrderOK(c)'
<1>1. todo'[c] = <<[op |-> "enter", job |-> t]>> /\ target'[c] = t
  BY DEF CancelCall, JobInv, TypeOK
<1>2. Waiting(todo'[c], "enter", t) /\ \A k \in 1..Len(todo'[c]) : todo'[c][k].op = "enter"
  BY <1>1 DEF Waiting
<1>3. \A n \in Nat : \A f : \A j : Path(f, n, target[c], j)' => f[0] = t /\ 0 \in 0..n
  BY <1>1 DEF Path
<1>4. PathOK(c)'
  BY <1>2, <1>3 DEF PathOK, Waiting
<1>5. OrderOK(c)'
  BY <1>2 DEF OrderOK
<1> QED BY <1>4, <1>5

LEMMA WalkEnter ==
  ASSUME JobInv, SubtreeInv, NEW c \in Cancellers, Enter(c), PathOK(c), OrderOK(c)
  PROVE  PathOK(c)' /\ OrderOK(c)'
<1> DEFINE s == todo[c]
           e == Head(s).job
<1>1. [Next]_vars
  BY DEF Next, CancelStep
<1>2. /\ s \in Seq(WorkItem) /\ s # <<>> /\ Head(s).op = "enter"
      /\ todo'[c] = Visit(e) \o Tail(s)
      /\ UNCHANGED <<target, scope, state>>
  BY DEF Enter, JobInv, TypeOK, jobVars
<1>3. e \in Jobs /\ Tail(s) \in Seq(WorkItem)
  <2>1. Head(s) \in WorkItem /\ Tail(s) \in Seq(WorkItem)
    BY <1>2
  <2> QED BY <2>1 DEF WorkItem
<1>4. Visit(e) \in Seq(WorkItem)
  BY <1>3, VisitType DEF JobInv
<1>5. ASSUME NEW q \in scope[c], parent[q] = e, e \in known
      PROVE  \/ isTerminal(state[q])
             \/ \E i \in 1..Len(children[e]) : children[e][i] = q
  <2>1. CASE q \in known
    BY <1>5, <2>1 DEF SubtreeInv, TreeInv
  <2>2. CASE q \notin known
    BY <2>2 DEF SubtreeInv, ScopeInv, JobInv, RegistryInv, RegistryOK, Settled
  <2> QED BY <2>1, <2>2
<1>6. ASSUME NEW op, NEW j, Waiting(s, op, j), op # "enter" \/ j # e
      PROVE  Waiting(todo'[c], op, j)
  <2>1. Waiting(Tail(s), op, j)
    BY <1>2, <1>6, WaitingTail
  <2> QED BY <1>2, <1>3, <1>4, <2>1, WaitingConcat
<1>7. ASSUME NEW op, NEW j, Waiting(Visit(e), op, j) PROVE Waiting(todo'[c], op, j)
  BY <1>2, <1>3, <1>4, <1>7, WaitingConcat
<1>8. e \in known =>
        /\ Waiting(todo'[c], "kill", e)
        /\ \A i \in 1..Len(children[e]) : Waiting(todo'[c], "enter", children[e][i])
  BY <1>3, <1>7, VisitWaits DEF JobInv
<1>9. PathOK(c)'
  <2>1. ASSUME NEW j \in scope[c], NEW n \in Nat, NEW f \in [0..n -> known],
               Path(f, n, target[c], j)
        PROVE  \/ isTerminal(state'[j]) \/ Waiting(todo'[c], "kill", j)
               \/ \E i \in 0..n : Waiting(todo'[c], "enter", f[i])
    <3>1. CASE isTerminal(state[j])
      BY <1>2, <3>1
    <3>2. CASE Waiting(s, "kill", j)
      BY <1>6, <3>2
    <3>3. ASSUME NEW i \in 0..n, Waiting(s, "enter", f[i]), f[i] # e
          PROVE  Waiting(todo'[c], "enter", f[i])
      BY <1>6, <3>3
    <3>4. ASSUME NEW i \in 0..n, f[i] = e
          PROVE  \/ isTerminal(state[j]) \/ Waiting(todo'[c], "kill", j)
                 \/ \E k \in 0..n : Waiting(todo'[c], "enter", f[k])
      <4>1. e \in known
        BY <3>4
      <4>2. CASE i = n
        BY <1>8, <2>1, <3>4, <4>1, <4>2 DEF Path
      <4>3. CASE i # n
        <5>1. i + 1 \in 1..n /\ i + 1 \in 0..n /\ (i + 1) - 1 = i
          BY <4>3
        <5>2. parent[f[i + 1]] = e /\ f[i + 1] \in known
          BY <2>1, <3>4, <5>1 DEF Path
        <5>3. PICK m \in 1..Len(children[e]) : children[e][m] = f[i + 1]
          BY <4>1, <5>2 DEF SubtreeInv, TreeInv
        <5>4. Waiting(todo'[c], "enter", f[i + 1])
          BY <1>8, <4>1, <5>3
        <5> QED BY <5>1, <5>4
      <4> QED BY <4>2, <4>3
    <3>5. \/ isTerminal(state[j]) \/ Waiting(s, "kill", j)
          \/ \E i \in 0..n : Waiting(s, "enter", f[i])
      BY <2>1 DEF PathOK
    <3> QED BY <1>2, <3>1, <3>2, <3>3, <3>4, <3>5
  <2>2. target'[c] = target[c] /\ scope'[c] = scope[c]
    BY <1>2
  <2> QED BY <1>1, <2>1, <2>2, PathKeeps DEF SubtreeInv
<1>10. ASSUME NEW k \in 1..Len(todo'[c]), todo'[c][k].op = "kill",
              NEW q \in scope[c], parent[q] = todo'[c][k].job
       PROVE  isTerminal(state'[q]) \/ Before(todo'[c], k, q)
  <2> DEFINE V == Visit(e)
             T == Tail(s)
             n == Len(children[e])
  <2>1. e \in known =>
          /\ n \in Nat /\ Len(V) = n + 1
          /\ \A i \in 1..n : V[i] = [op |-> "enter", job |-> children[e][i]]
          /\ V[n + 1] = [op |-> "kill", job |-> e]
    BY <1>3, VisitShape DEF JobInv
  <2>2. e \notin known => Len(V) = 0
    BY DEF Visit
  <2>3. V \in Seq(WorkItem) /\ T \in Seq(WorkItem) /\ s \in Seq(WorkItem) /\ s # <<>>
    BY <1>2, <1>3, <1>4
  <2>4. todo'[c] = V \o T
    BY <1>2
  <2>5. Head(s) = s[1]
    BY <1>2
  <2>6. Len(V) \in Nat
    BY <1>4
  <2> HIDE DEF V, T, n
  <2>7. ASSUME NEW i \in 1..Len(V), V[i].job = q, i < k PROVE Before(todo'[c], k, q)
    <3>1. i \in 1..Len(V \o T) /\ (V \o T)[i] = V[i]
      BY <2>3, ConcatLeft
    <3> QED BY <2>4, <2>7, <3>1 DEF Before
  <2>8. CASE k \in 1..Len(V) /\ (V \o T)[k] = V[k]
    <3>1. e \in known
      BY <2>2, <2>8
    <3>2. k \notin 1..n
      <4>1. SUFFICES ASSUME k \in 1..n PROVE FALSE
        OBVIOUS
      <4>2. V[k] = [op |-> "enter", job |-> children[e][k]]
        BY <2>1, <3>1, <4>1
      <4>3. V[k].op = "enter"
        BY <4>2
      <4> QED BY <1>10, <2>4, <2>8, <4>3
    <3>3. k = n + 1
      BY <2>1, <2>8, <3>1, <3>2
    <3>4. parent[q] = e
      BY <1>10, <2>1, <2>4, <2>8, <3>1, <3>3
    <3>5. ASSUME NEW i \in 1..Len(children[e]), children[e][i] = q
          PROVE  Before(todo'[c], k, q)
      <4>1. i \in 1..n
        BY <3>5 DEF n
      <4>2. i \in 1..Len(V) /\ i < k
        BY <2>1, <3>1, <3>3, <4>1
      <4>3. V[i] = [op |-> "enter", job |-> q]
        BY <2>1, <3>1, <3>5, <4>1
      <4>4. V[i].job = q
        BY <4>3
      <4> QED BY <2>7, <4>2, <4>4
    <3>6. isTerminal(state[q]) \/ \E i \in 1..Len(children[e]) : children[e][i] = q
      BY <1>5, <3>1, <3>4
    <3> QED BY <1>2, <3>5, <3>6
  <2>9. CASE k > Len(V) /\ k - Len(V) \in 1..Len(T) /\ (V \o T)[k] = T[k - Len(V)]
    <3> DEFINE m == (k - Len(V)) + 1
    <3>1. m \in 1..Len(s) /\ T[k - Len(V)] = s[m]
      BY <2>3, <2>9, TailAt DEF T
    <3>2. s[m].op = "kill" /\ parent[q] = s[m].job
      BY <1>10, <2>4, <2>9, <3>1
    <3>3. isTerminal(state[q]) \/ \E i \in 1..Len(s) : i < m /\ s[i].job = q
      <4> HIDE DEF m
      <4> QED BY <3>1, <3>2 DEF OrderOK
    <3>4. ASSUME NEW i \in 1..Len(s), i < m, s[i].job = q, i # 1
          PROVE  Before(todo'[c], k, q)
      <4>1. i - 1 \in 1..Len(T) /\ T[i - 1] = s[i]
        BY <2>3, <3>4, TailFrom DEF T
      <4>2. /\ Len(V) + (i - 1) \in 1..Len(V \o T)
            /\ (V \o T)[Len(V) + (i - 1)] = T[i - 1]
        BY <2>3, <4>1, ConcatRight
      <4>3. Len(V) + (i - 1) < k
        BY <2>6, <2>9, <3>4
      <4> QED BY <2>4, <3>4, <4>1, <4>2, <4>3 DEF Before
    <3>5. ASSUME q = e, e \in known PROVE Before(todo'[c], k, q)
      <4>1. n + 1 \in 1..Len(V) /\ n + 1 < k
        BY <2>1, <2>9, <3>5
      <4>2. V[n + 1].job = q
        BY <2>1, <3>5
      <4> QED BY <2>7, <4>1, <4>2
    <3>6. ASSUME q = e, e \notin known PROVE isTerminal(state[q])
      BY <3>6 DEF SubtreeInv, ScopeInv, JobInv, RegistryInv, RegistryOK, Settled
    <3> QED BY <1>2, <2>5, <3>3, <3>4, <3>5, <3>6
  <2> QED BY <2>3, <2>4, <2>8, <2>9, ConcatAt
<1>11. OrderOK(c)'
  <2>1. scope'[c] = scope[c]
    BY <1>2
  <2> QED BY <1>1, <1>10, <2>1, OrderKeeps DEF SubtreeInv
<1> QED BY <1>9, <1>11

LEMMA WalkKill ==
  ASSUME JobInv, SubtreeInv, NEW c \in Cancellers, Kill(c), PathOK(c), OrderOK(c)
  PROVE  PathOK(c)' /\ OrderOK(c)'
<1> DEFINE s == todo[c]
           e == Head(s).job
<1>1. [Next]_vars
  BY DEF Next, CancelStep
<1>2. /\ s \in Seq(WorkItem) /\ s # <<>> /\ Head(s).op = "kill"
      /\ todo'[c] = Tail(s) /\ UNCHANGED <<target, scope>>
  BY DEF Kill, JobInv, TypeOK
<1>3. e \in Jobs
  <2>1. Head(s) \in WorkItem
    BY <1>2
  <2> QED BY <2>1 DEF WorkItem
<1>4. isTerminal(state'[e])
  <2>1. state[e] \in Statuses
    BY <1>3 DEF JobInv, TypeOK
  <2>2. state'[e] = IF state[e] = "running" THEN "cancelled" ELSE state[e]
    BY <1>3 DEF Kill, JobInv, TypeOK
  <2> HIDE DEF s, e
  <2> QED BY <2>1, <2>2 DEF Statuses, isTerminal
<1>5. \A j \in scope[c] : isTerminal(state[j]) => isTerminal(state'[j])
  BY <1>1, StaysTerminal DEF SubtreeInv, ScopeInv
<1>6. target'[c] = target[c] /\ scope'[c] = scope[c] /\ Head(s) = s[1]
  BY <1>2
<1> HIDE DEF s, e
<1>7. PathOK(c)'
  <2>1. ASSUME NEW j \in scope[c], NEW n \in Nat, NEW f \in [0..n -> known],
               Path(f, n, target[c], j)
        PROVE  \/ isTerminal(state'[j]) \/ Waiting(todo'[c], "kill", j)
               \/ \E i \in 0..n : Waiting(todo'[c], "enter", f[i])
    <3>1. CASE isTerminal(state[j])
      BY <1>5, <3>1
    <3>2. CASE Waiting(s, "kill", j) /\ j # e
      <4>1. Waiting(Tail(s), "kill", j)
        BY <1>2, <3>2, WaitingTail DEF e
      <4> QED BY <1>2, <4>1
    <3>3. ASSUME NEW i \in 0..n, Waiting(s, "enter", f[i])
          PROVE  Waiting(todo'[c], "enter", f[i])
      <4>1. Waiting(Tail(s), "enter", f[i])
        BY <1>2, <3>3, WaitingTail
      <4> QED BY <1>2, <4>1
    <3>4. \/ isTerminal(state[j]) \/ Waiting(s, "kill", j)
          \/ \E i \in 0..n : Waiting(s, "enter", f[i])
      BY <2>1 DEF PathOK, s
    <3> QED BY <1>4, <3>1, <3>2, <3>3, <3>4
  <2> QED BY <1>1, <1>6, <2>1, PathKeeps DEF SubtreeInv
<1>8. ASSUME NEW k \in 1..Len(todo'[c]), todo'[c][k].op = "kill",
             NEW q \in scope[c], parent[q] = todo'[c][k].job
      PROVE  isTerminal(state'[q]) \/ Before(todo'[c], k, q)
  <2>1. k + 1 \in 1..Len(s) /\ Tail(s)[k] = s[k + 1]
    BY <1>2, <1>8, TailAt
  <2>2. s[k + 1].op = "kill" /\ parent[q] = s[k + 1].job
    BY <1>2, <1>8, <2>1
  <2>3. isTerminal(state[q]) \/ \E i \in 1..Len(s) : i < k + 1 /\ s[i].job = q
    BY <2>1, <2>2 DEF OrderOK, s
  <2>4. ASSUME NEW i \in 1..Len(s), i < k + 1, s[i].job = q, i # 1
        PROVE  Before(todo'[c], k, q)
    <3>1. i - 1 \in 1..Len(Tail(s)) /\ Tail(s)[i - 1] = s[i]
      BY <1>2, <2>4, TailFrom
    <3>2. i - 1 < k
      BY <2>4
    <3> QED BY <1>2, <2>4, <3>1, <3>2 DEF Before
  <2>5. s[1].job = q => q = e
    BY <1>6 DEF e
  <2> QED BY <1>4, <1>5, <2>3, <2>4, <2>5
<1>9. OrderOK(c)'
  BY <1>1, <1>6, <1>8, OrderKeeps DEF SubtreeInv
<1> QED BY <1>7, <1>9

LEMMA WalkStep == JobInv /\ SubtreeInv /\ [Next]_vars => WalkInv'
<1> SUFFICES ASSUME JobInv, SubtreeInv, [Next]_vars, NEW c \in Cancellers, cpc'[c] # "idle"
             PROVE  PathOK(c)' /\ OrderOK(c)'
  BY DEF WalkInv
<1>1. cpc[c] # "idle" => PathOK(c) /\ OrderOK(c)
  BY DEF SubtreeInv, WalkInv
<1>2. ASSUME cpc[c] # "idle", target'[c] = target[c], scope'[c] = scope[c], todo'[c] = todo[c]
      PROVE  PathOK(c)' /\ OrderOK(c)'
  BY <1>1, <1>2, WalkElsewhere DEF SubtreeInv
<1>3. CASE CancelStep(c)
  <2>1. \A t \in Jobs : CancelCall(c, t) => PathOK(c)' /\ OrderOK(c)'
    BY WalkBegins
  <2>2. Enter(c) => PathOK(c)' /\ OrderOK(c)'
    BY <1>1, WalkEnter DEF Enter
  <2>3. Kill(c) => PathOK(c)' /\ OrderOK(c)'
    BY <1>1, WalkKill DEF Kill
  <2>4. Stamp(c) \/ Abort(c) \/ NotifyCancelled(c) => PathOK(c)' /\ OrderOK(c)'
    BY <1>2 DEF Stamp, Abort, NotifyCancelled
  <2>5. ~CancelReturn(c)
    BY DEF CancelReturn, JobInv, TypeOK
  <2> QED BY <1>3, <2>1, <2>2, <2>3, <2>4, <2>5 DEF CancelStep
<1>4. ASSUME NEW d \in Cancellers, d # c, CancelStep(d)
      PROVE  /\ cpc'[c] = cpc[c] /\ target'[c] = target[c]
             /\ scope'[c] = scope[c] /\ todo'[c] = todo[c]
  BY <1>4 DEF CancelStep, CancelCall, Enter, Kill, Stamp, Abort, NotifyCancelled,
              CancelReturn, JobInv, TypeOK
<1>5. UNCHANGED canVars \/ \E d \in Cancellers : CancelStep(d)
  BY JobFrame, WatchFrame, ManagerFrame DEF Next, vars
<1> QED BY <1>2, <1>3, <1>4, <1>5 DEF canVars

LEMMA SubtreeInit == Init => SubtreeInv
BY ParentAssumption DEF Init, SubtreeInv, TreeInv, ScopeInv, WalkInv

LEMMA SubtreeInvariant == Spec => []SubtreeInv
<1>1. JobInv /\ SubtreeInv /\ [Next]_vars => SubtreeInv'
  BY TreeStep, ScopeStep, WalkStep DEF SubtreeInv
<1> QED BY <1>1, SubtreeInit, JobInvariant, PTL DEF Spec

\* What a Cancel guarantees of the tree: when it returns, its target has ended, and
\* so has every job that was registered when it began and hangs below the target on
\* a path of jobs still registered (cancelSubtree, jobs.go:475-503).
THEOREM CancelCoversSubtreeHolds == Spec => []CancelCoversSubtree
<1>1. SubtreeInv /\ TargetInv => CancelCoversSubtree
  <2> SUFFICES ASSUME SubtreeInv, TargetInv, NEW c \in Cancellers, Returning(c),
                      NEW j \in {target[c]} \cup (scope[c] \cap Below(target[c]))
               PROVE  isTerminal(state[j])
    BY DEF CancelCoversSubtree
  <2>1. cpc[c] # "idle" /\ Len(todo[c]) = 0
    BY DEF Returning
  <2>2. ~Waiting(todo[c], "kill", j) /\ \A k : ~Waiting(todo[c], "enter", k)
    BY <2>1 DEF Waiting
  <2>3. CASE j = target[c]
    BY <2>1, <2>3 DEF TargetInv, TargetOK, Pending
  <2>4. CASE j \in scope[c] /\ j \in Below(target[c])
    <3>1. PICK n \in Nat : \E f \in [0..n -> known] : Path(f, n, target[c], j)
      BY <2>4 DEF Below
    <3>2. PathOK(c)
      BY <2>1 DEF SubtreeInv, WalkInv
    <3> QED BY <2>2, <2>4, <3>1, <3>2 DEF PathOK
  <2> QED BY <2>3, <2>4
<1>2. Init => TargetInv
  BY DEF Init, TargetInv, TargetOK
<1> QED BY <1>1, <1>2, TargetStep, SubtreeInvariant, JobInvariant, PTL DEF Spec

\* The walk is depth-first: a job is cancelled after the children it had when the
\* call began (the recursion of cancelSubtree precedes its compare-and-swap).
THEOREM ChildrenBeforeParentHolds == Spec => ChildrenBeforeParent
<1>1. JobInv /\ SubtreeInv /\ [Next]_vars =>
        [\A p \in Jobs : state[p] = "running" /\ state'[p] = "cancelled" =>
           \E c \in Cancellers :
             /\ cpc[c] = "walk" /\ cpc'[c] = "stamp" /\ node'[c] = p
             /\ \A j \in scope[c] : parent[j] = p => isTerminal(state[j])]_vars
  <2> SUFFICES ASSUME JobInv, SubtreeInv, [Next]_vars, NEW p \in Jobs,
                      state[p] = "running", state'[p] = "cancelled"
               PROVE  \E c \in Cancellers :
                        /\ cpc[c] = "walk" /\ cpc'[c] = "stamp" /\ node'[c] = p
                        /\ \A j \in scope[c] : parent[j] = p => isTerminal(state[j])
    OBVIOUS
  <2> USE DEF JobInv, TypeOK
  <2>1. ASSUME NEW j \in Jobs, JobStep(j) PROVE FALSE
    <3>1. ~Finish(j)
      <4>1. Finish(j) => state'[p] \in {state[p], WinState(returned[j])}
        BY DEF Finish
      <4> QED BY <4>1, WinStateType
    <3>2. UNCHANGED state
      BY <2>1, <3>1 DEF JobStep, Request, Register, Launch, OutputReady, RunReturns,
                        Record, Announce, Exit
    <3> QED BY <3>2
  <2>2. \A c \in Cancellers : CancelStep(c) => Kill(c)
    BY DEF CancelStep, CancelCall, Enter, Stamp, Abort, NotifyCancelled, CancelReturn, jobVars
  <2>3. PICK c \in Cancellers : Kill(c)
    BY <2>1, <2>2, WatchFrame, ManagerFrame DEF Next, vars, jobVars
  <2>4. /\ Head(todo[c]).job = p /\ Head(todo[c]).op = "kill" /\ todo[c] # <<>>
        /\ cpc[c] = "walk" /\ cpc'[c] = "stamp" /\ node'[c] = p
    BY <2>3 DEF Kill
  <2>5. todo[c][1].job = p /\ todo[c][1].op = "kill" /\ 1 \in 1..Len(todo[c])
    BY <2>4
  <2>6. OrderOK(c)
    BY <2>4 DEF SubtreeInv, WalkInv
  <2>7. \A j \in scope[c] : parent[j] = p => isTerminal(state[j])
    <3> HIDE DEF JobInv, TypeOK
    <3> QED BY <2>5, <2>6 DEF OrderOK
  <2> QED BY <2>4, <2>7
<1> QED BY <1>1, SubtreeInvariant, JobInvariant, PTL DEF Spec, ChildrenBeforeParent

-------------------------------------------------------------------------------
(* 4. Refinement *)

\* A step that neither starts nor ends a job, nor tells anyone, is a stutter.
LEMMA LifeStutter ==
  ASSUME \A k \in Jobs : /\ Registered(k)' <=> Registered(k)
                         /\ state'[k] = state[k] /\ notes'[k] = notes[k]
  PROVE  UNCHANGED Life!vars
BY DEF Life!vars, LifeStatus, LifeTold

\* Registering a job begins it.
LEMMA LifeRegister ==
  ASSUME JobInv, NEW j \in Jobs, Register(j) PROVE Life!Begin(j)
<1>1. ~Registered(j) /\ Registered(j)' /\ state[j] = "running"
  BY DEF Register, Registered, JobInv, TypeOK, GoroutineInv, GoroutineOK
<1>2. \A k \in Jobs : k # j => (Registered(k)' <=> Registered(k))
  BY DEF Register, Registered, JobInv, TypeOK
<1>3. UNCHANGED <<state, notes>>
  BY DEF Register
<1>4. LifeStatus' = [LifeStatus EXCEPT ![j] = "running"]
  BY <1>1, <1>2, <1>3 DEF LifeStatus
<1>5. LifeStatus[j] = "unborn" /\ LifeTold' = LifeTold
  BY <1>1, <1>3 DEF LifeStatus, LifeTold
<1> QED BY <1>4, <1>5 DEF Life!Begin

\* Winning the race for a registered job ends it.
LEMMA LifeEnd ==
  ASSUME JobInv, NEW j \in Jobs, Registered(j), state[j] = "running",
         NEW s \in {"succeeded", "failed", "cancelled"},
         state' = [state EXCEPT ![j] = s], UNCHANGED notes,
         \A k \in Jobs : Registered(k)' <=> Registered(k)
  PROVE  Life!End(j)
<1>1. LifeStatus' = [LifeStatus EXCEPT ![j] = s]
  BY DEF LifeStatus, JobInv, TypeOK
<1>2. LifeStatus[j] = "running" /\ LifeTold' = LifeTold
  BY DEF LifeStatus, LifeTold
<1> QED BY <1>1, <1>2 DEF Life!End, Life!Endings

\* The call of a notifier tells an ended job's ending.
LEMMA LifeTell ==
  ASSUME JobInv, NEW j \in Jobs, Registered(j), isTerminal(state[j]), notes[j] = <<>>,
         notes' = [notes EXCEPT ![j] = Append(@, state[j])], UNCHANGED state,
         \A k \in Jobs : Registered(k)' <=> Registered(k)
  PROVE  Life!Tell(j)
<1>1. notes'[j] = <<state[j]>> /\ \A k \in Jobs : k # j => notes'[k] = notes[k]
  BY DEF JobInv, TypeOK
<1>2. LifeTold' = [LifeTold EXCEPT ![j] = <<LifeStatus[j]>>]
  BY <1>1 DEF LifeTold, LifeStatus
<1>3. LifeStatus[j] = state[j] /\ LifeTold[j] = <<>> /\ LifeStatus' = LifeStatus
  BY DEF LifeStatus, LifeTold
<1> QED BY <1>2, <1>3 DEF Life!Tell, Life!Endings, isTerminal

LEMMA LifeJobStep ==
  ASSUME JobInv, NEW j \in Jobs, JobStep(j) PROVE [Life!Next]_(Life!vars)
<1> USE DEF JobInv
<1>1. CASE Register(j)
  BY <1>1, LifeRegister DEF Life!Next
<1>2. ASSUME ~Register(j) PROVE \A k \in Jobs : Registered(k)' <=> Registered(k)
  <2> SUFFICES ASSUME NEW k \in Jobs PROVE Registered(k)' <=> Registered(k)
    OBVIOUS
  <2>1. CASE k # j
    BY <2>1, OtherJobs DEF Registered
  <2>2. CASE k = j
    BY <1>2, <2>2 DEF JobStep, Request, Launch, OutputReady, RunReturns, Finish, Record,
                      Announce, Exit, Registered, TypeOK
  <2> QED BY <2>1, <2>2
<1>3. CASE Finish(j)
  <2>1. pc[j] = "returned" /\ UNCHANGED notes /\ ~Register(j)
    BY <1>3 DEF Finish, Register
  <2>2. CASE state[j] = "running"
    <3>1. /\ state' = [state EXCEPT ![j] = WinState(returned[j])]
          /\ WinState(returned[j]) \in {"succeeded", "failed", "cancelled"}
      BY <1>3, <2>2, WinStateType DEF Finish
    <3>2. Life!End(j)
      BY <1>2, <2>1, <2>2, <3>1, LifeEnd DEF Registered
    <3> QED BY <3>2 DEF Life!Next
  <2>3. CASE state[j] # "running"
    <3>1. UNCHANGED state
      BY <1>3, <2>3 DEF Finish
    <3> QED BY <1>2, <2>1, <3>1, LifeStutter
  <2> QED BY <2>2, <2>3
<1>4. CASE Announce(j)
  <2>1. pc[j] = "announce" /\ UNCHANGED state /\ ~Register(j)
    BY <1>4 DEF Announce, Register
  <2>2. state[j] = WinState(returned[j]) /\ notes[j] = <<>>
    BY <2>1 DEF GoroutineInv, GoroutineOK
  <2>3. isTerminal(state[j])
    BY <2>2, WinStateType DEF isTerminal
  <2>4. notes' = [notes EXCEPT ![j] = Append(@, state[j])]
    BY <1>4, <2>2 DEF Announce
  <2>5. Life!Tell(j)
    BY <1>2, <2>1, <2>2, <2>3, <2>4, LifeTell DEF Registered
  <2> QED BY <2>5 DEF Life!Next
<1>5. CASE ~Register(j) /\ ~Finish(j) /\ ~Announce(j)
  <2>1. UNCHANGED <<state, notes>>
    BY <1>5 DEF JobStep, Request, Launch, OutputReady, RunReturns, Record, Exit
  <2> QED BY <1>2, <1>5, <2>1, LifeStutter
<1> QED BY <1>1, <1>3, <1>4, <1>5

LEMMA LifeCancelStep ==
  ASSUME JobInv, NEW c \in Cancellers, CancelStep(c) PROVE [Life!Next]_(Life!vars)
<1> USE DEF JobInv
<1>1. \A k \in Jobs : Registered(k)' <=> Registered(k)
  BY CancelFrame DEF Registered
<1>2. ASSUME UNCHANGED <<state, notes>> PROVE UNCHANGED Life!vars
  BY <1>1, <1>2, LifeStutter
<1>3. CASE Kill(c)
  <2>1. UNCHANGED notes
    BY <1>3 DEF Kill
  <2>2. ASSUME NEW j \in Jobs, Registered(j), state[j] = "running",
               state' = [state EXCEPT ![j] = "cancelled"]
        PROVE  Life!Next
    BY <1>1, <2>1, <2>2, LifeEnd DEF Life!Next
  <2> QED BY <1>2, <1>3, <2>1, <2>2, KillCases
<1>4. CASE NotifyCancelled(c)
  <2>1. /\ node[c] \in Jobs /\ state[node[c]] = "cancelled" /\ notes[node[c]] = <<>>
        /\ UNCHANGED state
    BY <1>4 DEF NotifyCancelled, CancelInv, HoldsOne, Killing
  <2>2. Registered(node[c]) /\ isTerminal(state[node[c]])
    BY <2>1 DEF GoroutineInv, GoroutineOK, isTerminal
  <2>3. notes' = [notes EXCEPT ![node[c]] = Append(@, state[node[c]])]
    BY <1>4, <2>1 DEF NotifyCancelled
  <2>4. \A j \in Jobs : j = node[c] => Life!Tell(j)
    BY <1>1, <2>1, <2>2, <2>3, LifeTell
  <2> QED BY <2>1, <2>4 DEF Life!Next
<1>5. CASE ~Kill(c) /\ ~NotifyCancelled(c)
  BY <1>2, <1>5 DEF CancelStep, CancelCall, Enter, Stamp, Abort, CancelReturn, jobVars
<1> QED BY <1>3, <1>4, <1>5

LEMMA LifeInit == Init => Life!Init
BY DEF Init, Life!Init, LifeStatus, LifeTold, Registered

LEMMA LifeStep == JobInv /\ [Next]_vars => [Life!Next]_(Life!vars)
<1>1. ASSUME UNCHANGED jobVars PROVE UNCHANGED Life!vars
  BY <1>1, LifeStutter DEF jobVars, Registered
<1> QED BY <1>1, LifeJobStep, LifeCancelStep, WatchFrame, ManagerFrame DEF Next, vars

\* Each job begins, ends once in one status, and its notifier is told that status
\* at most once: the registry implements JobLifecycle.
THEOREM ImplementsLifecycle == Spec => LifecycleSafety
BY LifeInit, LifeStep, JobInvariant, PTL DEF Spec, LifecycleSafety, Life!Spec
===============================================================================
