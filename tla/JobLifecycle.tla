----------------------------- MODULE JobLifecycle -----------------------------
(***************************************************************************)
(* What the background-job registry promises of each job, whatever         *)
(* goroutines implement it: a job runs, ends once and for good in one      *)
(* status, and its notifier is told that status exactly once.              *)
(***************************************************************************)
CONSTANT Jobs

VARIABLES
  status,        \* the lifecycle state of each job, "unborn" before Start
  told           \* every status its notifier was given, in order

vars == <<status, told>>

Endings == {"succeeded", "failed", "cancelled"}

Init ==
  /\ status = [j \in Jobs |-> "unborn"]
  /\ told   = [j \in Jobs |-> <<>>]

Begin(j) ==
  /\ status[j] = "unborn"
  /\ status' = [status EXCEPT ![j] = "running"]
  /\ UNCHANGED told

\* End must name an ending of the job; which of several racing ones is open.
End(j) ==
  /\ status[j] = "running"
  /\ \E s \in Endings : status' = [status EXCEPT ![j] = s]
  /\ UNCHANGED told

Tell(j) ==
  /\ status[j] \in Endings
  /\ told[j] = <<>>
  /\ told' = [told EXCEPT ![j] = <<status[j]>>]
  /\ UNCHANGED status

Next == \E j \in Jobs : Begin(j) \/ End(j) \/ Tell(j)

Spec     == Init /\ [][Next]_vars
FairSpec == Spec /\ \A j \in Jobs : WF_vars(Tell(j))
===============================================================================
