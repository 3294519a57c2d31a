------------------------- MODULE SandboxLifecycleProofs -------------------------
(***************************************************************************)
(* The safety properties of SandboxLifecycle, for any number of processes, *)
(* pids and calls and any bounds.                                          *)
(***************************************************************************)
EXTENDS SandboxLifecycle, TLAPS

-------------------------------------------------------------------------------
(* The parts of the inductive invariant *)

Early == {"idle", "create", "cleanup", "backoff"}

\* A call may make another attempt only while it has some left, and cleans up
\* after the one it has just made.
Counting ==
  \A c \in Calls :
    /\ pc[c] \in {"idle", "create", "backoff"} => attempt[c] < MaxAttempts
    /\ pc[c] = "cleanup" => partials[c] >= 1
    /\ ~Went(c, {"partial"}) => partials[c] = IF pc[c] = "cleanup" THEN 1 ELSE 0

\* Identities tell processes apart, and those of live processes are of this boot.
Named ==
  /\ \A i \in Processes : proc[i] # "off" => owner[i] \in Identities
  /\ \A i \in Processes : Live(i) => owner[i].boot = boot
  /\ \A i, j \in Processes :
       i # j /\ proc[i] # "off" /\ proc[j] # "off" => owner[i] # owner[j]

\* A call that has begun belongs to a process that serves, or did when it died; it
\* has neither container before it was launched.
Belonging ==
  \A c \in Calls :
    /\ pc[c] = "idle" => by[c] = NoProcess
    /\ pc[c] # "idle" => by[c] \in Processes /\ proc[by[c]] \in {"serving", "dead"}
    /\ pc[c] \in Early => c \notin boxes /\ c \notin sides
    /\ pc[c] = "sidecar" => c \notin sides

\* What a sweep has listed has been launched; what it reaps and what it noted as
\* an orphan has a dead owner.
Sweeping ==
  \A i \in Processes :
    /\ \A c \in todo[i] \cup orphans[i] : pc[c] \notin Early
    /\ \A c \in orphans[i] : proc[by[c]] = "dead"
    /\ proc[i] \in {"reapRemove", "reapKill"} =>
         /\ reaped[i] \in Calls /\ pc[reaped[i]] \notin Early
         /\ proc[by[reaped[i]]] = "dead"
    /\ proc[i] \notin {"reapRemove", "reapKill"} => reaped[i] = NoCall
    /\ proc[i] \in {"off", "list"} => orphans[i] = {}

\* Before a sandbox is killed its sidecar is gone, or there is a reason.
SidecarFirst ==
  /\ \A i \in Processes : proc[i] = "reapKill" /\ reaped[i] \in sides =>
       Went(reaped[i], {"remove", "ttl", "cut"})
  /\ \A c \in sides : pc[c] = "kill" => Went(c, {"remove", "ttl", "cut"})
  /\ \A c \in sides : pc[c] = "destroyKill" => c \in cancelled \/ Went(c, {"remove", "ttl", "cut"})

\* An orphan is yet to be looked at or being reaped, or it is gone.
SweepCovers ==
  \A i \in Processes : \A c \in orphans[i] \cap boxes :
    proc[i] # "dead" => c \in todo[i] \/ c = reaped[i] \/ Went(c, {"kill"})

LifeInv ==
  /\ TypeOK /\ Counting /\ Named /\ Belonging /\ Sweeping
  /\ InUseIsUp /\ SidecarFirst /\ NoPinned /\ NoStray /\ SweepCovers /\ ReapComplete

USE DEF Early, Sweep, Live, Served, Went, Identities, label

\* Every step keeps the types; the half-made sandboxes need Counting.
LEMMA TypeStep ==
  ASSUME LifeInv, Next
  PROVE  TypeOK'
<1> USE NoCallAssumption, NoProcessAssumption, NoOwnerAssumption, AttemptsAssumption,
        BoundsAssumption
    DEF LifeInv, TypeOK, Counting, Sweeping, Goto, Become, Step, Mishap, Fault,
        hostVars, processVars, callVars, containers, faultVars
<1>1. ASSUME Tick \/ Reboot PROVE TypeOK'
  <2>1. CASE Tick
    BY <2>1 DEF Tick
  <2>2. CASE Reboot
    BY <2>2 DEF Reboot, Perish
  <2> QED
    BY <1>1, <2>1, <2>2
<1>2. ASSUME NEW i \in Processes, Start(i) \/ Die(i) PROVE TypeOK'
  <2>1. CASE Start(i)
    BY <2>1 DEF Start
  <2>2. CASE Die(i)
    BY <2>2 DEF Die, Perish
  <2> QED
    BY <1>2, <2>1, <2>2
<1>3. ASSUME NEW c \in Calls, Expire(c) PROVE TypeOK'
  BY <1>3 DEF Expire
<1>4. ASSUME NEW i \in Processes, List(i) \/ ListFails(i) \/ Serve(i) PROVE TypeOK'
  <2>1. CASE List(i)
    BY <2>1 DEF List
  <2>2. CASE ListFails(i)
    BY <2>2 DEF ListFails
  <2>3. CASE Serve(i)
    BY <2>3 DEF Serve
  <2> QED
    BY <1>4, <2>1, <2>2, <2>3
<1>5. ASSUME NEW i \in Processes, NEW c \in Calls, Keep(i, c) \/ Reap(i, c)
               PROVE TypeOK'
  <2>1. CASE Keep(i, c)
    BY <2>1 DEF Keep, reaps, processAlive
  <2>2. CASE Reap(i, c)
    BY <2>2 DEF Reap, reaps, processAlive
  <2> QED
    BY <1>5, <2>1, <2>2
<1>6. ASSUME NEW i \in Processes, ReapRemove(i) \/ ReapRemoveFails(i) \/ ReapKill(i)
               \/ ReapKillFails(i) PROVE TypeOK'
  <2>1. CASE ReapRemove(i)
    BY <2>1 DEF ReapRemove
  <2>2. CASE ReapRemoveFails(i)
    BY <2>2 DEF ReapRemoveFails
  <2>3. CASE ReapKill(i)
    BY <2>3 DEF ReapKill
  <2>4. CASE ReapKillFails(i)
    BY <2>4 DEF ReapKillFails
  <2> QED
    BY <1>6, <2>1, <2>2, <2>3, <2>4
<1>7. ASSUME NEW c \in Calls, Begin(c) \/ Cancel(c) PROVE TypeOK'
  <2>1. CASE Begin(c)
    BY <2>1 DEF Begin
  <2>2. CASE Cancel(c)
    BY <2>2 DEF Cancel
  <2> QED
    BY <1>7, <2>1, <2>2
<1>8. ASSUME NEW c \in Calls, launchSandbox(c) PROVE TypeOK'
  <2>1. CASE CreateOk(c)
    BY <2>1 DEF CreateOk
  <2>2. CASE CreateFails(c)
    BY <2>2 DEF CreateFails
  <2>3. CASE CreateUnheard(c)
    BY <2>3 DEF CreateUnheard, Abandoned
  <2>4. CASE CreateTransient(c)
    BY <2>4 DEF CreateTransient
  <2>5. CASE RemovePartial(c)
    BY <2>5 DEF RemovePartial, AfterCleanup
  <2>6. CASE RemovePartialFails(c)
    BY <2>6 DEF RemovePartialFails, AfterCleanup
  <2>7. CASE Retry(c)
    BY <2>7 DEF Retry
  <2>8. CASE BackoffCancelled(c)
    BY <2>8 DEF BackoffCancelled
  <2> QED
    BY <1>8, <2>1, <2>2, <2>3, <2>4, <2>5, <2>6, <2>7, <2>8 DEF launchSandbox
<1>9. ASSUME NEW c \in Calls, startSidecar(c) PROVE TypeOK'
  <2>1. CASE RunSidecar(c)
    BY <2>1 DEF RunSidecar
  <2>2. CASE SidecarFails(c)
    BY <2>2 DEF SidecarFails
  <2>3. CASE SidecarCut(c)
    BY <2>3 DEF SidecarCut, Abandoned
  <2>4. CASE Verify(c)
    BY <2>4 DEF Verify
  <2>5. CASE VerifyFails(c)
    BY <2>5 DEF VerifyFails
  <2> QED
    BY <1>9, <2>1, <2>2, <2>3, <2>4, <2>5 DEF startSidecar
<1>10. ASSUME NEW c \in Calls, teardown(c) PROVE TypeOK'
  BY <1>10 DEF teardown, Command, Remove, RemoveFails, Kill, KillFails
<1>11. ASSUME NEW c \in Calls, destroy(c) PROVE TypeOK'
  <2>1. CASE Destroy(c)
    BY <2>1 DEF Destroy
  <2>2. CASE DestroyRemove(c)
    BY <2>2 DEF DestroyRemove
  <2>3. CASE DestroyRemoveFails(c)
    BY <2>3 DEF DestroyRemoveFails
  <2>4. CASE DestroyKill(c)
    BY <2>4 DEF DestroyKill
  <2>5. CASE DestroyKillFails(c)
    BY <2>5 DEF DestroyKillFails
  <2> QED
    BY <1>11, <2>1, <2>2, <2>3, <2>4, <2>5 DEF destroy
<1> QED
  BY <1>1, <1>2, <1>3, <1>4, <1>5, <1>6, <1>7, <1>8, <1>9, <1>10, <1>11 DEF Next, ReapOrphans

\* A cleaned-up attempt leaves nothing, and a failed clean-up is a mishap.
LEMMA CountingStep ==
  ASSUME LifeInv, Next
  PROVE  Counting'
<1> USE NoCallAssumption, NoProcessAssumption, NoOwnerAssumption, AttemptsAssumption,
        BoundsAssumption
    DEF LifeInv, TypeOK, Counting, Belonging, Goto, Become, Step, Mishap, Fault,
        hostVars, processVars, callVars, containers, faultVars
<1>1. ASSUME Tick \/ Reboot PROVE Counting'
  BY <1>1 DEF Tick, Reboot, Perish
<1>2. ASSUME NEW i \in Processes, Start(i) \/ Die(i) PROVE Counting'
  BY <1>2 DEF Start, Die, Perish
<1>3. ASSUME NEW c \in Calls, Expire(c) PROVE Counting'
  BY <1>3 DEF Expire
<1>4. ASSUME NEW i \in Processes, List(i) \/ ListFails(i) \/ Serve(i) PROVE Counting'
  BY <1>4 DEF List, ListFails, Serve
<1>5. ASSUME NEW i \in Processes, NEW c \in Calls, Keep(i, c) \/ Reap(i, c)
               PROVE Counting'
  BY <1>5 DEF Keep, Reap, reaps, processAlive
<1>6. ASSUME NEW i \in Processes, ReapRemove(i) \/ ReapRemoveFails(i) \/ ReapKill(i)
               \/ ReapKillFails(i) PROVE Counting'
  BY <1>6 DEF ReapRemove, ReapRemoveFails, ReapKill, ReapKillFails
<1>7. ASSUME NEW c \in Calls, Begin(c) \/ Cancel(c) PROVE Counting'
  BY <1>7 DEF Begin, Cancel
<1>8. ASSUME NEW c \in Calls, launchSandbox(c) PROVE Counting'
  <2>1. CASE CreateOk(c)
    BY <2>1 DEF CreateOk
  <2>2. CASE CreateFails(c)
    BY <2>2 DEF CreateFails
  <2>3. CASE CreateUnheard(c)
    BY <2>3 DEF CreateUnheard, Abandoned
  <2>4. CASE CreateTransient(c)
    BY <2>4 DEF CreateTransient
  <2>5. CASE RemovePartial(c)
    <3>1. /\ pc[c] = "cleanup" /\ pc'[c] = AfterCleanup(c)
          /\ partials'[c] = partials[c] - 1 /\ attempt' = attempt /\ mishaps' = mishaps
      BY <2>5 DEF RemovePartial
    <3>2. pc'[c] = "done" \/ (pc'[c] = "backoff" /\ attempt[c] < MaxAttempts)
      <4>1. MaxAttempts \in Nat /\ attempt[c] \in 0..MaxAttempts
        OBVIOUS
      <4>2. attempt[c] = MaxAttempts \/ attempt[c] < MaxAttempts
        BY ONLY <4>1
      <4>3. pc'[c] = AfterCleanup(c)
        BY <3>1
      <4> QED
        BY ONLY <4>2, <4>3 DEF AfterCleanup
    <3>3. \A d \in Calls : d # c => pc'[d] = pc[d] /\ partials'[d] = partials[d]
      BY <2>5 DEF RemovePartial
    <3> QED
      BY <3>1, <3>2, <3>3
  <2>6. CASE RemovePartialFails(c)
    <3>1. /\ pc[c] = "cleanup" /\ pc'[c] = AfterCleanup(c) /\ "partial" \in mishaps'[c]
          /\ partials' = partials /\ attempt' = attempt
      BY <2>6 DEF RemovePartialFails
    <3>2. pc'[c] = "done" \/ (pc'[c] = "backoff" /\ attempt[c] < MaxAttempts)
      <4>1. MaxAttempts \in Nat /\ attempt[c] \in 0..MaxAttempts
        OBVIOUS
      <4>2. attempt[c] = MaxAttempts \/ attempt[c] < MaxAttempts
        BY ONLY <4>1
      <4>3. pc'[c] = AfterCleanup(c)
        BY <3>1
      <4> QED
        BY ONLY <4>2, <4>3 DEF AfterCleanup
    <3>3. \A d \in Calls : d # c => pc'[d] = pc[d] /\ mishaps'[d] = mishaps[d]
      BY <2>6 DEF RemovePartialFails
    <3> QED
      BY <3>1, <3>2, <3>3
  <2>7. CASE Retry(c)
    BY <2>7 DEF Retry
  <2>8. CASE BackoffCancelled(c)
    BY <2>8 DEF BackoffCancelled
  <2> QED
    BY <1>8, <2>1, <2>2, <2>3, <2>4, <2>5, <2>6, <2>7, <2>8 DEF launchSandbox
<1>9. ASSUME NEW c \in Calls, startSidecar(c) PROVE Counting'
  BY <1>9 DEF startSidecar, RunSidecar, SidecarFails, SidecarCut, Verify, VerifyFails,
    Abandoned
<1>10. ASSUME NEW c \in Calls, teardown(c) PROVE Counting'
  BY <1>10 DEF teardown, Command, Remove, RemoveFails, Kill, KillFails
<1>11. ASSUME NEW c \in Calls, destroy(c) PROVE Counting'
  BY <1>11 DEF destroy, Destroy, DestroyRemove, DestroyRemoveFails, DestroyKill,
    DestroyKillFails
<1> QED
  BY <1>1, <1>2, <1>3, <1>4, <1>5, <1>6, <1>7, <1>8, <1>9, <1>10, <1>11 DEF Next, ReapOrphans

\* A new process has a new identity, and a reboot leaves no live process.
LEMMA NamedStep ==
  ASSUME LifeInv, Next
  PROVE  Named'
<1> USE NoCallAssumption, NoProcessAssumption, NoOwnerAssumption, AttemptsAssumption,
        BoundsAssumption
    DEF LifeInv, TypeOK, Named, Goto, Become, Step, Mishap, Fault,
        hostVars, processVars, callVars, containers, faultVars
<1>1. ASSUME Tick \/ Reboot PROVE Named'
  <2>1. CASE Tick
    BY <2>1 DEF Tick
  <2>2. CASE Reboot
    BY <2>2 DEF Reboot, Perish
  <2> QED
    BY <1>1, <2>1, <2>2
<1>2. ASSUME NEW i \in Processes, Start(i) \/ Die(i) PROVE Named'
  <2>1. CASE Start(i)
    BY <2>1 DEF Start
  <2>2. CASE Die(i)
    BY <2>2 DEF Die, Perish
  <2> QED
    BY <1>2, <2>1, <2>2
<1>3. ASSUME NEW c \in Calls, Expire(c) PROVE Named'
  BY <1>3 DEF Expire
<1>4. ASSUME NEW i \in Processes, List(i) \/ ListFails(i) \/ Serve(i) PROVE Named'
  BY <1>4 DEF List, ListFails, Serve
<1>5. ASSUME NEW i \in Processes, NEW c \in Calls, Keep(i, c) \/ Reap(i, c) PROVE Named'
  BY <1>5 DEF Keep, Reap, reaps, processAlive
<1>6. ASSUME NEW i \in Processes, ReapRemove(i) \/ ReapRemoveFails(i) \/ ReapKill(i)
               \/ ReapKillFails(i) PROVE Named'
  BY <1>6 DEF ReapRemove, ReapRemoveFails, ReapKill, ReapKillFails
<1>7. ASSUME NEW c \in Calls, Begin(c) \/ Cancel(c) PROVE Named'
  BY <1>7 DEF Begin, Cancel
<1>8. ASSUME NEW c \in Calls, launchSandbox(c) PROVE Named'
  BY <1>8 DEF launchSandbox, CreateOk, CreateFails, CreateUnheard, CreateTransient,
    RemovePartial, RemovePartialFails, Retry, BackoffCancelled, Abandoned, AfterCleanup
<1>9. ASSUME NEW c \in Calls, startSidecar(c) PROVE Named'
  BY <1>9 DEF startSidecar, RunSidecar, SidecarFails, SidecarCut, Verify, VerifyFails,
    Abandoned
<1>10. ASSUME NEW c \in Calls, teardown(c) PROVE Named'
  BY <1>10 DEF teardown, Command, Remove, RemoveFails, Kill, KillFails
<1>11. ASSUME NEW c \in Calls, destroy(c) PROVE Named'
  BY <1>11 DEF destroy, Destroy, DestroyRemove, DestroyRemoveFails, DestroyKill,
    DestroyKillFails
<1> QED
  BY <1>1, <1>2, <1>3, <1>4, <1>5, <1>6, <1>7, <1>8, <1>9, <1>10, <1>11 DEF Next, ReapOrphans

\* Only a launch makes a container, and only a serving process launches.
LEMMA BelongingStep ==
  ASSUME LifeInv, Next
  PROVE  Belonging'
<1> USE NoCallAssumption, NoProcessAssumption, NoOwnerAssumption, AttemptsAssumption,
        BoundsAssumption
    DEF LifeInv, TypeOK, Belonging, Goto, Become, Step, Mishap, Fault,
        hostVars, processVars, callVars, containers, faultVars
<1>1. ASSUME Tick \/ Reboot PROVE Belonging'
  BY <1>1 DEF Tick, Reboot, Perish
<1>2. ASSUME NEW i \in Processes, Start(i) \/ Die(i) PROVE Belonging'
  BY <1>2 DEF Start, Die, Perish
<1>3. ASSUME NEW c \in Calls, Expire(c) PROVE Belonging'
  BY <1>3 DEF Expire
<1>4. ASSUME NEW i \in Processes, List(i) \/ ListFails(i) \/ Serve(i) PROVE Belonging'
  BY <1>4 DEF List, ListFails, Serve
<1>5. ASSUME NEW i \in Processes, NEW c \in Calls, Keep(i, c) \/ Reap(i, c)
               PROVE Belonging'
  BY <1>5 DEF Keep, Reap, reaps, processAlive
<1>6. ASSUME NEW i \in Processes, ReapRemove(i) \/ ReapRemoveFails(i) \/ ReapKill(i)
               \/ ReapKillFails(i) PROVE Belonging'
  BY <1>6 DEF ReapRemove, ReapRemoveFails, ReapKill, ReapKillFails
<1>7. ASSUME NEW c \in Calls, Begin(c) \/ Cancel(c) PROVE Belonging'
  BY <1>7 DEF Begin, Cancel
<1>8. ASSUME NEW c \in Calls, launchSandbox(c) PROVE Belonging'
  BY <1>8 DEF launchSandbox, CreateOk, CreateFails, CreateUnheard, CreateTransient,
    RemovePartial, RemovePartialFails, Retry, BackoffCancelled, Abandoned, AfterCleanup
<1>9. ASSUME NEW c \in Calls, startSidecar(c) PROVE Belonging'
  BY <1>9 DEF startSidecar, RunSidecar, SidecarFails, SidecarCut, Verify, VerifyFails,
    Abandoned
<1>10. ASSUME NEW c \in Calls, teardown(c) PROVE Belonging'
  BY <1>10 DEF teardown, Command, Remove, RemoveFails, Kill, KillFails
<1>11. ASSUME NEW c \in Calls, destroy(c) PROVE Belonging'
  BY <1>11 DEF destroy, Destroy, DestroyRemove, DestroyRemoveFails, DestroyKill,
    DestroyKillFails
<1> QED
  BY <1>1, <1>2, <1>3, <1>4, <1>5, <1>6, <1>7, <1>8, <1>9, <1>10, <1>11 DEF Next, ReapOrphans

\* classifyOwner gives verdictReap for dead owners only.
LEMMA SweepingStep ==
  ASSUME LifeInv, Next
  PROVE  Sweeping'
<1> USE NoCallAssumption, NoProcessAssumption, NoOwnerAssumption, AttemptsAssumption,
        BoundsAssumption
    DEF LifeInv, TypeOK, Belonging, Named, Sweeping, Goto, Become, Step, Mishap, Fault,
        hostVars, processVars, callVars, containers, faultVars
<1>1. ASSUME Tick \/ Reboot PROVE Sweeping'
  BY <1>1 DEF Tick, Reboot, Perish
<1>2. ASSUME NEW i \in Processes, Start(i) \/ Die(i) PROVE Sweeping'
  BY <1>2 DEF Start, Die, Perish
<1>3. ASSUME NEW c \in Calls, Expire(c) PROVE Sweeping'
  BY <1>3 DEF Expire
<1>4. ASSUME NEW i \in Processes, List(i) \/ ListFails(i) \/ Serve(i) PROVE Sweeping'
  BY <1>4 DEF List, ListFails, Serve
<1>5. ASSUME NEW i \in Processes, NEW c \in Calls, Keep(i, c) \/ Reap(i, c)
               PROVE Sweeping'
  <2>1. CASE Keep(i, c)
    BY <2>1 DEF Keep, reaps, processAlive
  <2>2. CASE Reap(i, c)
    BY <2>2 DEF Reap, reaps, processAlive
  <2> QED
    BY <1>5, <2>1, <2>2
<1>6. ASSUME NEW i \in Processes, ReapRemove(i) \/ ReapRemoveFails(i) \/ ReapKill(i)
               \/ ReapKillFails(i) PROVE Sweeping'
  BY <1>6 DEF ReapRemove, ReapRemoveFails, ReapKill, ReapKillFails
<1>7. ASSUME NEW c \in Calls, Begin(c) \/ Cancel(c) PROVE Sweeping'
  <2>1. CASE Begin(c)
    BY <2>1 DEF Begin
  <2>2. CASE Cancel(c)
    BY <2>2 DEF Cancel
  <2> QED
    BY <1>7, <2>1, <2>2
<1>8. ASSUME NEW c \in Calls, launchSandbox(c) PROVE Sweeping'
  BY <1>8 DEF launchSandbox, CreateOk, CreateFails, CreateUnheard, CreateTransient,
    RemovePartial, RemovePartialFails, Retry, BackoffCancelled, Abandoned, AfterCleanup
<1>9. ASSUME NEW c \in Calls, startSidecar(c) PROVE Sweeping'
  BY <1>9 DEF startSidecar, RunSidecar, SidecarFails, SidecarCut, Verify, VerifyFails,
    Abandoned
<1>10. ASSUME NEW c \in Calls, teardown(c) PROVE Sweeping'
  BY <1>10 DEF teardown, Command, Remove, RemoveFails, Kill, KillFails
<1>11. ASSUME NEW c \in Calls, destroy(c) PROVE Sweeping'
  BY <1>11 DEF destroy, Destroy, DestroyRemove, DestroyRemoveFails, DestroyKill,
    DestroyKillFails
<1> QED
  BY <1>1, <1>2, <1>3, <1>4, <1>5, <1>6, <1>7, <1>8, <1>9, <1>10, <1>11 DEF Next, ReapOrphans

\* The sweep takes dead owners' sandboxes; a live call removes its own.
LEMMA InUseStep ==
  ASSUME LifeInv, Next
  PROVE  InUseIsUp'
<1> USE NoCallAssumption, NoProcessAssumption, NoOwnerAssumption, AttemptsAssumption,
        BoundsAssumption
    DEF LifeInv, TypeOK, Belonging, Sweeping, InUseIsUp, Goto, Become, Step, Mishap, Fault,
        hostVars, processVars, callVars, containers, faultVars
<1>1. ASSUME Tick \/ Reboot PROVE InUseIsUp'
  BY <1>1 DEF Tick, Reboot, Perish
<1>2. ASSUME NEW i \in Processes, Start(i) \/ Die(i) PROVE InUseIsUp'
  BY <1>2 DEF Start, Die, Perish
<1>3. ASSUME NEW c \in Calls, Expire(c) PROVE InUseIsUp'
  BY <1>3 DEF Expire
<1>4. ASSUME NEW i \in Processes, List(i) \/ ListFails(i) \/ Serve(i) PROVE InUseIsUp'
  BY <1>4 DEF List, ListFails, Serve
<1>5. ASSUME NEW i \in Processes, NEW c \in Calls, Keep(i, c) \/ Reap(i, c)
               PROVE InUseIsUp'
  BY <1>5 DEF Keep, Reap, reaps, processAlive
<1>6. ASSUME NEW i \in Processes, ReapRemove(i) \/ ReapRemoveFails(i) \/ ReapKill(i)
               \/ ReapKillFails(i) PROVE InUseIsUp'
  <2>1. CASE ReapRemove(i)
    BY <2>1 DEF ReapRemove
  <2>2. CASE ReapRemoveFails(i)
    BY <2>2 DEF ReapRemoveFails
  <2>3. CASE ReapKill(i)
    BY <2>3 DEF ReapKill
  <2>4. CASE ReapKillFails(i)
    BY <2>4 DEF ReapKillFails
  <2> QED
    BY <1>6, <2>1, <2>2, <2>3, <2>4
<1>7. ASSUME NEW c \in Calls, Begin(c) \/ Cancel(c) PROVE InUseIsUp'
  BY <1>7 DEF Begin, Cancel
<1>8. ASSUME NEW c \in Calls, launchSandbox(c) PROVE InUseIsUp'
  BY <1>8 DEF launchSandbox, CreateOk, CreateFails, CreateUnheard, CreateTransient,
    RemovePartial, RemovePartialFails, Retry, BackoffCancelled, Abandoned, AfterCleanup
<1>9. ASSUME NEW c \in Calls, startSidecar(c) PROVE InUseIsUp'
  BY <1>9 DEF startSidecar, RunSidecar, SidecarFails, SidecarCut, Verify, VerifyFails,
    Abandoned
<1>10. ASSUME NEW c \in Calls, teardown(c) PROVE InUseIsUp'
  BY <1>10 DEF teardown, Command, Remove, RemoveFails, Kill, KillFails
<1>11. ASSUME NEW c \in Calls, destroy(c) PROVE InUseIsUp'
  BY <1>11 DEF destroy, Destroy, DestroyRemove, DestroyRemoveFails, DestroyKill,
    DestroyKillFails
<1> QED
  BY <1>1, <1>2, <1>3, <1>4, <1>5, <1>6, <1>7, <1>8, <1>9, <1>10, <1>11 DEF Next, ReapOrphans

\* Each way to a kill leads past the removal of the sidecar or past a mishap.
LEMMA SidecarFirstStep ==
  ASSUME LifeInv, Next
  PROVE  SidecarFirst'
<1> USE NoCallAssumption, NoProcessAssumption, NoOwnerAssumption, AttemptsAssumption,
        BoundsAssumption
    DEF LifeInv, TypeOK, Belonging, Sweeping, SidecarFirst, Goto, Become, Step, Mishap, Fault,
        hostVars, processVars, callVars, containers, faultVars
<1>1. ASSUME Tick \/ Reboot PROVE SidecarFirst'
  BY <1>1 DEF Tick, Reboot, Perish
<1>2. ASSUME NEW i \in Processes, Start(i) \/ Die(i) PROVE SidecarFirst'
  BY <1>2 DEF Start, Die, Perish
<1>3. ASSUME NEW c \in Calls, Expire(c) PROVE SidecarFirst'
  BY <1>3 DEF Expire
<1>4. ASSUME NEW i \in Processes, List(i) \/ ListFails(i) \/ Serve(i)
               PROVE SidecarFirst'
  BY <1>4 DEF List, ListFails, Serve
<1>5. ASSUME NEW i \in Processes, NEW c \in Calls, Keep(i, c) \/ Reap(i, c)
               PROVE SidecarFirst'
  BY <1>5 DEF Keep, Reap, reaps, processAlive
<1>6. ASSUME NEW i \in Processes, ReapRemove(i) \/ ReapRemoveFails(i) \/ ReapKill(i)
               \/ ReapKillFails(i) PROVE SidecarFirst'
  <2>1. CASE ReapRemove(i)
    BY <2>1 DEF ReapRemove
  <2>2. CASE ReapRemoveFails(i)
    BY <2>2 DEF ReapRemoveFails
  <2>3. CASE ReapKill(i)
    BY <2>3 DEF ReapKill
  <2>4. CASE ReapKillFails(i)
    BY <2>4 DEF ReapKillFails
  <2> QED
    BY <1>6, <2>1, <2>2, <2>3, <2>4
<1>7. ASSUME NEW c \in Calls, Begin(c) \/ Cancel(c) PROVE SidecarFirst'
  BY <1>7 DEF Begin, Cancel
<1>8. ASSUME NEW c \in Calls, launchSandbox(c) PROVE SidecarFirst'
  <2>1. CASE CreateOk(c)
    BY <2>1 DEF CreateOk
  <2>2. CASE CreateFails(c)
    BY <2>2 DEF CreateFails
  <2>3. CASE CreateUnheard(c)
    BY <2>3 DEF CreateUnheard, Abandoned
  <2>4. CASE CreateTransient(c)
    BY <2>4 DEF CreateTransient
  <2>5. CASE RemovePartial(c)
    BY <2>5 DEF RemovePartial, AfterCleanup
  <2>6. CASE RemovePartialFails(c)
    BY <2>6 DEF RemovePartialFails, AfterCleanup
  <2>7. CASE Retry(c)
    BY <2>7 DEF Retry
  <2>8. CASE BackoffCancelled(c)
    BY <2>8 DEF BackoffCancelled
  <2> QED
    BY <1>8, <2>1, <2>2, <2>3, <2>4, <2>5, <2>6, <2>7, <2>8 DEF launchSandbox
<1>9. ASSUME NEW c \in Calls, startSidecar(c) PROVE SidecarFirst'
  <2>1. CASE RunSidecar(c)
    BY <2>1 DEF RunSidecar
  <2>2. CASE SidecarFails(c)
    BY <2>2 DEF SidecarFails
  <2>3. CASE SidecarCut(c)
    BY <2>3 DEF SidecarCut, Abandoned
  <2>4. CASE Verify(c)
    BY <2>4 DEF Verify
  <2>5. CASE VerifyFails(c)
    BY <2>5 DEF VerifyFails
  <2> QED
    BY <1>9, <2>1, <2>2, <2>3, <2>4, <2>5 DEF startSidecar
<1>10. ASSUME NEW c \in Calls, teardown(c) PROVE SidecarFirst'
  <2>1. CASE Command(c)
    BY <2>1 DEF Command
  <2>2. CASE Remove(c)
    BY <2>2 DEF Remove
  <2>3. CASE RemoveFails(c)
    BY <2>3 DEF RemoveFails
  <2>4. CASE Kill(c)
    BY <2>4 DEF Kill
  <2>5. CASE KillFails(c)
    BY <2>5 DEF KillFails
  <2> QED
    BY <1>10, <2>1, <2>2, <2>3, <2>4, <2>5 DEF teardown
<1>11. ASSUME NEW c \in Calls, destroy(c) PROVE SidecarFirst'
  <2>1. CASE Destroy(c)
    BY <2>1 DEF Destroy
  <2>2. CASE DestroyRemove(c)
    BY <2>2 DEF DestroyRemove
  <2>3. CASE DestroyRemoveFails(c)
    <3>1. CASE c \in cancelled
      BY <2>3, <3>1 DEF DestroyRemoveFails
    <3>2. CASE c \notin cancelled
      BY <2>3, <3>2 DEF DestroyRemoveFails
    <3> QED
      BY <3>1, <3>2
  <2>4. CASE DestroyKill(c)
    BY <2>4 DEF DestroyKill
  <2>5. CASE DestroyKillFails(c)
    BY <2>5 DEF DestroyKillFails
  <2> QED
    BY <1>11, <2>1, <2>2, <2>3, <2>4, <2>5 DEF destroy
<1> QED
  BY <1>1, <1>2, <1>3, <1>4, <1>5, <1>6, <1>7, <1>8, <1>9, <1>10, <1>11 DEF Next, ReapOrphans

\* A sandbox goes after its sidecar.
LEMMA NoPinnedStep ==
  ASSUME LifeInv, Next
  PROVE  NoPinned'
<1> USE NoCallAssumption, NoProcessAssumption, NoOwnerAssumption, AttemptsAssumption,
        BoundsAssumption
    DEF LifeInv, TypeOK, Belonging, Sweeping, SidecarFirst, NoPinned, Goto, Become, Step, Mishap, Fault,
        hostVars, processVars, callVars, containers, faultVars
<1>1. ASSUME Tick \/ Reboot PROVE NoPinned'
  BY <1>1 DEF Tick, Reboot, Perish
<1>2. ASSUME NEW i \in Processes, Start(i) \/ Die(i) PROVE NoPinned'
  BY <1>2 DEF Start, Die, Perish
<1>3. ASSUME NEW c \in Calls, Expire(c) PROVE NoPinned'
  BY <1>3 DEF Expire
<1>4. ASSUME NEW i \in Processes, List(i) \/ ListFails(i) \/ Serve(i) PROVE NoPinned'
  BY <1>4 DEF List, ListFails, Serve
<1>5. ASSUME NEW i \in Processes, NEW c \in Calls, Keep(i, c) \/ Reap(i, c)
               PROVE NoPinned'
  BY <1>5 DEF Keep, Reap, reaps, processAlive
<1>6. ASSUME NEW i \in Processes, ReapRemove(i) \/ ReapRemoveFails(i) \/ ReapKill(i)
               \/ ReapKillFails(i) PROVE NoPinned'
  BY <1>6 DEF ReapRemove, ReapRemoveFails, ReapKill, ReapKillFails
<1>7. ASSUME NEW c \in Calls, Begin(c) \/ Cancel(c) PROVE NoPinned'
  BY <1>7 DEF Begin, Cancel
<1>8. ASSUME NEW c \in Calls, launchSandbox(c) PROVE NoPinned'
  BY <1>8 DEF launchSandbox, CreateOk, CreateFails, CreateUnheard, CreateTransient,
    RemovePartial, RemovePartialFails, Retry, BackoffCancelled, Abandoned, AfterCleanup
<1>9. ASSUME NEW c \in Calls, startSidecar(c) PROVE NoPinned'
  BY <1>9 DEF startSidecar, RunSidecar, SidecarFails, SidecarCut, Verify, VerifyFails,
    Abandoned
<1>10. ASSUME NEW c \in Calls, teardown(c) PROVE NoPinned'
  BY <1>10 DEF teardown, Command, Remove, RemoveFails, Kill, KillFails
<1>11. ASSUME NEW c \in Calls, destroy(c) PROVE NoPinned'
  <2>1. CASE Destroy(c)
    BY <2>1 DEF Destroy
  <2>2. CASE DestroyRemove(c)
    BY <2>2 DEF DestroyRemove
  <2>3. CASE DestroyRemoveFails(c)
    BY <2>3 DEF DestroyRemoveFails
  <2>4. CASE DestroyKill(c)
    BY <2>4 DEF DestroyKill
  <2>5. CASE DestroyKillFails(c)
    BY <2>5 DEF DestroyKillFails
  <2> QED
    BY <1>11, <2>1, <2>2, <2>3, <2>4, <2>5 DEF destroy
<1> QED
  BY <1>1, <1>2, <1>3, <1>4, <1>5, <1>6, <1>7, <1>8, <1>9, <1>10, <1>11 DEF Next, ReapOrphans

\* Each way to the end of a call leads past a kill.
LEMMA NoStrayStep ==
  ASSUME LifeInv, Next
  PROVE  NoStray'
<1> USE NoCallAssumption, NoProcessAssumption, NoOwnerAssumption, AttemptsAssumption,
        BoundsAssumption
    DEF LifeInv, TypeOK, Belonging, NoStray, Goto, Become, Step, Mishap, Fault,
        hostVars, processVars, callVars, containers, faultVars
<1>1. ASSUME Tick \/ Reboot PROVE NoStray'
  BY <1>1 DEF Tick, Reboot, Perish
<1>2. ASSUME NEW i \in Processes, Start(i) \/ Die(i) PROVE NoStray'
  BY <1>2 DEF Start, Die, Perish
<1>3. ASSUME NEW c \in Calls, Expire(c) PROVE NoStray'
  BY <1>3 DEF Expire
<1>4. ASSUME NEW i \in Processes, List(i) \/ ListFails(i) \/ Serve(i) PROVE NoStray'
  BY <1>4 DEF List, ListFails, Serve
<1>5. ASSUME NEW i \in Processes, NEW c \in Calls, Keep(i, c) \/ Reap(i, c)
               PROVE NoStray'
  BY <1>5 DEF Keep, Reap, reaps, processAlive
<1>6. ASSUME NEW i \in Processes, ReapRemove(i) \/ ReapRemoveFails(i) \/ ReapKill(i)
               \/ ReapKillFails(i) PROVE NoStray'
  BY <1>6 DEF ReapRemove, ReapRemoveFails, ReapKill, ReapKillFails
<1>7. ASSUME NEW c \in Calls, Begin(c) \/ Cancel(c) PROVE NoStray'
  BY <1>7 DEF Begin, Cancel
<1>8. ASSUME NEW c \in Calls, launchSandbox(c) PROVE NoStray'
  <2>1. CASE CreateOk(c)
    BY <2>1 DEF CreateOk
  <2>2. CASE CreateFails(c)
    BY <2>2 DEF CreateFails
  <2>3. CASE CreateUnheard(c)
    BY <2>3 DEF CreateUnheard, Abandoned
  <2>4. CASE CreateTransient(c)
    BY <2>4 DEF CreateTransient
  <2>5. CASE RemovePartial(c)
    BY <2>5 DEF RemovePartial, AfterCleanup
  <2>6. CASE RemovePartialFails(c)
    BY <2>6 DEF RemovePartialFails, AfterCleanup
  <2>7. CASE Retry(c)
    BY <2>7 DEF Retry
  <2>8. CASE BackoffCancelled(c)
    BY <2>8 DEF BackoffCancelled
  <2> QED
    BY <1>8, <2>1, <2>2, <2>3, <2>4, <2>5, <2>6, <2>7, <2>8 DEF launchSandbox
<1>9. ASSUME NEW c \in Calls, startSidecar(c) PROVE NoStray'
  BY <1>9 DEF startSidecar, RunSidecar, SidecarFails, SidecarCut, Verify, VerifyFails,
    Abandoned
<1>10. ASSUME NEW c \in Calls, teardown(c) PROVE NoStray'
  <2>1. CASE Command(c)
    BY <2>1 DEF Command
  <2>2. CASE Remove(c)
    BY <2>2 DEF Remove
  <2>3. CASE RemoveFails(c)
    BY <2>3 DEF RemoveFails
  <2>4. CASE Kill(c)
    BY <2>4 DEF Kill
  <2>5. CASE KillFails(c)
    BY <2>5 DEF KillFails
  <2> QED
    BY <1>10, <2>1, <2>2, <2>3, <2>4, <2>5 DEF teardown
<1>11. ASSUME NEW c \in Calls, destroy(c) PROVE NoStray'
  BY <1>11 DEF destroy, Destroy, DestroyRemove, DestroyRemoveFails, DestroyKill,
    DestroyKillFails
<1> QED
  BY <1>1, <1>2, <1>3, <1>4, <1>5, <1>6, <1>7, <1>8, <1>9, <1>10, <1>11 DEF Next, ReapOrphans

\* A dead owner's label is that of no live process, so its sandbox is not kept.
LEMMA SweepCoversStep ==
  ASSUME LifeInv, Next
  PROVE  SweepCovers'
<1> USE NoCallAssumption, NoProcessAssumption, NoOwnerAssumption, AttemptsAssumption,
        BoundsAssumption
    DEF LifeInv, TypeOK, Named, Belonging, Sweeping, SweepCovers, Goto, Become, Step, Mishap, Fault,
        hostVars, processVars, callVars, containers, faultVars
<1>1. ASSUME Tick \/ Reboot PROVE SweepCovers'
  BY <1>1 DEF Tick, Reboot, Perish
<1>2. ASSUME NEW i \in Processes, Start(i) \/ Die(i) PROVE SweepCovers'
  BY <1>2 DEF Start, Die, Perish
<1>3. ASSUME NEW c \in Calls, Expire(c) PROVE SweepCovers'
  BY <1>3 DEF Expire
<1>4. ASSUME NEW i \in Processes, List(i) \/ ListFails(i) \/ Serve(i) PROVE SweepCovers'
  <2>1. CASE List(i)
    BY <2>1 DEF List
  <2>2. CASE ListFails(i)
    BY <2>2 DEF ListFails
  <2>3. CASE Serve(i)
    BY <2>3 DEF Serve
  <2> QED
    BY <1>4, <2>1, <2>2, <2>3
<1>5. ASSUME NEW i \in Processes, NEW c \in Calls, Keep(i, c) \/ Reap(i, c)
               PROVE SweepCovers'
  <2>1. CASE Keep(i, c)
    <3>1. c \notin orphans[i]
      <4> SUFFICES ASSUME c \in orphans[i] PROVE FALSE
        OBVIOUS
      <4>1. by[c] \in Processes /\ proc[by[c]] = "dead"
        OBVIOUS
      <4>2. PICK j \in Processes : /\ Live(j) /\ owner[j].pid = label(c).pid
                                  /\ owner[j].start = label(c).start /\ label(c).boot = boot
        BY <2>1 DEF Keep, reaps, processAlive
      <4>3. owner[j] \in Identities /\ label(c) \in Identities /\ owner[j].boot = boot
        BY <4>1, <4>2
      <4>4. owner[j] = label(c)
        BY <4>2, <4>3
      <4> QED
        BY <4>1, <4>2, <4>4
    <3> QED
      BY <2>1, <3>1 DEF Keep
  <2>2. CASE Reap(i, c)
    BY <2>2 DEF Reap, reaps, processAlive
  <2> QED
    BY <1>5, <2>1, <2>2
<1>6. ASSUME NEW i \in Processes, ReapRemove(i) \/ ReapRemoveFails(i) \/ ReapKill(i)
               \/ ReapKillFails(i) PROVE SweepCovers'
  <2>1. CASE ReapRemove(i)
    BY <2>1 DEF ReapRemove
  <2>2. CASE ReapRemoveFails(i)
    BY <2>2 DEF ReapRemoveFails
  <2>3. CASE ReapKill(i)
    BY <2>3 DEF ReapKill
  <2>4. CASE ReapKillFails(i)
    BY <2>4 DEF ReapKillFails
  <2> QED
    BY <1>6, <2>1, <2>2, <2>3, <2>4
<1>7. ASSUME NEW c \in Calls, Begin(c) \/ Cancel(c) PROVE SweepCovers'
  BY <1>7 DEF Begin, Cancel
<1>8. ASSUME NEW c \in Calls, launchSandbox(c) PROVE SweepCovers'
  BY <1>8 DEF launchSandbox, CreateOk, CreateFails, CreateUnheard, CreateTransient,
    RemovePartial, RemovePartialFails, Retry, BackoffCancelled, Abandoned, AfterCleanup
<1>9. ASSUME NEW c \in Calls, startSidecar(c) PROVE SweepCovers'
  BY <1>9 DEF startSidecar, RunSidecar, SidecarFails, SidecarCut, Verify, VerifyFails,
    Abandoned
<1>10. ASSUME NEW c \in Calls, teardown(c) PROVE SweepCovers'
  <2>1. CASE Command(c)
    BY <2>1 DEF Command
  <2>2. CASE Remove(c)
    BY <2>2 DEF Remove
  <2>3. CASE RemoveFails(c)
    BY <2>3 DEF RemoveFails
  <2>4. CASE Kill(c)
    BY <2>4 DEF Kill
  <2>5. CASE KillFails(c)
    BY <2>5 DEF KillFails
  <2> QED
    BY <1>10, <2>1, <2>2, <2>3, <2>4, <2>5 DEF teardown
<1>11. ASSUME NEW c \in Calls, destroy(c) PROVE SweepCovers'
  <2>1. CASE Destroy(c)
    BY <2>1 DEF Destroy
  <2>2. CASE DestroyRemove(c)
    BY <2>2 DEF DestroyRemove
  <2>3. CASE DestroyRemoveFails(c)
    BY <2>3 DEF DestroyRemoveFails
  <2>4. CASE DestroyKill(c)
    BY <2>4 DEF DestroyKill
  <2>5. CASE DestroyKillFails(c)
    BY <2>5 DEF DestroyKillFails
  <2> QED
    BY <1>11, <2>1, <2>2, <2>3, <2>4, <2>5 DEF destroy
<1> QED
  BY <1>1, <1>2, <1>3, <1>4, <1>5, <1>6, <1>7, <1>8, <1>9, <1>10, <1>11 DEF Next, ReapOrphans

\* A sweep ends when nothing is left to look at.
LEMMA ReapCompleteStep ==
  ASSUME LifeInv, Next
  PROVE  ReapComplete'
<1> USE NoCallAssumption, NoProcessAssumption, NoOwnerAssumption, AttemptsAssumption,
        BoundsAssumption
    DEF LifeInv, TypeOK, Belonging, Sweeping, SweepCovers, ReapComplete, Goto, Become, Step, Mishap, Fault,
        hostVars, processVars, callVars, containers, faultVars
<1>1. ASSUME Tick \/ Reboot PROVE ReapComplete'
  BY <1>1 DEF Tick, Reboot, Perish
<1>2. ASSUME NEW i \in Processes, Start(i) \/ Die(i) PROVE ReapComplete'
  BY <1>2 DEF Start, Die, Perish
<1>3. ASSUME NEW c \in Calls, Expire(c) PROVE ReapComplete'
  BY <1>3 DEF Expire
<1>4. ASSUME NEW i \in Processes, List(i) \/ ListFails(i) \/ Serve(i)
               PROVE ReapComplete'
  <2>1. CASE List(i)
    BY <2>1 DEF List
  <2>2. CASE ListFails(i)
    BY <2>2 DEF ListFails
  <2>3. CASE Serve(i)
    BY <2>3 DEF Serve
  <2> QED
    BY <1>4, <2>1, <2>2, <2>3
<1>5. ASSUME NEW i \in Processes, NEW c \in Calls, Keep(i, c) \/ Reap(i, c)
               PROVE ReapComplete'
  <2>1. CASE Keep(i, c)
    BY <2>1 DEF Keep, reaps, processAlive
  <2>2. CASE Reap(i, c)
    BY <2>2 DEF Reap, reaps, processAlive
  <2> QED
    BY <1>5, <2>1, <2>2
<1>6. ASSUME NEW i \in Processes, ReapRemove(i) \/ ReapRemoveFails(i) \/ ReapKill(i)
               \/ ReapKillFails(i) PROVE ReapComplete'
  <2>1. CASE ReapRemove(i)
    BY <2>1 DEF ReapRemove
  <2>2. CASE ReapRemoveFails(i)
    BY <2>2 DEF ReapRemoveFails
  <2>3. CASE ReapKill(i)
    BY <2>3 DEF ReapKill
  <2>4. CASE ReapKillFails(i)
    BY <2>4 DEF ReapKillFails
  <2> QED
    BY <1>6, <2>1, <2>2, <2>3, <2>4
<1>7. ASSUME NEW c \in Calls, Begin(c) \/ Cancel(c) PROVE ReapComplete'
  BY <1>7 DEF Begin, Cancel
<1>8. ASSUME NEW c \in Calls, launchSandbox(c) PROVE ReapComplete'
  BY <1>8 DEF launchSandbox, CreateOk, CreateFails, CreateUnheard, CreateTransient,
    RemovePartial, RemovePartialFails, Retry, BackoffCancelled, Abandoned, AfterCleanup
<1>9. ASSUME NEW c \in Calls, startSidecar(c) PROVE ReapComplete'
  BY <1>9 DEF startSidecar, RunSidecar, SidecarFails, SidecarCut, Verify, VerifyFails,
    Abandoned
<1>10. ASSUME NEW c \in Calls, teardown(c) PROVE ReapComplete'
  BY <1>10 DEF teardown, Command, Remove, RemoveFails, Kill, KillFails
<1>11. ASSUME NEW c \in Calls, destroy(c) PROVE ReapComplete'
  BY <1>11 DEF destroy, Destroy, DestroyRemove, DestroyRemoveFails, DestroyKill,
    DestroyKillFails
<1> QED
  BY <1>1, <1>2, <1>3, <1>4, <1>5, <1>6, <1>7, <1>8, <1>9, <1>10, <1>11 DEF Next, ReapOrphans

-------------------------------------------------------------------------------
(* The theorems *)

\* The inductive invariant holds at the start, is kept by each step, and so always.
LEMMA LifeInit == Init => LifeInv
BY NoOwnerAssumption, NoProcessAssumption, AttemptsAssumption, BoundsAssumption
DEF Init, LifeInv, TypeOK, Counting, Named, Belonging, Sweeping, InUseIsUp, SidecarFirst,
    NoPinned, NoStray, SweepCovers, ReapComplete

\* A step keeps it, part by part.
LEMMA LifeStep == LifeInv /\ [Next]_vars => LifeInv'
<1> SUFFICES ASSUME LifeInv, [Next]_vars PROVE LifeInv'
  OBVIOUS
<1>1. CASE Next
  BY <1>1, TypeStep, CountingStep, NamedStep, BelongingStep, SweepingStep, InUseStep,
     SidecarFirstStep, NoPinnedStep, NoStrayStep, SweepCoversStep, ReapCompleteStep DEF LifeInv
<1>2. CASE UNCHANGED vars
  BY <1>2 DEF vars, hostVars, processVars, callVars, containers, faultVars, LifeInv, TypeOK,
     Counting, Named, Belonging, Sweeping, InUseIsUp, SidecarFirst, NoPinned, NoStray,
     SweepCovers, ReapComplete
<1> QED
  BY <1>1, <1>2

\* Hence it always holds.
LEMMA LifeInvariant == Spec => []LifeInv
BY LifeInit, LifeStep, PTL DEF Spec

\* Every variable keeps its type, and no call exceeds its attempts.
THEOREM TypeCorrect == Spec => []TypeOK
<1>1. LifeInv => TypeOK
  BY DEF LifeInv
<1> QED
  BY <1>1, LifeInvariant, PTL

\* No process removes what a live process uses or holds, whatever pids are reused.
THEOREM InUseIsUpHolds == Spec => []InUseIsUp
<1>1. LifeInv => InUseIsUp
  BY DEF LifeInv
<1> QED
  BY <1>1, LifeInvariant, PTL

\* No path kills a sandbox before its sidecar unless docker or the TTL is to blame.
THEOREM NoPinnedHolds == Spec => []NoPinned
<1>1. LifeInv => NoPinned
  BY DEF LifeInv
<1> QED
  BY <1>1, LifeInvariant, PTL

\* A call of a live process that has returned has left no sandbox of its own.
THEOREM NoStrayHolds == Spec => []NoStray
<1>1. LifeInv => NoStray
  BY DEF LifeInv
<1> QED
  BY <1>1, LifeInvariant, PTL

\* No half-made sandbox survives the attempt that left it.
THEOREM PartialsCleanedHolds == Spec => []PartialsCleaned
<1>1. LifeInv => PartialsCleaned
  BY DEF LifeInv, Counting, PartialsCleaned
<1> QED
  BY <1>1, LifeInvariant, PTL

\* A live process leaves nothing behind, whole or half-made.
THEOREM NothingLeftHolds == Spec => []NothingLeft
<1>1. NoStray /\ PartialsCleaned => NothingLeft
  BY DEF NothingLeft
<1> QED
  BY <1>1, NoStrayHolds, PartialsCleanedHolds, PTL

\* A process that serves has destroyed the orphans it found.
THEOREM ReapCompleteHolds == Spec => []ReapComplete
<1>1. LifeInv => ReapComplete
  BY DEF LifeInv
<1> QED
  BY <1>1, LifeInvariant, PTL
===============================================================================
