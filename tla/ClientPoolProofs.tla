---------------------------- MODULE ClientPoolProofs ----------------------------
(***************************************************************************)
(* Theorems of ClientPool, for any servers, callers and bounds.            *)
(***************************************************************************)
EXTENDS ClientPool, SequenceTheorems, TLAPS

-------------------------------------------------------------------------------
(* Types *)

LEMMA TypeInit == Init => TypeOK
BY BoundsAssumption DEF Init, TypeOK, Entries, NoEntry, Procs, Timers

LEMMA ResetType ==
  ASSUME TypeOK, NEW s \in Servers, NEW uc \in Entries, uc.c \in Procs, ResetIdleTimer(s, uc)
  PROVE  clients' \in [Servers -> Entries] /\ armed' \in SUBSET Timers
<1>1. uc.generation \in Nat
  BY DEF Entries
<1>2. [c |-> uc.c, generation |-> uc.generation + 1] \in Entries
  BY <1>1 DEF Entries
<1>3. [server |-> s, generation |-> uc.generation + 1, c |-> uc.c] \in Timers
  BY <1>1 DEF Timers
<1> QED BY <1>2, <1>3 DEF ResetIdleTimer, TypeOK

\* What the pool holds of a server that has an entry, and who is spawning.
ClientsInv ==
  \A s \in Servers :
    /\ Pooled(s) => clients[s].c \in Procs /\ IsOpen(clients[s].c)
    /\ \A r \in Servers : Pooled(s) /\ Pooled(r) /\ clients[s].c = clients[r].c => s = r
SpawnInv ==
  \A c \in Callers : pc[c] = "initialize" =>
    /\ holder = c
    /\ server[c] \in Servers /\ ~Pooled(server[c])
    /\ client[c] \in Procs /\ IsOpen(client[c])
    /\ \A s \in Servers : clients[s].c # client[c]
HolderInv == holder # Nobody => pc[holder] = "initialize"
FreshInv  == \A p \in Procs : p > spawned => proc[p] = "none"
FiredInv  == \A s \in Servers : \A i \in DOMAIN fired[s] : fired[s][i].server = s

PoolInv == TypeOK /\ ClientsInv /\ SpawnInv /\ HolderInv /\ FreshInv /\ FiredInv

LEMMA TypeStep == ASSUME PoolInv, [Next]_vars PROVE TypeOK'
<1> USE DEF PoolInv
<1>1. ASSUME NEW c \in Callers, NEW s \in Servers \cup Strangers, Call(c, s) PROVE TypeOK'
  BY <1>1, BoundsAssumption DEF Call, TypeOK, poolVars, procVars
<1>2. ASSUME NEW c \in Callers, AcquireUnknown(c) PROVE TypeOK'
  BY <1>2 DEF AcquireUnknown, Leave, TypeOK, poolVars, procVars
<1>3. ASSUME NEW c \in Callers, AcquireHit(c) PROVE TypeOK'
  <2>1. server[c] \in Servers /\ Pooled(server[c])
    BY <1>3 DEF AcquireHit
  <2>2. clients[server[c]] \in Entries /\ clients[server[c]].c \in Procs
    BY <2>1 DEF TypeOK, ClientsInv
  <2>3. clients' \in [Servers -> Entries] /\ armed' \in SUBSET Timers
    BY <1>3, <2>1, <2>2, ResetType DEF AcquireHit
  <2> QED BY <1>3, <2>2, <2>3 DEF AcquireHit, TypeOK, procVars
<1>4. ASSUME NEW c \in Callers, LaunchFails(c) PROVE TypeOK'
  BY <1>4 DEF LaunchFails, Leave, TypeOK, poolVars, procVars
<1>5. ASSUME NEW c \in Callers, Launch(c) PROVE TypeOK'
  <2>1. spawned + 1 \in Procs
    BY <1>5, BoundsAssumption DEF Launch, TypeOK, Procs
  <2> QED BY <1>5, <2>1, BoundsAssumption DEF Launch, TypeOK, Procs
<1>6. ASSUME NEW c \in Callers, Initialized(c) PROVE TypeOK'
  <2>1. server[c] \in Servers /\ client[c] \in Procs
    BY <1>6 DEF Initialized, SpawnInv
  <2> DEFINE uc == [c |-> client[c], generation |-> 0]
  <2>2. uc \in Entries /\ uc.c \in Procs
    BY <2>1 DEF Entries
  <2>3. ResetIdleTimer(server[c], uc)
    BY <1>6 DEF Initialized
  <2> HIDE DEF uc
  <2>4. clients' \in [Servers -> Entries] /\ armed' \in SUBSET Timers
    BY <2>1, <2>2, <2>3, ResetType
  <2> QED BY <1>6, <2>4 DEF Initialized, TypeOK, procVars
<1>7. ASSUME NEW c \in Callers, InitializeFails(c) PROVE TypeOK'
  BY <1>7 DEF InitializeFails, Leave, TypeOK
<1>8. ASSUME NEW c \in Callers, Return(c) PROVE TypeOK'
  BY <1>8 DEF Return, Leave, TypeOK, poolVars, procVars
<1>9. ASSUME NEW t \in armed, Fire(t) PROVE TypeOK'
  <2>1. t \in Timers /\ t.server \in Servers
    BY DEF TypeOK, Timers
  <2>2. fired' \in [Servers -> Seq(Timers)]
    BY <1>9, <2>1 DEF Fire, TypeOK
  <2> QED BY <1>9, <2>2 DEF Fire, TypeOK, procVars, callerVars
<1>10. ASSUME NEW s \in Servers, Evict(s) PROVE TypeOK'
  <2>1. fired' \in [Servers -> Seq(Timers)]
    BY <1>10 DEF Evict, TypeOK
  <2>2. proc' \in [Procs -> {"none", "up", "dead", "closed"}]
    BY <1>10 DEF Evict, TypeOK
  <2>3. NoEntry \in Entries
    BY DEF NoEntry, Entries
  <2>4. clients' \in [Servers -> Entries]
    BY <1>10, <2>3 DEF Evict, TypeOK
  <2> QED BY <1>10, <2>1, <2>2, <2>4 DEF Evict, TypeOK, callerVars
<1>11. ASSUME NEW p \in Procs, Die(p) PROVE TypeOK'
  BY <1>11 DEF Die, TypeOK, poolVars, callerVars
<1>12. CASE Drain
  BY <1>12 DEF Drain, TypeOK, poolVars, procVars, callerVars
<1>13. CASE Shutdown
  <2>1. clients' \in [Servers -> Entries]
    BY <1>13 DEF Shutdown, NoEntry, Entries
  <2>2. proc' \in [Procs -> {"none", "up", "dead", "closed"}]
    BY <1>13 DEF Shutdown, TypeOK
  <2> QED BY <1>13, <2>1, <2>2 DEF Shutdown, TypeOK, callerVars
<1>14. CASE UNCHANGED vars
  BY <1>14 DEF vars, TypeOK, poolVars, procVars, callerVars
<1> QED BY <1>1, <1>2, <1>3, <1>4, <1>5, <1>6, <1>7, <1>8, <1>9, <1>10, <1>11,
           <1>12, <1>13, <1>14 DEF Next, Acquire

-------------------------------------------------------------------------------
(* The inductive invariant *)

LEMMA PoolInit == Init => PoolInv
<1> SUFFICES ASSUME Init PROVE PoolInv
  OBVIOUS
<1>1. TypeOK
  BY TypeInit
<1>2. ClientsInv /\ SpawnInv /\ HolderInv
  BY DEF Init, ClientsInv, SpawnInv, HolderInv, Pooled
<1>3. FreshInv /\ FiredInv
  BY DEF Init, FreshInv, FiredInv
<1> QED BY <1>1, <1>2, <1>3 DEF PoolInv

\* A server without an entry has client 0, which is no subprocess.
LEMMA Unpooled ==
  ASSUME NEW s \in Servers, ~Pooled(s) PROVE clients[s].c = 0 /\ clients[s].c \notin Procs
BY DEF Pooled, NoEntry, Procs

\* A subprocess that is being launched is new to the pool and to every caller.
LEMMA LaunchIsNew ==
  ASSUME PoolInv, NEW c \in Callers, Launch(c), NEW n, n = spawned + 1
  PROVE  /\ n \in Procs
         /\ \A s \in Servers : clients[s].c # n
         /\ \A p \in Procs : IsOpen(p) => IsOpen(p)' /\ p # n
         /\ IsOpen(n)'
<1>1. n \in Procs /\ spawned \in Nat /\ n > spawned
  BY BoundsAssumption DEF Launch, PoolInv, TypeOK, Procs
<1>2. proc[n] = "none"
  BY <1>1 DEF PoolInv, FreshInv
<1>3. proc' = [proc EXCEPT ![n] = "up"]
  BY DEF Launch
<1>4. \A p \in Procs : IsOpen(p) => IsOpen(p)' /\ p # n
  BY <1>1, <1>2, <1>3 DEF IsOpen, PoolInv, TypeOK
<1>5. \A s \in Servers : clients[s].c # n
  <2> TAKE s \in Servers
  <2>1. CASE Pooled(s)
    BY <1>4, <2>1 DEF PoolInv, ClientsInv
  <2>2. CASE ~Pooled(s)
    BY <1>1, <2>2, Unpooled
  <2> QED BY <2>1, <2>2
<1>6. IsOpen(n)'
  BY <1>1, <1>3 DEF IsOpen, PoolInv, TypeOK
<1> QED BY <1>1, <1>4, <1>5, <1>6

LEMMA ClientsStep == ASSUME PoolInv, [Next]_vars PROVE ClientsInv'
<1> USE DEF PoolInv
<1>1. ASSUME UNCHANGED clients, \A p \in Procs : IsOpen(p) => IsOpen(p)' PROVE ClientsInv'
  BY <1>1 DEF ClientsInv, Pooled
<1>2. ASSUME UNCHANGED <<clients, proc>> PROVE ClientsInv'
  BY <1>1, <1>2 DEF IsOpen
<1>3. ASSUME NEW c \in Callers, AcquireHit(c) PROVE ClientsInv'
  <2> DEFINE s == server[c]
  <2>1. s \in Servers /\ Pooled(s) /\ clients[s].c \in Procs /\ IsOpen(clients[s].c)
    BY <1>3 DEF AcquireHit, ClientsInv
  <2>2. \A r \in Servers : clients'[r].c = clients[r].c /\ (Pooled(r)' <=> Pooled(r))
    <3>1. clients' = [clients EXCEPT ![s] = [c |-> clients[s].c, generation |-> clients[s].generation + 1]]
      BY <1>3 DEF AcquireHit, ResetIdleTimer
    <3>2. clients[s].c # 0
      BY <2>1 DEF Procs
    <3> QED BY <2>1, <3>1, <3>2 DEF TypeOK, Pooled, NoEntry
  <2>3. UNCHANGED proc
    BY <1>3 DEF AcquireHit, procVars
  <2> QED BY <2>2, <2>3 DEF ClientsInv, IsOpen
<1>4. ASSUME NEW c \in Callers, Launch(c) PROVE ClientsInv'
  BY <1>1, <1>4, LaunchIsNew DEF Launch
<1>5. ASSUME NEW c \in Callers, Initialized(c) PROVE ClientsInv'
  <2> DEFINE s == server[c]
  <2>1. s \in Servers /\ client[c] \in Procs /\ IsOpen(client[c]) /\ \A r \in Servers : clients[r].c # client[c]
    BY <1>5 DEF Initialized, SpawnInv
  <2>2. clients' = [clients EXCEPT ![s] = [c |-> client[c], generation |-> 1]] /\ UNCHANGED proc
    BY <1>5 DEF Initialized, ResetIdleTimer, procVars
  <2>3. clients'[s].c = client[c] /\ \A r \in Servers \ {s} : clients'[r] = clients[r]
    BY <2>1, <2>2 DEF TypeOK
  <2> QED BY <2>1, <2>2, <2>3 DEF ClientsInv, Pooled, IsOpen
<1>6. ASSUME NEW c \in Callers, InitializeFails(c) PROVE ClientsInv'
  <2>1. client[c] \in Procs /\ \A r \in Servers : clients[r].c # client[c]
    BY <1>6 DEF InitializeFails, SpawnInv
  <2>2. UNCHANGED clients /\ \A p \in Procs \ {client[c]} : proc'[p] = proc[p]
    BY <1>6, <2>1 DEF InitializeFails, TypeOK
  <2> QED BY <2>1, <2>2 DEF ClientsInv, Pooled, IsOpen
<1>7. ASSUME NEW s \in Servers, Evict(s) PROVE ClientsInv'
  <2>1. CASE Current(Head(fired[s]))
    <3>1. clients' = [clients EXCEPT ![s] = NoEntry] /\ proc' = [proc EXCEPT ![clients[s].c] = "closed"]
      BY <1>7, <2>1 DEF Evict
    <3>2. ~Pooled(s)' /\ \A r \in Servers \ {s} : clients'[r] = clients[r]
      BY <3>1 DEF TypeOK, Pooled
    <3>3. \A r \in Servers \ {s} : Pooled(r) => clients[r].c # clients[s].c
      BY Unpooled DEF ClientsInv
    <3>4. \A p \in Procs \ {clients[s].c} : proc'[p] = proc[p]
      BY <3>1 DEF TypeOK
    <3> QED BY <3>2, <3>3, <3>4 DEF ClientsInv, Pooled, IsOpen
  <2>2. CASE ~Current(Head(fired[s]))
    BY <1>2, <1>7, <2>2 DEF Evict
  <2> QED BY <2>1, <2>2
<1>8. ASSUME NEW p \in Procs, Die(p) PROVE ClientsInv'
  <2>1. \A q \in Procs : IsOpen(q) => IsOpen(q)'
    BY <1>8 DEF Die, IsOpen, TypeOK
  <2> QED BY <1>1, <1>8, <2>1 DEF Die, poolVars
<1>9. CASE Shutdown
  BY <1>9 DEF Shutdown, ClientsInv, Pooled
<1> QED BY <1>2, <1>3, <1>4, <1>5, <1>6, <1>7, <1>8, <1>9
        DEF Next, vars, Acquire, Call, AcquireUnknown, LaunchFails, Return, Fire, Drain, poolVars, procVars

LEMMA SpawnStep == ASSUME PoolInv, [Next]_vars PROVE SpawnInv' /\ HolderInv'
<1> USE DEF PoolInv
<1>1. ASSUME UNCHANGED <<holder, server, client, pc, clients, proc>> PROVE SpawnInv' /\ HolderInv'
  BY <1>1 DEF SpawnInv, HolderInv, Pooled, IsOpen
<1>2. ASSUME NEW c \in Callers, NEW s \in Servers \cup Strangers, Call(c, s)
      PROVE  SpawnInv' /\ HolderInv'
  <2>1. UNCHANGED <<holder, client, clients, proc>> /\ pc[c] = "idle" /\ pc'[c] = "acquire"
        /\ \A d \in Callers \ {c} : pc'[d] = pc[d] /\ server'[d] = server[d]
    BY <1>2 DEF Call, TypeOK, poolVars, procVars
  <2> QED BY <2>1 DEF SpawnInv, HolderInv, Pooled, IsOpen, TypeOK
<1>3. ASSUME NEW c \in Callers, Leave(c), pc[c] # "initialize", UNCHANGED <<holder, clients, proc>>
      PROVE  SpawnInv' /\ HolderInv'
  <2>1. pc'[c] = "idle" /\ \A d \in Callers \ {c} : pc'[d] = pc[d] /\ server'[d] = server[d] /\ client'[d] = client[d]
    BY <1>3 DEF Leave, TypeOK
  <2> QED BY <1>3, <2>1 DEF SpawnInv, HolderInv, Pooled, IsOpen, TypeOK
<1>4. ASSUME NEW c \in Callers, AcquireHit(c) PROVE SpawnInv' /\ HolderInv'
  <2>1. holder = Nobody /\ holder' = Nobody
    BY <1>4 DEF AcquireHit, Locking
  <2>2. \A d \in Callers : pc'[d] # "initialize"
    BY <1>4, <2>1, CallersAssumption DEF AcquireHit, SpawnInv, TypeOK
  <2> QED BY <2>1, <2>2 DEF SpawnInv, HolderInv
<1>5. ASSUME NEW c \in Callers, Launch(c) PROVE SpawnInv' /\ HolderInv'
  <2>1. holder = Nobody /\ holder' = c
    BY <1>5 DEF Launch, Missing, Locking
  <2>2. pc'[c] = "initialize" /\ \A d \in Callers \ {c} : pc'[d] # "initialize"
    BY <1>5, <2>1, CallersAssumption DEF Launch, SpawnInv, TypeOK
  <2>3. PICK n : n = spawned + 1
    OBVIOUS
  <2>4. n \in Procs /\ IsOpen(n)' /\ \A s \in Servers : clients[s].c # n
    BY <1>5, <2>3, LaunchIsNew
  <2>5. server[c] \in Servers /\ ~Pooled(server[c]) /\ client'[c] = n /\ UNCHANGED <<server, clients>>
    BY <1>5, <2>3 DEF Launch, Missing, TypeOK
  <2>6. IsOpen(client[c])'
    BY <2>4, <2>5 DEF IsOpen
  <2>7. ~Pooled(server[c])'
    BY <2>5 DEF Pooled
  <2> QED BY <2>1, <2>2, <2>4, <2>5, <2>6, <2>7 DEF SpawnInv, HolderInv
<1>6. ASSUME NEW c \in Callers, Initialized(c) \/ InitializeFails(c) PROVE SpawnInv' /\ HolderInv'
  <2>1. holder' = Nobody /\ pc[c] = "initialize" /\ holder = c
    BY <1>6 DEF Initialized, InitializeFails, SpawnInv
  <2>2. \A d \in Callers : pc'[d] # "initialize"
    BY <1>6, <2>1 DEF Initialized, InitializeFails, Leave, SpawnInv, TypeOK
  <2> QED BY <2>1, <2>2 DEF SpawnInv, HolderInv
<1>7. ASSUME holder = Nobody, UNCHANGED <<holder, pc>> PROVE SpawnInv' /\ HolderInv'
  BY <1>7, CallersAssumption DEF SpawnInv, HolderInv
<1>8. ASSUME NEW p \in Procs, Die(p) PROVE SpawnInv' /\ HolderInv'
  <2>1. \A q \in Procs : IsOpen(q) => IsOpen(q)'
    BY <1>8 DEF Die, IsOpen, TypeOK
  <2> QED BY <1>8, <2>1 DEF Die, poolVars, callerVars, SpawnInv, HolderInv, Pooled
<1>9. ASSUME NEW c \in Callers, AcquireUnknown(c) \/ LaunchFails(c) \/ Return(c) PROVE SpawnInv' /\ HolderInv'
  BY <1>3, <1>9 DEF AcquireUnknown, LaunchFails, Return, Missing, Locking, poolVars, procVars
<1>10. ASSUME NEW s \in Servers, Evict(s) PROVE SpawnInv' /\ HolderInv'
  BY <1>7, <1>10 DEF Evict, callerVars
<1>11. CASE Shutdown
  BY <1>7, <1>11 DEF Shutdown, callerVars
<1>12. CASE Drain \/ UNCHANGED vars \/ \E t \in armed : Fire(t)
  BY <1>1, <1>12 DEF Drain, Fire, vars, poolVars, procVars, callerVars
<1> QED BY <1>2, <1>4, <1>5, <1>6, <1>8, <1>9, <1>10, <1>11, <1>12 DEF Next, Acquire

LEMMA FreshStep == ASSUME PoolInv, [Next]_vars PROVE FreshInv'
<1> USE DEF PoolInv
<1>1. ASSUME NEW q \in Procs, UNCHANGED spawned, \A p \in Procs \ {q} : proc'[p] = proc[p], proc[q] # "none"
      PROVE  FreshInv'
  BY <1>1 DEF FreshInv
<1>2. ASSUME NEW c \in Callers, Launch(c) PROVE FreshInv'
  BY <1>2 DEF Launch, FreshInv, TypeOK, Procs
<1>3. ASSUME NEW c \in Callers, InitializeFails(c) PROVE FreshInv'
  <2>1. client[c] \in Procs /\ IsOpen(client[c])
    BY <1>3 DEF InitializeFails, SpawnInv
  <2> QED BY <1>1, <1>3, <2>1 DEF InitializeFails, TypeOK, IsOpen
<1>4. ASSUME NEW s \in Servers, Evict(s) PROVE FreshInv'
  <2>1. CASE Current(Head(fired[s]))
    <3>1. Pooled(s)
      <4>1. Head(fired[s]) = fired[s][1] /\ 1 \in DOMAIN fired[s]
        BY <1>4 DEF Evict, TypeOK
      <4> QED BY <2>1, <4>1 DEF Current, FiredInv
    <3>2. clients[s].c \in Procs /\ IsOpen(clients[s].c)
      BY <3>1 DEF ClientsInv
    <3> QED BY <1>1, <1>4, <2>1, <3>2 DEF Evict, TypeOK, IsOpen
  <2>2. CASE ~Current(Head(fired[s]))
    BY <1>4, <2>2 DEF Evict, FreshInv
  <2> QED BY <2>1, <2>2
<1>5. ASSUME NEW p \in Procs, Die(p) PROVE FreshInv'
  BY <1>1, <1>5 DEF Die, TypeOK
<1>6. CASE Shutdown
  <2> SUFFICES ASSUME NEW p \in Procs, p > spawned PROVE proc'[p] = "none"
    BY <1>6 DEF Shutdown, FreshInv
  <2>1. proc[p] = "none"
    BY DEF FreshInv
  <2>2. ~\E s \in Servers : clients[s].c = p
    BY <2>1, Unpooled DEF ClientsInv, IsOpen
  <2> QED BY <1>6, <2>1, <2>2 DEF Shutdown
<1>7. CASE UNCHANGED <<proc, spawned>>
  BY <1>7 DEF FreshInv
<1> QED BY <1>2, <1>3, <1>4, <1>5, <1>6, <1>7
        DEF Next, vars, Acquire, Call, AcquireUnknown, AcquireHit, LaunchFails, Initialized, Return, Fire, Drain, procVars

LEMMA FiredStep == ASSUME PoolInv, [Next]_vars PROVE FiredInv'
<1> USE DEF PoolInv
<1>1. ASSUME NEW t \in armed, Fire(t) PROVE FiredInv'
  <2>1. t \in Timers /\ t.server \in Servers
    BY DEF TypeOK, Timers
  <2> SUFFICES ASSUME NEW s \in Servers, NEW i \in DOMAIN fired'[s] PROVE fired'[s][i].server = s
    BY DEF FiredInv
  <2>2. CASE s = t.server
    <3>1. fired'[s] = Append(fired[s], t) /\ fired[s] \in Seq(Timers)
      BY <1>1, <2>1, <2>2 DEF Fire, TypeOK
    <3> QED BY <2>1, <2>2, <3>1 DEF FiredInv
  <2>3. CASE s # t.server
    BY <1>1, <2>3 DEF Fire, TypeOK, FiredInv
  <2> QED BY <2>2, <2>3
<1>2. ASSUME NEW r \in Servers, Evict(r) PROVE FiredInv'
  <2> SUFFICES ASSUME NEW s \in Servers, NEW i \in DOMAIN fired'[s] PROVE fired'[s][i].server = s
    BY DEF FiredInv
  <2>1. CASE s = r
    <3>1. fired'[s] = Tail(fired[s]) /\ fired[s] \in Seq(Timers) /\ fired[s] # <<>>
      BY <1>2, <2>1 DEF Evict, TypeOK
    <3>2. i + 1 \in DOMAIN fired[s] /\ fired'[s][i] = fired[s][i + 1]
      BY <3>1
    <3> QED BY <3>2 DEF FiredInv
  <2>2. CASE s # r
    BY <1>2, <2>2 DEF Evict, TypeOK, FiredInv
  <2> QED BY <2>1, <2>2
<1>3. CASE UNCHANGED fired
  BY <1>3 DEF FiredInv
<1> QED BY <1>1, <1>2, <1>3
        DEF Next, vars, Acquire, Call, AcquireUnknown, AcquireHit, LaunchFails, Launch, Initialized,
            InitializeFails, Return, Die, Drain, Shutdown, poolVars

LEMMA PoolStep == ASSUME PoolInv, [Next]_vars PROVE PoolInv'
BY TypeStep, ClientsStep, SpawnStep, FreshStep, FiredStep DEF PoolInv

LEMMA PoolInvariant == Spec => []PoolInv
BY PoolInit, PoolStep, PTL DEF Spec

\* Every variable keeps its type, for any servers, callers and bounds.
THEOREM TypeCorrect == Spec => []TypeOK
<1>1. PoolInv => TypeOK
  BY DEF PoolInv
<1> QED BY <1>1, PoolInvariant, PTL

\* acquire never hands out a client that demesne has closed.
THEOREM PooledIsOpenHolds == Spec => []PooledIsOpen
<1>1. PoolInv => PooledIsOpen
  BY DEF PoolInv, ClientsInv, PooledIsOpen
<1> QED BY <1>1, PoolInvariant, PTL

-------------------------------------------------------------------------------
(* No subprocess is lost *)

\* The subprocess p is in the pool or being launched.
Owned(p) ==
  \/ \E s \in Servers : clients[s].c = p
  \/ \E c \in Callers : pc[c] = "initialize" /\ client[c] = p

LEMMA NoLeakStep == ASSUME PoolInv, PoolInv', NoLeak, [Next]_vars PROVE NoLeak'
<1> SUFFICES ASSUME NEW p \in Procs, IsOpen(p)' PROVE Owned(p)'
  <2>1. \A c \in Callers : pc'[c] = "initialize" => holder' = c /\ holder' # Nobody
    BY CallersAssumption DEF PoolInv, SpawnInv
  <2> QED BY <2>1 DEF Owned, NoLeak
<1> USE DEF PoolInv
<1>1. IsOpen(p) => Owned(p)
  BY DEF NoLeak, Owned, HolderInv, TypeOK
<1>2. ASSUME UNCHANGED clients, IsOpen(p),
             \A c \in Callers : pc[c] = "initialize" => pc'[c] = "initialize" /\ client'[c] = client[c]
      PROVE  Owned(p)'
  BY <1>1, <1>2 DEF Owned
<1>3. ASSUME NEW c \in Callers, AcquireHit(c) PROVE Owned(p)'
  <2>1. \A s \in Servers : clients'[s].c = clients[s].c
    BY <1>3 DEF AcquireHit, ResetIdleTimer, TypeOK
  <2>2. IsOpen(p) /\ \A d \in Callers : pc[d] = "initialize" => pc'[d] = "initialize" /\ client'[d] = client[d]
    BY <1>3 DEF AcquireHit, Locking, procVars, IsOpen, TypeOK
  <2> QED BY <1>1, <2>1, <2>2 DEF Owned
<1>4. ASSUME NEW c \in Callers, Launch(c) PROVE Owned(p)'
  <2>1. pc'[c] = "initialize" /\ client'[c] = spawned + 1
    BY <1>4 DEF Launch, TypeOK
  <2>2. CASE p = spawned + 1
    BY <2>1, <2>2 DEF Owned
  <2>3. CASE p # spawned + 1
    <3>1. IsOpen(p)
      BY <1>4, <2>3 DEF Launch, IsOpen, TypeOK
    <3>2. \A d \in Callers : pc[d] = "initialize" => pc'[d] = "initialize" /\ client'[d] = client[d]
      BY <1>4 DEF Launch, Missing, Locking, TypeOK
    <3> QED BY <1>2, <1>4, <3>1, <3>2 DEF Launch
  <2> QED BY <2>2, <2>3
<1>5. ASSUME NEW c \in Callers, Initialized(c) PROVE Owned(p)'
  <2> DEFINE s == server[c]
  <2>1. s \in Servers /\ ~Pooled(s) /\ holder = c /\ client[c] \in Procs
    BY <1>5 DEF Initialized, SpawnInv
  <2>2. clients'[s].c = client[c] /\ \A r \in Servers \ {s} : clients'[r] = clients[r]
    BY <1>5, <2>1 DEF Initialized, ResetIdleTimer, TypeOK
  <2>3. \A d \in Callers : pc[d] = "initialize" => d = c
    BY <2>1 DEF SpawnInv
  <2>4. clients[s].c # p
    BY <2>1, Unpooled
  <2>5. IsOpen(p)
    BY <1>5 DEF Initialized, procVars, IsOpen
  <2> QED BY <1>1, <2>1, <2>2, <2>3, <2>4, <2>5 DEF Owned
<1>6. ASSUME NEW c \in Callers, InitializeFails(c) PROVE Owned(p)'
  <2>1. client[c] \in Procs /\ holder = c
    BY <1>6 DEF InitializeFails, SpawnInv
  <2>2. p # client[c] /\ IsOpen(p)
    BY <1>6, <2>1 DEF InitializeFails, IsOpen, TypeOK
  <2>3. \A d \in Callers : pc[d] = "initialize" => d = c
    BY <2>1 DEF SpawnInv
  <2> QED BY <1>1, <1>6, <2>2, <2>3 DEF InitializeFails, Owned
<1>7. ASSUME NEW s \in Servers, Evict(s) PROVE Owned(p)'
  <2>1. CASE Current(Head(fired[s]))
    <3>1. clients' = [clients EXCEPT ![s] = NoEntry] /\ proc' = [proc EXCEPT ![clients[s].c] = "closed"]
      BY <1>7, <2>1 DEF Evict
    <3>2. p # clients[s].c /\ IsOpen(p)
      BY <3>1 DEF IsOpen, TypeOK
    <3>3. \A r \in Servers \ {s} : clients'[r] = clients[r]
      BY <3>1 DEF TypeOK
    <3>4. UNCHANGED <<pc, client>>
      BY <1>7 DEF Evict, callerVars
    <3> QED BY <1>1, <3>2, <3>3, <3>4 DEF Owned
  <2>2. CASE ~Current(Head(fired[s]))
    BY <1>2, <1>7, <2>2 DEF Evict, IsOpen, callerVars
  <2> QED BY <2>1, <2>2
<1>8. ASSUME NEW q \in Procs, Die(q) PROVE Owned(p)'
  <2>1. IsOpen(p)
    BY <1>8 DEF Die, IsOpen, TypeOK
  <2> QED BY <1>2, <1>8, <2>1 DEF Die, poolVars, callerVars
<1>9. CASE Shutdown
  <2>1. proc'[p] = IF \E s \in Servers : clients[s].c = p THEN "closed" ELSE proc[p]
    BY <1>9 DEF Shutdown
  <2>2. IsOpen(p) /\ ~\E s \in Servers : clients[s].c = p
    BY <2>1 DEF IsOpen
  <2>3. \A d \in Callers : pc[d] # "initialize"
    BY <1>9, CallersAssumption DEF Shutdown, SpawnInv
  <2> QED BY <1>1, <2>2, <2>3 DEF Owned
<1>10. ASSUME NEW c \in Callers, AcquireUnknown(c) \/ LaunchFails(c) \/ Return(c) PROVE Owned(p)'
  BY <1>2, <1>10 DEF AcquireUnknown, LaunchFails, Return, Missing, Locking, Leave, poolVars, procVars, IsOpen, TypeOK
<1>11. ASSUME NEW c \in Callers, NEW s \in Servers \cup Strangers, Call(c, s) PROVE Owned(p)'
  BY <1>2, <1>11 DEF Call, poolVars, procVars, IsOpen, TypeOK
<1>12. CASE Drain \/ UNCHANGED vars \/ \E t \in armed : Fire(t)
  BY <1>2, <1>12 DEF Drain, Fire, vars, poolVars, procVars, callerVars, IsOpen
<1> QED BY <1>3, <1>4, <1>5, <1>6, <1>7, <1>8, <1>9, <1>10, <1>11, <1>12 DEF Next, Acquire

\* No subprocess is lost, whatever fails on the way: what demesne has not closed
\* is in the pool or in the hands of the caller that launches it.
THEOREM NoLeakHolds == Spec => []NoLeak
<1>1. Init => NoLeak
  BY DEF Init, NoLeak, IsOpen
<1> QED BY <1>1, NoLeakStep, PoolInvariant, PTL DEF Spec

-------------------------------------------------------------------------------
(* Every pooled client has a timer *)

\* The timer that ResetIdleTimer arms, and those it leaves running.
LEMMA ResetTimers ==
  ASSUME TypeOK, NEW s \in Servers, NEW uc \in Entries, ResetIdleTimer(s, uc)
  PROVE  /\ \E t \in armed' : t.server = s /\ t.c = clients'[s].c /\ t.generation = clients'[s].generation
         /\ clients'[s].c = uc.c
         /\ \A r \in Servers \ {s} : clients'[r] = clients[r]
         /\ \A t \in armed : t.c # uc.c => t \in armed'
<1> DEFINE new == [server |-> s, generation |-> uc.generation + 1, c |-> uc.c]
<1>1. clients' = [clients EXCEPT ![s] = [c |-> uc.c, generation |-> uc.generation + 1]]
      /\ armed' = (armed \ Running(uc)) \cup {new}
  BY DEF ResetIdleTimer
<1>2. clients'[s] = [c |-> uc.c, generation |-> uc.generation + 1]
  BY <1>1 DEF TypeOK
<1>3. new \in armed' /\ new.server = s /\ new.c = clients'[s].c /\ new.generation = clients'[s].generation
  BY <1>1, <1>2
<1>4. \A t \in armed : t.c # uc.c => t \in armed'
  BY <1>1 DEF Running
<1>5. \A r \in Servers \ {s} : clients'[r] = clients[r]
  BY <1>1 DEF TypeOK
<1> QED BY <1>2, <1>3, <1>4, <1>5

\* The server s, if it has an entry, has the timer that will close it.
Guarded(s) ==
  Pooled(s) => \/ \E t \in armed : t.server = s /\ Guards(t, s)
               \/ \E i \in DOMAIN fired[s] : Guards(fired[s][i], s)

LEMMA GuardedStep == ASSUME PoolInv, NEW s \in Servers, Guarded(s), [Next]_vars PROVE Guarded(s)'
<1> USE DEF PoolInv
<1>1. ASSUME clients'[s] = clients[s], fired'[s] = fired[s],
             \A t \in armed : t.server = s /\ Guards(t, s) => t \in armed'
      PROVE  Guarded(s)'
  BY <1>1 DEF Guarded, Guards, Pooled
\* Another server's reset, or the reset of s itself.
<1>2. ASSUME NEW r \in Servers, NEW uc \in Entries, ResetIdleTimer(r, uc), UNCHANGED fired,
             r # s /\ Pooled(s) => clients[s].c # uc.c
      PROVE  Guarded(s)'
  <2>1. CASE r = s
    BY <1>2, <2>1, ResetTimers DEF Guarded, Guards
  <2>2. CASE r # s
    <3>1. clients'[s] = clients[s] /\ \A t \in armed : t.c # uc.c => t \in armed'
      BY <1>2, <2>2, ResetTimers
    <3> QED BY <1>2, <2>2, <3>1 DEF Guarded, Guards, Pooled
  <2> QED BY <2>1, <2>2
<1>3. ASSUME NEW c \in Callers, AcquireHit(c) PROVE Guarded(s)'
  <2>1. server[c] \in Servers /\ Pooled(server[c]) /\ clients[server[c]] \in Entries
    BY <1>3 DEF AcquireHit, TypeOK
  <2>2. server[c] # s /\ Pooled(s) => clients[s].c # clients[server[c]].c
    BY <2>1 DEF ClientsInv
  <2> QED BY <1>2, <1>3, <2>1, <2>2 DEF AcquireHit
<1>4. ASSUME NEW c \in Callers, Initialized(c) PROVE Guarded(s)'
  <2>1. PICK uc : uc = [c |-> client[c], generation |-> 0]
    OBVIOUS
  <2>2. server[c] \in Servers /\ uc \in Entries /\ clients[s].c # uc.c
    BY <1>4, <2>1 DEF Initialized, SpawnInv, Entries
  <2> QED BY <1>2, <1>4, <2>1, <2>2 DEF Initialized
<1>5. ASSUME NEW t \in armed, Fire(t) PROVE Guarded(s)'
  <2>1. CASE t.server = s
    <3>1. fired'[s] = Append(fired[s], t) /\ armed' = armed \ {t} /\ UNCHANGED clients /\ fired[s] \in Seq(Timers)
      BY <1>5, <2>1 DEF Fire, TypeOK
    <3>2. \A i \in DOMAIN fired[s] : i \in DOMAIN fired'[s] /\ fired'[s][i] = fired[s][i]
      BY <3>1
    <3>3. Len(fired[s]) + 1 \in DOMAIN fired'[s] /\ fired'[s][Len(fired[s]) + 1] = t
      BY <3>1
    <3> QED BY <3>1, <3>2, <3>3 DEF Guarded, Guards, Pooled
  <2>2. CASE t.server # s
    BY <1>1, <1>5, <2>2 DEF Fire, TypeOK
  <2> QED BY <2>1, <2>2
<1>6. ASSUME NEW r \in Servers, Evict(r) PROVE Guarded(s)'
  <2>1. CASE r # s
    BY <1>1, <1>6, <2>1 DEF Evict, TypeOK
  <2>2. CASE r = s
    <3>1. fired[s] \in Seq(Timers) /\ fired[s] # <<>> /\ fired'[s] = Tail(fired[s]) /\ UNCHANGED armed
      BY <1>6, <2>2 DEF Evict, TypeOK
    <3>2. Head(fired[s]) = fired[s][1] /\ 1 \in DOMAIN fired[s] /\ Head(fired[s]).server = s
      BY <3>1 DEF FiredInv
    <3>3. CASE Current(Head(fired[s]))
      BY <1>6, <2>2, <3>3 DEF Evict, TypeOK, Guarded, Pooled
    <3>4. CASE ~Current(Head(fired[s]))
      <4>1. UNCHANGED clients
        BY <1>6, <2>2, <3>4 DEF Evict
      <4>2. Pooled(s) => ~Guards(fired[s][1], s)
        BY <3>2, <3>4 DEF Current, Guards
      <4>3. \A i \in DOMAIN fired[s] : i # 1 => i - 1 \in DOMAIN fired'[s] /\ fired'[s][i - 1] = fired[s][i]
        BY <3>1
      <4> QED BY <3>1, <4>1, <4>2, <4>3 DEF Guarded, Guards, Pooled
    <3> QED BY <3>3, <3>4
  <2> QED BY <2>1, <2>2
<1>7. CASE Shutdown
  BY <1>7 DEF Shutdown, Guarded, Pooled
<1>8. CASE UNCHANGED <<clients, armed, fired>>
  BY <1>1, <1>8
<1> QED BY <1>3, <1>4, <1>5, <1>6, <1>7, <1>8
        DEF Next, vars, Acquire, Call, AcquireUnknown, LaunchFails, Launch, InitializeFails, Return,
            Die, Drain, poolVars

\* Every pooled client has the timer that will close it, however calls, timers,
\* evictions and a shutdown interleave: no idle subprocess is forgotten.
THEOREM TimerGuardsHolds == Spec => []TimerGuards
<1>1. TimerGuards <=> \A s \in Servers : Guarded(s)
  BY DEF TimerGuards, Guarded, TimersOf
<1>2. Init => TimerGuards
  BY DEF Init, TimerGuards, Pooled
<1>3. PoolInv /\ TimerGuards /\ [Next]_vars => \A s \in Servers : Guarded(s)'
  BY <1>1, GuardedStep
<1>4. (\A s \in Servers : Guarded(s)') => TimerGuards'
  BY DEF TimerGuards, Guarded, TimersOf
<1> QED BY <1>2, <1>3, <1>4, PoolInvariant, PTL DEF Spec

\* A pooled client is open and has the timer that will close it.
THEOREM PooledIsTendedHolds == Spec => []PooledIsTended
<1>1. PooledIsOpen /\ TimerGuards => PooledIsTended
  BY DEF PooledIsTended
<1> QED BY <1>1, PooledIsOpenHolds, TimerGuardsHolds, PTL

-------------------------------------------------------------------------------
(* Until Shutdown, generations tell timers apart.  The timers of a server are *)
(* all of the client it has now, those that fired have ascending generations, *)
(* and a running one has the latest.  Shutdown breaks the first part: it      *)
(* removes a client whose fired timers still wait.                            *)

OwnTimers(s) ==
  /\ ~Pooled(s) => fired[s] = <<>> /\ \A t \in armed : t.server # s
  /\ \A t \in armed : t.server = s => Guards(t, s)
  /\ \A i \in DOMAIN fired[s] :
       fired[s][i].c = clients[s].c /\ fired[s][i].generation <= clients[s].generation
  /\ \A i, k \in DOMAIN fired[s] : i < k => fired[s][i].generation < fired[s][k].generation
  /\ \A t \in armed : t.server = s =>
       \A i \in DOMAIN fired[s] : fired[s][i].generation < t.generation

OwnInv     == \A s \in Servers : OwnTimers(s)
ServingInv == phase # "closed" => OwnInv

\* A timer that has fired has a generation.
LEMMA FiredType ==
  ASSUME PoolInv, NEW s \in Servers, NEW i \in DOMAIN fired[s]
  PROVE  i \in Nat /\ 1 <= i /\ fired[s][i].generation \in Nat
<1>1. fired[s] \in Seq(Timers)
  BY DEF PoolInv, TypeOK
<1>2. i \in Nat /\ 1 <= i /\ fired[s][i] \in Timers
  BY <1>1
<1> QED BY <1>2 DEF Timers

\* A reset leaves the server with one timer, the latest.
LEMMA OwnReset ==
  ASSUME PoolInv, OwnInv, NEW s \in Servers, NEW uc \in Entries, uc.c \in Procs,
         ResetIdleTimer(s, uc), UNCHANGED fired,
         Pooled(s) => uc = clients[s], NEW r \in Servers
  PROVE  OwnTimers(r)'
<1> DEFINE new == [server |-> s, generation |-> uc.generation + 1, c |-> uc.c]
<1>1. clients' = [clients EXCEPT ![s] = [c |-> uc.c, generation |-> uc.generation + 1]]
      /\ armed' = (armed \ Running(uc)) \cup {new} /\ uc.generation \in Nat
  BY DEF ResetIdleTimer, Entries
<1>2. OwnTimers(r)
  BY DEF OwnInv
<1>3. CASE r = s
  <2>1. clients'[s].c = uc.c /\ clients'[s].generation = uc.generation + 1
    BY <1>1 DEF PoolInv, TypeOK
  <2>2. Pooled(s)'
    BY <2>1 DEF Pooled, NoEntry, Procs
  <2>3. \A t \in armed' : t.server = s => t = new
    BY <1>1, <1>2, <1>3 DEF OwnTimers, Guards, Running
  <2>4. new.c = uc.c /\ new.generation = uc.generation + 1
    OBVIOUS
  <2>5. \A i \in DOMAIN fired[s] : fired[s][i].c = uc.c /\ fired[s][i].generation <= uc.generation
                                  /\ fired[s][i].generation \in Nat
    <3>2. \A i \in DOMAIN fired[s] : fired[s][i].generation \in Nat
      BY FiredType
    <3>3. CASE Pooled(s)
      BY <1>2, <1>3, <3>2, <3>3 DEF OwnTimers
    <3>4. CASE ~Pooled(s)
      BY <1>2, <1>3, <3>4 DEF OwnTimers
    <3> QED BY <3>3, <3>4
  <2>6. \A i \in DOMAIN fired[s] : fired[s][i].generation < uc.generation + 1
                                  /\ fired[s][i].generation <= uc.generation + 1
    BY <1>1, <2>5
  <2> HIDE DEF new
  <2> QED BY <1>2, <1>3, <2>1, <2>2, <2>3, <2>4, <2>5, <2>6 DEF OwnTimers, Guards
<1>4. CASE r # s
  <2>1. clients'[r] = clients[r]
    BY <1>1, <1>4 DEF PoolInv, TypeOK
  <2>2. \A t \in armed' : t.server = r => t \in armed
    BY <1>1, <1>4
  <2> QED BY <1>2, <2>1, <2>2 DEF OwnTimers, Guards, Pooled
<1> QED BY <1>3, <1>4

LEMMA OwnFire ==
  ASSUME PoolInv, OwnInv, NEW t \in armed, Fire(t), NEW s \in Servers
  PROVE  OwnTimers(s)'
<1>1. t \in Timers /\ t.server \in Servers /\ UNCHANGED clients /\ armed' = armed \ {t} /\ OwnTimers(s)
  BY DEF PoolInv, TypeOK, Timers, Fire, OwnInv
<1>2. CASE s # t.server
  BY <1>1, <1>2 DEF Fire, PoolInv, TypeOK, OwnTimers, Guards, Pooled
<1>3. CASE s = t.server
  <2>1. fired[s] \in Seq(Timers) /\ fired'[s] = Append(fired[s], t)
    BY <1>1, <1>3 DEF Fire, PoolInv, TypeOK
  <2>2. \A i \in DOMAIN fired'[s] : \/ i \in DOMAIN fired[s] /\ fired'[s][i] = fired[s][i]
                                    \/ i = Len(fired[s]) + 1 /\ fired'[s][i] = t
    BY <2>1
  <2>3. Pooled(s) /\ Guards(t, s) /\ t.generation \in Nat
        /\ \A i \in DOMAIN fired[s] : fired[s][i].generation < t.generation
    BY <1>1, <1>3 DEF OwnTimers, Timers
  <2>4. \A u \in armed' : u.server # s
    <3> SUFFICES ASSUME NEW u \in armed, u # t, u.server = s PROVE FALSE
      BY <1>1
    <3>1. u \in Timers /\ Guards(u, s)
      BY <1>1 DEF PoolInv, TypeOK, OwnTimers
    <3> QED BY <1>1, <1>3, <2>3, <3>1 DEF Guards, Timers
  <2>5. \A i \in DOMAIN fired[s] : i < Len(fired[s]) + 1
    BY <2>1
  <2>6. \A i \in DOMAIN fired'[s] :
          fired'[s][i].c = clients[s].c /\ fired'[s][i].generation <= clients[s].generation
    BY <1>1, <2>2, <2>3 DEF OwnTimers, Guards
  <2>7. \A i, k \in DOMAIN fired'[s] : i < k => fired'[s][i].generation < fired'[s][k].generation
    <3> SUFFICES ASSUME NEW i \in DOMAIN fired'[s], NEW k \in DOMAIN fired'[s], i < k
                 PROVE  fired'[s][i].generation < fired'[s][k].generation
      OBVIOUS
    <3>1. i \in DOMAIN fired[s] /\ fired'[s][i] = fired[s][i]
      BY <2>1, <2>2
    <3> QED BY <1>1, <2>2, <2>3, <3>1 DEF OwnTimers
  <2> QED BY <1>1, <2>3, <2>4, <2>6, <2>7 DEF OwnTimers, Guards, Pooled
<1> QED BY <1>2, <1>3

LEMMA OwnEvict ==
  ASSUME PoolInv, OwnInv, NEW r \in Servers, Evict(r), NEW s \in Servers
  PROVE  /\ OwnTimers(s)'
         /\ fired'[s] # fired[s] /\ clients'[s] # clients[s] => Guards(Head(fired[s]), s)
<1>1. OwnTimers(s) /\ UNCHANGED armed
  BY DEF OwnInv, Evict
<1>2. CASE s # r
  BY <1>1, <1>2 DEF Evict, PoolInv, TypeOK, OwnTimers, Guards, Pooled
<1>3. CASE s = r
  <2>1. fired[s] \in Seq(Timers) /\ fired[s] # <<>> /\ fired'[s] = Tail(fired[s])
    BY <1>3 DEF Evict, PoolInv, TypeOK
  <2>2. Head(fired[s]) = fired[s][1] /\ 1 \in DOMAIN fired[s] /\ Head(fired[s]).server = s
    BY <2>1 DEF PoolInv, FiredInv
  <2>3. CASE Current(Head(fired[s]))
    <3>1. Guards(Head(fired[s]), s)
      BY <1>1, <2>2, <2>3 DEF Current, Guards, OwnTimers
    <3>2. \A i \in DOMAIN fired[s] : i = 1
      <4> SUFFICES ASSUME NEW i \in DOMAIN fired[s], i # 1 PROVE FALSE
        OBVIOUS
      <4>1. 1 < i /\ fired[s][1].generation \in Nat /\ fired[s][i].generation \in Nat
        BY <2>2, FiredType
      <4>2. fired[s][1].generation < fired[s][i].generation /\ fired[s][i].generation <= fired[s][1].generation
        BY <1>1, <2>2, <3>1, <4>1 DEF OwnTimers, Guards
      <4> QED BY <4>1, <4>2
    <3>3. fired'[s] = <<>>
      <4>1. Len(fired[s]) = 1
        <5>1. Len(fired[s]) \in Nat /\ DOMAIN fired[s] = 1..Len(fired[s]) /\ Len(fired[s]) # 0
          BY <2>1
        <5>2. Len(fired[s]) \in DOMAIN fired[s]
          BY <5>1
        <5> QED BY <3>2, <5>2
      <4>2. Tail(fired[s]) \in Seq(Timers) /\ Len(Tail(fired[s])) = 0
        BY <2>1, <4>1
      <4> QED BY <2>1, <4>2, EmptySeq
    <3>4. \A t \in armed : t.server # s
      <4> SUFFICES ASSUME NEW t \in armed, t.server = s PROVE FALSE
        OBVIOUS
      <4>1. t.generation = fired[s][1].generation /\ fired[s][1].generation < t.generation
        BY <1>1, <2>2, <3>1 DEF OwnTimers, Guards
      <4>2. t.generation \in Nat
        BY DEF PoolInv, TypeOK, Timers
      <4> QED BY <4>1, <4>2
    <3> QED BY <1>1, <3>1, <3>3, <3>4 DEF OwnTimers
  <2>4. CASE ~Current(Head(fired[s]))
    <3>1. UNCHANGED clients
      BY <1>3, <2>4 DEF Evict
    <3>2. \A i \in DOMAIN fired'[s] : i + 1 \in DOMAIN fired[s] /\ fired'[s][i] = fired[s][i + 1] /\ i \in Nat
      BY <2>1
    <3>3. Pooled(s)
      BY <1>1, <2>1 DEF OwnTimers
    <3>4. \A i, k \in DOMAIN fired'[s] : i < k => fired'[s][i].generation < fired'[s][k].generation
      BY <1>1, <3>2 DEF OwnTimers
    <3> QED BY <1>1, <3>1, <3>2, <3>3, <3>4 DEF OwnTimers, Guards, Pooled
  <2> QED BY <2>3, <2>4
<1> QED BY <1>2, <1>3

LEMMA OwnStep ==
  ASSUME PoolInv, OwnInv, [Next]_vars, ~Shutdown
  PROVE  /\ OwnInv'
         /\ \A s \in Servers :
              fired'[s] # fired[s] /\ clients'[s] # clients[s] => Guards(Head(fired[s]), s)
<1> SUFFICES ASSUME NEW s \in Servers
             PROVE  /\ OwnTimers(s)'
                    /\ fired'[s] # fired[s] /\ clients'[s] # clients[s] => Guards(Head(fired[s]), s)
  BY DEF OwnInv
<1>1. ASSUME NEW c \in Callers, AcquireHit(c) PROVE OwnTimers(s)' /\ UNCHANGED fired
  <2>1. server[c] \in Servers /\ Pooled(server[c]) /\ clients[server[c]] \in Entries
        /\ clients[server[c]].c \in Procs
    BY <1>1 DEF AcquireHit, PoolInv, TypeOK, ClientsInv
  <2> QED BY <1>1, <2>1, OwnReset DEF AcquireHit
<1>2. ASSUME NEW c \in Callers, Initialized(c) PROVE OwnTimers(s)' /\ UNCHANGED fired
  <2>1. PICK uc : uc = [c |-> client[c], generation |-> 0]
    OBVIOUS
  <2>2. server[c] \in Servers /\ uc \in Entries /\ uc.c \in Procs /\ ~Pooled(server[c])
    BY <1>2, <2>1 DEF Initialized, PoolInv, SpawnInv, Entries
  <2> QED BY <1>2, <2>1, <2>2, OwnReset DEF Initialized
<1>3. ASSUME UNCHANGED <<clients, armed, fired>> PROVE OwnTimers(s)' /\ UNCHANGED fired
  BY <1>3 DEF OwnInv, OwnTimers, Guards, Pooled
<1>4. ASSUME NEW t \in armed, Fire(t) PROVE OwnTimers(s)' /\ UNCHANGED clients
  BY <1>4, OwnFire DEF Fire
<1>5. ASSUME NEW r \in Servers, Evict(r)
      PROVE  /\ OwnTimers(s)'
             /\ fired'[s] # fired[s] /\ clients'[s] # clients[s] => Guards(Head(fired[s]), s)
  BY <1>5, OwnEvict
<1> QED BY <1>1, <1>2, <1>3, <1>4, <1>5
        DEF Next, vars, Acquire, Call, AcquireUnknown, LaunchFails, Launch, InitializeFails, Return,
            Die, Drain, poolVars

\* A pool that is shut down stays so.
LEMMA ClosedStays ==
  ASSUME phase = "closed", [Next]_vars
  PROVE  phase' = "closed"
BY DEF Next, vars, Acquire, Call, AcquireUnknown, AcquireHit, LaunchFails, Launch, Initialized,
       InitializeFails, Return, Fire, Evict, Die, Drain, Shutdown

\* Until the pool is shut down, an evict closes only the client its timer was
\* armed for, and only if nobody acquired it since.
THEOREM EvictsItsOwnHolds == Spec => EvictsItsOwn
<1>1. Init => ServingInv
  <2> SUFFICES ASSUME Init, NEW s \in Servers PROVE OwnTimers(s)
    BY DEF ServingInv, OwnInv
  <2>1. armed = {} /\ fired[s] = <<>> /\ ~Pooled(s)
    BY DEF Init, Pooled
  <2> QED BY <2>1 DEF OwnTimers
<1>2. PoolInv /\ ServingInv /\ [Next]_vars => ServingInv'
  <2> SUFFICES ASSUME PoolInv, ServingInv, [Next]_vars, phase' # "closed" PROVE OwnInv'
    BY DEF ServingInv
  <2>1. ~Shutdown /\ OwnInv
    BY ClosedStays DEF ServingInv, Shutdown
  <2> QED BY <2>1, OwnStep
<1>3. PoolInv /\ ServingInv /\ [Next]_vars
        => [\A s \in Servers :
              phase # "closed" /\ fired'[s] # fired[s] /\ clients'[s] # clients[s]
                => Guards(Head(fired[s]), s)]_vars
  <2> SUFFICES ASSUME PoolInv, ServingInv, [Next]_vars, NEW s \in Servers,
                      phase # "closed", fired'[s] # fired[s]
               PROVE  clients'[s] # clients[s] => Guards(Head(fired[s]), s)
    OBVIOUS
  <2>1. ~Shutdown /\ OwnInv
    BY DEF ServingInv, Shutdown
  <2> QED BY <2>1, OwnStep
<1> QED BY <1>1, <1>2, <1>3, PoolInvariant, PTL DEF Spec, EvictsItsOwn
===============================================================================
