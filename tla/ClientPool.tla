------------------------------- MODULE ClientPool -------------------------------
(***************************************************************************)
(* The pool of upstream MCP clients of internal/mcpproxy/clients.go, with  *)
(* the Aggregator.Shutdown that ends it.                                   *)
(*                                                                         *)
(* One mutex, p.mu, guards the pool.  A hit, an eviction and a shutdown    *)
(* are one critical section each; a spawn keeps the mutex from the launch  *)
(* of the subprocess to the end of its Initialize handshake, which is why  *)
(* holder is a variable.  A call on the client runs without the mutex.     *)
(*                                                                         *)
(* A timer that has fired is a goroutine waiting for p.mu.  Those of one   *)
(* server are served in the order they fired: they are a whole idleTimeout *)
(* apart, and sync.Mutex hands over in order after a millisecond.          *)
(*                                                                         *)
(* The upstreams are external: a launch or a handshake may fail, a         *)
(* subprocess may die, a call may last for ever.                           *)
(***************************************************************************)
EXTENDS Naturals, Sequences

CONSTANTS
  Servers,       \* the keys of p.specs
  Strangers,     \* server names a call may ask for that have no spec
  Callers,       \* goroutines that handle calls
  Nobody,        \* not a caller
  MaxSpawns,     \* bound on the subprocesses launched
  MaxCalls,      \* bound on the calls made
  MaxShutdowns   \* 0 in an instance that never shuts down, else 1

ASSUME ServersAssumption   == Servers \cap Strangers = {}
ASSUME CallersAssumption   == Nobody \notin Callers
ASSUME BoundsAssumption    == MaxSpawns \in Nat /\ MaxCalls \in Nat /\ MaxShutdowns \in Nat

VARIABLES
  clients,       \* p.clients: the client and generation of each server
  armed,         \* the idle timers that run
  fired,         \* per server, the timers waiting in evict for p.mu
  holder,        \* the caller that keeps p.mu through a spawn
  proc,          \* the subprocess of each client: "none", "up", "dead", "closed"
  spawned,       \* the number of subprocesses launched
  pc, server, client,   \* per caller: where it is, what it asked for and got
  phase,         \* "serving", "draining" in httpSrv.Shutdown, "closed"
  calls          \* the calls made, for MaxCalls

poolVars   == <<clients, armed, fired, holder>>
procVars   == <<proc, spawned>>
callerVars == <<pc, server, client>>
vars       == <<poolVars, procVars, callerVars, phase, calls>>

-------------------------------------------------------------------------------
Procs   == 1..MaxSpawns
Entries == [c : Procs \cup {0}, generation : Nat]
NoEntry == [c |-> 0, generation |-> 0]
\* An idle timer belongs to the upstreamClient of c; its callback captures the
\* server and the generation only.
Timers  == [server : Servers, generation : Nat, c : Procs]

Pooled(s) == clients[s] # NoEntry
IsOpen(p) == proc[p] \in {"up", "dead"}        \* not closed by demesne

Init ==
  /\ clients = [s \in Servers |-> NoEntry]
  /\ armed   = {}
  /\ fired   = [s \in Servers |-> <<>>]
  /\ holder  = Nobody
  /\ proc    = [p \in Procs |-> "none"]
  /\ spawned = 0
  /\ pc      = [c \in Callers |-> "idle"]
  /\ server  = [c \in Callers |-> Nobody]
  /\ client  = [c \in Callers |-> 0]
  /\ phase   = "serving"
  /\ calls   = 0

TimersOf(s) == {t \in armed : t.server = s}
Running(uc)  == {t \in armed : t.c = uc.c}       \* uc.idleTimer, unless it fired

\* Mutant: the callback captures the generation before it is advanced.
ResetIdleTimerEarly(s, uc) ==
  /\ clients' = [clients EXCEPT ![s] = [c |-> uc.c, generation |-> uc.generation + 1]]
  /\ armed'   = (armed \ Running(uc))
                  \cup {[server |-> s, generation |-> uc.generation, c |-> uc.c]}
\* Mutant: only a new client gets a timer.
ResetIdleTimerOnce(s, uc) ==
  /\ clients' = [clients EXCEPT ![s] = [c |-> uc.c, generation |-> uc.generation + 1]]
  /\ armed'   = armed \cup {[server |-> s, generation |-> 1, c |-> uc.c]}
\* p.resetIdleTimerLocked.  Stop has no effect on a timer that has fired.
ResetIdleTimer(s, uc) ==
  LET gen == uc.generation + 1 IN
  /\ clients' = [clients EXCEPT ![s] = [c |-> uc.c, generation |-> gen]]
  /\ armed'   = (armed \ Running(uc))
                  \cup {[server |-> s, generation |-> gen, c |-> uc.c]}

-------------------------------------------------------------------------------
(* Calls *)

\* A handler calls p.CallTool or one of its siblings.
Call(c, s) ==
  /\ pc[c] = "idle" /\ phase = "serving" /\ calls < MaxCalls
  /\ pc'     = [pc EXCEPT ![c] = "acquire"]
  /\ server' = [server EXCEPT ![c] = s]
  /\ calls'  = calls + 1
  /\ UNCHANGED <<poolVars, procVars, client, phase>>

\* The call is over.
Leave(c) ==
  /\ pc'     = [pc EXCEPT ![c] = "idle"]
  /\ server' = [server EXCEPT ![c] = Nobody]
  /\ client' = [client EXCEPT ![c] = 0]

Locking(c) == pc[c] = "acquire" /\ holder = Nobody

\* p.acquire of a name that has no spec.
AcquireUnknown(c) ==
  /\ Locking(c) /\ server[c] \notin Servers
  /\ Leave(c)
  /\ UNCHANGED <<poolVars, procVars, phase, calls>>

\* p.acquire of a pooled client.
AcquireHit(c) ==
  /\ Locking(c) /\ server[c] \in Servers /\ Pooled(server[c])
  /\ ResetIdleTimer(server[c], clients[server[c]])
  /\ pc'     = [pc EXCEPT ![c] = "calling"]
  /\ client' = [client EXCEPT ![c] = clients[server[c]].c]
  /\ UNCHANGED <<fired, holder, procVars, server, phase, calls>>

Missing(c) == Locking(c) /\ server[c] \in Servers /\ ~Pooled(server[c])

\* spawnClient: the subprocess cannot be launched.
LaunchFails(c) ==
  /\ Missing(c)
  /\ Leave(c)
  /\ UNCHANGED <<poolVars, procVars, phase, calls>>

\* Mutant: p.mu is not kept through the handshake.
LaunchUnlocked(c) ==
  /\ Missing(c) /\ spawned < MaxSpawns
  /\ spawned' = spawned + 1
  /\ proc'    = [proc EXCEPT ![spawned + 1] = "up"]
  /\ pc'      = [pc EXCEPT ![c] = "initialize"]
  /\ client'  = [client EXCEPT ![c] = spawned + 1]
  /\ UNCHANGED <<clients, armed, fired, holder, server, phase, calls>>
\* spawnClient: the subprocess runs and the handshake begins.
Launch(c) ==
  /\ Missing(c) /\ spawned < MaxSpawns
  /\ spawned' = spawned + 1
  /\ proc'    = [proc EXCEPT ![spawned + 1] = "up"]
  /\ holder'  = c
  /\ pc'      = [pc EXCEPT ![c] = "initialize"]
  /\ client'  = [client EXCEPT ![c] = spawned + 1]
  /\ UNCHANGED <<clients, armed, fired, server, phase, calls>>

Initialized(c) ==
  /\ pc[c] = "initialize" /\ proc[client[c]] = "up"
  /\ ResetIdleTimer(server[c], [c |-> client[c], generation |-> 0])
  /\ holder' = Nobody
  /\ pc'     = [pc EXCEPT ![c] = "calling"]
  /\ UNCHANGED <<fired, procVars, server, client, phase, calls>>

\* Mutant: the error path forgets the mutex.
InitializeFailsLocked(c) ==
  /\ pc[c] = "initialize"
  /\ proc' = [proc EXCEPT ![client[c]] = "closed"]
  /\ Leave(c)
  /\ UNCHANGED <<clients, armed, fired, holder, spawned, phase, calls>>
\* The upstream refuses, dies, or the caller's context ends.
InitializeFails(c) ==
  /\ pc[c] = "initialize"
  /\ proc'   = [proc EXCEPT ![client[c]] = "closed"]
  /\ holder' = Nobody
  /\ Leave(c)
  /\ UNCHANGED <<clients, armed, fired, spawned, phase, calls>>

\* The call on the client is over, with a result or an error.
Return(c) ==
  /\ pc[c] = "calling"
  /\ Leave(c)
  /\ UNCHANGED <<poolVars, procVars, phase, calls>>

-------------------------------------------------------------------------------
(* Idle timers, dying subprocesses, shutdown *)

Fire(t) ==
  /\ t \in armed
  /\ armed' = armed \ {t}
  /\ fired' = [fired EXCEPT ![t.server] = Append(@, t)]
  /\ UNCHANGED <<clients, holder, procVars, callerVars, phase, calls>>

\* Mutant: the generation is not looked at.
CurrentAny(t) == Pooled(t.server)
\* The timer is about the client that is pooled, as far as evict can tell.
Current(t) == Pooled(t.server) /\ clients[t.server].generation = t.generation

\* p.evict
Evict(s) ==
  /\ holder = Nobody /\ fired[s] # <<>>
  /\ fired' = [fired EXCEPT ![s] = Tail(@)]
  /\ IF Current(Head(fired[s]))
     THEN /\ proc'    = [proc EXCEPT ![clients[s].c] = "closed"]
          /\ clients' = [clients EXCEPT ![s] = NoEntry]
     ELSE UNCHANGED <<proc, clients>>
  /\ UNCHANGED <<armed, holder, spawned, callerVars, phase, calls>>

\* A subprocess dies.  The pool is not told.
Die(p) ==
  /\ proc[p] = "up"
  /\ proc' = [proc EXCEPT ![p] = "dead"]
  /\ UNCHANGED <<poolVars, spawned, callerVars, phase, calls>>

\* Aggregator.Shutdown: no new requests.
Drain ==
  /\ phase = "serving" /\ MaxShutdowns > 0
  /\ phase' = "draining"
  /\ UNCHANGED <<poolVars, procVars, callerVars, calls>>

\* httpSrv.Shutdown returns when the handlers are done or its context ends, so
\* at any time; then p.Shutdown.
Shutdown ==
  /\ phase = "draining" /\ holder = Nobody
  /\ armed'   = armed \ {t \in armed : clients[t.server].c = t.c}
  /\ proc'    = [p \in Procs |-> IF \E s \in Servers : clients[s].c = p
                                 THEN "closed" ELSE proc[p]]
  /\ clients' = [s \in Servers |-> NoEntry]
  /\ phase'   = "closed"
  /\ UNCHANGED <<fired, holder, spawned, callerVars, calls>>

Acquire(c) == AcquireUnknown(c) \/ AcquireHit(c) \/ LaunchFails(c) \/ Launch(c)
Next ==
  \/ \E c \in Callers, s \in Servers \cup Strangers : Call(c, s)
  \/ \E c \in Callers : Acquire(c) \/ Initialized(c) \/ InitializeFails(c) \/ Return(c)
  \/ \E t \in armed : Fire(t)
  \/ \E s \in Servers : Evict(s)
  \/ \E p \in Procs : Die(p)
  \/ Drain \/ Shutdown

Spec == Init /\ [][Next]_vars

\* A timer fires.  A goroutine that waits for p.mu gets it in the end, though
\* others take it before.  A handshake ends, if only because the request that
\* asked for it is given up.  A call on a client may last for ever, and no
\* upstream has to die.
Fairness ==
  /\ \A c \in Callers : SF_vars(Acquire(c)) /\ WF_vars(Initialized(c) \/ InitializeFails(c))
  /\ \A s \in Servers : WF_vars(\E t \in TimersOf(s) : Fire(t)) /\ SF_vars(Evict(s))
  /\ SF_vars(Shutdown)
FairSpec == Spec /\ Fairness

-------------------------------------------------------------------------------
(* Types *)

\* Every variable keeps its type.
TypeOK ==
  /\ clients \in [Servers -> Entries]
  /\ armed \in SUBSET Timers
  /\ fired \in [Servers -> Seq(Timers)]
  /\ holder \in Callers \cup {Nobody}
  /\ proc \in [Procs -> {"none", "up", "dead", "closed"}]
  /\ spawned \in 0..MaxSpawns
  /\ pc \in [Callers -> {"idle", "acquire", "initialize", "calling"}]
  /\ server \in [Callers -> Servers \cup Strangers \cup {Nobody}]
  /\ client \in [Callers -> Procs \cup {0}]
  /\ phase \in {"serving", "draining", "closed"}
  /\ calls \in 0..MaxCalls

-------------------------------------------------------------------------------
(* Safety *)

\* No subprocess is lost: each one that demesne has not closed is in the pool,
\* or in the hands of the caller that spawns it under p.mu.
NoLeak ==
  \A p \in Procs : IsOpen(p) =>
    \/ \E s \in Servers : clients[s].c = p
    \/ holder # Nobody /\ client[holder] = p

\* acquire never hands out a client that demesne has closed.
PooledIsOpen == \A s \in Servers : Pooled(s) => IsOpen(clients[s].c)

\* A pooled client always has a timer that will close it: its latest, running or
\* waiting in evict.  Without one an idle subprocess would stay for ever.
Guards(t, s) == t.c = clients[s].c /\ t.generation = clients[s].generation
TimerGuards ==
  \A s \in Servers : Pooled(s) =>
    \/ \E t \in TimersOf(s) : Guards(t, s)
    \/ \E i \in DOMAIN fired[s] : Guards(fired[s][i], s)

\* A pooled client can be used and will be closed: nothing takes the process or the
\* timer from under its entry (acquire, evict, resetIdleTimerLocked).
PooledIsTended == PooledIsOpen /\ TimerGuards

\* Until the pool is shut down, an eviction closes only the client its timer was
\* armed for, and only if nobody has acquired it since: the race the generation
\* is there to settle.  After p.Shutdown generations start again at 1 while old
\* timers may still wait in evict, so it is not claimed of a client spawned then.
EvictsItsOwn ==
  [][\A s \in Servers :
       phase # "closed" /\ fired'[s] # fired[s] /\ clients'[s] # clients[s]
         => Guards(Head(fired[s]), s)]_vars

\* A call is activity: the idle timer does not close a client that somebody is
\* calling.  clients.go says so of idleTimeout; only a violation run checks it.
CallIsActivity ==
  [][\A s \in Servers, c \in Callers :
       fired'[s] # fired[s] /\ clients'[s] # clients[s] /\ pc[c] = "calling"
         => client[c] # clients[s].c]_vars

-------------------------------------------------------------------------------
(* Liveness, under FairSpec *)

\* A pooled client is acquired again or closed, its subprocess alive or not.
IdleIsClosed ==
  \A s \in Servers, p \in Procs, g \in 1..MaxCalls :
    clients[s] = [c |-> p, generation |-> g] ~> clients[s] # [c |-> p, generation |-> g]

\* Every acquire ends, whoever holds p.mu through a handshake before it.
AcquireEnds ==
  \A c \in Callers : pc[c] \in {"acquire", "initialize"} ~> pc[c] \in {"idle", "calling"}

\* Aggregator.Shutdown ends though a call may never return.
ShutdownEnds == phase = "draining" ~> phase = "closed"

\* Nobody waits for p.mu for ever, and Shutdown not for a call either.
CallsEnd == AcquireEnds /\ ShutdownEnds
===============================================================================
