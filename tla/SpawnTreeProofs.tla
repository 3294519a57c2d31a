------------------------------ MODULE SpawnTreeProofs ------------------------------
(***************************************************************************)
(* Theorems about SpawnTree, for any number of runs and of names, any      *)
(* kinds and background kinds.                                             *)
(*                                                                         *)
(* First what does not depend on jobs, registry and results: /out          *)
(* directories are private, open egress sees no inputs, and siblings mount *)
(* only what exists.  Then the types and the tree: totals, and what a      *)
(* Cancel reaches.                                                         *)
(***************************************************************************)
EXTENDS SpawnTree, Sums

core == <<kind, parent, name, open, pc, used, siblings, mountVars, created>>

\* The places of a run that has no directory yet.
Unlaid == {"none", "started", "reserved"}

Typed ==
  /\ kind \in [Runs -> {"agent", "research", "plain"}]
  /\ parent \in [Runs -> Runs \cup {Host}]
  /\ name = [r \in Runs |-> name[r]]
  /\ open \in [Runs -> BOOLEAN]
  /\ pc \in [Runs -> Unlaid \cup {"laid", "running", "leaving", "ended"}]
  /\ used = [r \in Runs |-> used[r]]
  /\ siblings \in [Runs -> SUBSET Runs]
  /\ inputs \in [Runs -> Runs \cup {Host}]
  /\ workspace \in [Runs -> Runs \cup {Host}]
  /\ previousJobs \in [Runs -> SUBSET Runs]
  /\ created \subseteq Runs

\* Nothing is mounted before the layout, and only a child reserves a name.
LayoutInv ==
  \A r \in Runs :
    /\ pc[r] \in Unlaid => workspace[r] = Host /\ inputs[r] = Host /\ previousJobs[r] = {}
    /\ pc[r] = "reserved" => parent[r] # Host

\* A run that may still write to its parent's /out.
Holds(r) == pc[r] = "reserved" \/ LaidOut(r)

\* Its name is taken, and by nobody else.
NameInv ==
  /\ \A r \in Runs : Holds(r) /\ parent[r] # Host => name[r] \in used[parent[r]]
  /\ \A r, s \in Runs :
       (r # s /\ Holds(r) /\ Holds(s) /\ parent[r] # Host /\ parent[r] = parent[s])
         => name[r] # name[s]

\* A workspace is that of the run that made it, and whoever shares it shares its
\* inputs; open egress is for research only, which starts from nothing.
InputInv ==
  \A r \in Runs :
    /\ open[r] => kind[r] = "research"
    /\ LaidOut(r) => /\ workspace[workspace[r]] = workspace[r]
                     /\ inputs[r] = inputs[workspace[r]]
    /\ kind[r] = "research" /\ LaidOut(r) =>
         workspace[r] = r /\ inputs[r] = Host /\ previousJobs[r] = {}

\* Siblings are recorded when they have a sandbox, and mounted when recorded.
SiblingInv ==
  /\ \A r \in created : pc[r] \notin Unlaid \cup {"laid"}
  /\ \A p \in Runs : \A c \in siblings[p] : c \in created /\ parent[c] = p
  /\ \A r \in Runs : previousJobs[r] # {} =>
       parent[r] \in Runs /\ previousJobs[r] \subseteq siblings[parent[r]]
  /\ SiblingsNotMutual

SpawnInv == Typed /\ LayoutInv /\ NameInv /\ InputInv /\ SiblingInv

-------------------------------------------------------------------------------
(* The steps, as far as they matter here *)

\* A run begins; with open egress if it is research.
Begins(r) ==
  \E k \in {"agent", "research", "plain"}, p \in Runs \cup {Host}, o \in BOOLEAN : \E n :
    /\ o => k = "research"
    /\ pc[r] = "none" /\ pc' = [pc EXCEPT ![r] = "started"]
    /\ kind' = [kind EXCEPT ![r] = k] /\ parent' = [parent EXCEPT ![r] = p]
    /\ name' = [name EXCEPT ![r] = n] /\ open' = [open EXCEPT ![r] = o]
    /\ UNCHANGED <<used, siblings, mountVars, created>>

\* It takes a name.
Reserves(r) ==
  /\ pc[r] = "started" /\ parent[r] \in Runs /\ name[r] \notin used[parent[r]]
  /\ pc' = [pc EXCEPT ![r] = "reserved"]
  /\ used' = [used EXCEPT ![parent[r]] = @ \cup {name[r]}]
  /\ UNCHANGED <<kind, parent, name, open, siblings, mountVars, created>>

\* What it mounts: a workspace of its own and no siblings, or what its parent has.
Own(r, w, i, s) ==
  w = r /\ i \in {Host, r} /\ s = {} /\ (kind[r] = "research" => i = Host)
Shared(r, w, i, s) ==
  /\ parent[r] \in Runs /\ kind[r] # "research"
  /\ w = workspace[parent[r]] /\ i = inputs[parent[r]] /\ s = siblings[parent[r]]

\* It gets its directories.
LaysOut(r, w, i, s) ==
  /\ pc[r] \in {"started", "reserved"} /\ (pc[r] = "started" => parent[r] = Host)
  /\ pc' = [pc EXCEPT ![r] = "laid"]
  /\ workspace' = [workspace EXCEPT ![r] = w] /\ inputs' = [inputs EXCEPT ![r] = i]
  /\ previousJobs' = [previousJobs EXCEPT ![r] = s]
  /\ UNCHANGED <<kind, parent, name, open, used, siblings, created>>
Lays(r) == \E w, i, s : LaysOut(r, w, i, s) /\ (Own(r, w, i, s) \/ Shared(r, w, i, s))

\* It has a sandbox.
Creates(r) ==
  /\ pc[r] = "laid" /\ pc' = [pc EXCEPT ![r] = "running"]
  /\ created' = created \cup {r} /\ recordSibling(r)
  /\ UNCHANGED <<kind, parent, name, open, used, mountVars>>

\* It ends, or is about to.
Leaves(r) ==
  /\ pc[r] # "none" /\ \E l \in {"leaving", "ended"} : pc' = [pc EXCEPT ![r] = l]
  /\ UNCHANGED <<kind, parent, name, open, used, siblings, mountVars, created>>

CoreStep ==
  \/ \E r \in Runs : Begins(r) \/ Reserves(r) \/ Lays(r) \/ Creates(r) \/ Leaves(r)
  \/ UNCHANGED core

\* A call that reaches its handler begins a run.
LEMMA BeginBegins ==
  ASSUME NEW r \in Runs, NEW k \in {"agent", "research", "plain"}, NEW p \in Runs \cup {Host},
         NEW n, NEW b, NEW o \in BOOLEAN, o => k = "research", Begin(r, k, p, n, b, o)
  PROVE  Begins(r)
  BY ZenonT(60) DEF Begin, Begins, Goto, ctxVars, mountVars, outVars

\* Every handler that a call can reach begins a run that is as Begins says.
LEMMA CallsBegin ==
  ASSUME NEW r \in Runs,
         handleSandboxAgent(r) \/ handleSandboxResearch(r) \/ ChildCall(r)
  PROVE  Begins(r)
<1>1. CASE handleSandboxAgent(r)
  <2>1. PICK egress \in {"none", "open"} : ~rejectOpenEgress(egress) /\ hostCall(r, "agent", egress = "open")
    BY <1>1 DEF handleSandboxAgent
  <2>2. (egress = "open") = FALSE
    BY <2>1 DEF rejectOpenEgress
  <2>3. PICK b \in Background("agent") : Begin(r, "agent", Host, name[r], b, FALSE)
    BY <2>1, <2>2 DEF hostCall
  <2> QED
    BY <2>3, BeginBegins
<1>2. CASE handleSandboxResearch(r)
  <2>1. PICK b \in Background("research") : Begin(r, "research", Host, name[r], b, TRUE)
    BY <1>2 DEF handleSandboxResearch, hostCall
  <2> QED
    BY <2>1, BeginBegins
<1>3. CASE ChildCall(r)
  <2>1. PICK p \in Runs : \E n \in NamesFor(p) :
          \/ handleChildScript(r, p, n) \/ handleChildAgent(r, p, n)
          \/ handleChildResearch(r, p, n) \/ handleChildCreate(r, p, n)
    BY <1>3 DEF ChildCall
  <2>2. PICK n \in NamesFor(p) :
          \/ handleChildScript(r, p, n) \/ handleChildAgent(r, p, n)
          \/ handleChildResearch(r, p, n) \/ handleChildCreate(r, p, n)
    BY <2>1
  <2>3. \/ \E b : Begin(r, "plain", p, n, b, FALSE)
        \/ \E b : Begin(r, "agent", p, n, b, FALSE)
        \/ \E b : Begin(r, "research", p, n, b, TRUE)
    <3>1. ASSUME NEW egress, ~rejectOpenEgress(egress) PROVE (egress = "open") = FALSE
      BY <3>1 DEF rejectOpenEgress
    <3>2. CASE handleChildScript(r, p, n)
      BY <3>1, <3>2, Zenon DEF handleChildScript
    <3>3. CASE handleChildAgent(r, p, n)
      BY <3>1, <3>3, Zenon DEF handleChildAgent
    <3>4. CASE handleChildResearch(r, p, n)
      BY <3>4 DEF handleChildResearch
    <3>5. CASE handleChildCreate(r, p, n)
      BY <3>1, <3>5, Zenon DEF handleChildCreate
    <3> QED
      BY <2>2, <3>2, <3>3, <3>4, <3>5
  <2> QED
    BY <2>3, BeginBegins
<1> QED
  BY <1>1, <1>2, <1>3

\* A run that gives up or returns only leaves.
LEMMA LeavingLeaves ==
  ASSUME NEW r \in Runs, pc[r] # "none",
         \/ GiveUp(r) \/ Return(r)
         \/ (Goto(r, "leaving") /\ UNCHANGED <<callVars, ctxVars, mountVars, created>>)
  PROVE  Leaves(r)
  BY DEF GiveUp, Return, Goto, Leaves, callVars, ctxVars, mountVars, outVars

\* The layouts give a run what Own or Shared says.
LEMMA LayoutsLay ==
  ASSUME Typed, LayoutInv, NEW r \in Runs,
         buildRootLayout(r) \/ buildChildLayout(r) \/ childMounts(r)
  PROVE  Lays(r)
<1>1. CASE buildRootLayout(r)
  <2> DEFINE i == IF kind[r] = "research" THEN Host ELSE r
  <2>1. previousJobs' = [previousJobs EXCEPT ![r] = {}]
    BY <1>1 DEF buildRootLayout, Typed, LayoutInv, Unlaid
  <2>2. LaysOut(r, r, i, {}) /\ Own(r, r, i, {})
    BY <1>1, <2>1 DEF buildRootLayout, LaysOut, Own, Goto, callVars, outVars
  <2> QED
    BY <2>2 DEF Lays
<1>2. CASE buildChildLayout(r) /\ Isolated(r)
  <2>1. LaysOut(r, r, Host, {}) /\ Own(r, r, Host, {})
    BY <1>2 DEF buildChildLayout, LaysOut, Own, Goto, callVars, outVars
  <2> QED
    BY <2>1 DEF Lays
<1>3. CASE (buildChildLayout(r) /\ ~Isolated(r)) \/ childMounts(r)
  <2> DEFINE p == parent[r]
  <2>1. p \in Runs
    BY <1>3 DEF buildChildLayout, childMounts, Typed, LayoutInv
  <2>2. LaysOut(r, workspace[p], inputs[p], siblings[p])
    BY <1>3 DEF buildChildLayout, childMounts, LaysOut, Goto, callVars, ctxVars, outVars
  <2>3. Shared(r, workspace[p], inputs[p], siblings[p])
    BY <1>3, <2>1 DEF buildChildLayout, childMounts, Shared, IsAgent, Isolated
  <2> QED
    BY <2>2, <2>3 DEF Lays
<1> QED
  BY <1>1, <1>2, <1>3

\* Every step is one of these.
LEMMA StepsAreCore ==
  ASSUME Typed, LayoutInv, [Next]_vars
  PROVE  CoreStep
<1>1. CASE UNCHANGED vars
  BY <1>1 DEF vars, core, CoreStep, callVars, ctxVars, mountVars, outVars
<1>2. CASE Next
  <2>1. PICK r \in Runs :
          \/ handleSandboxAgent(r) \/ handleSandboxResearch(r) \/ ChildCall(r) \/ SetUp(r)
          \/ AgentEnds(r) \/ PlainEnds(r) \/ RunFails(r) \/ Return(r) \/ Cancel(r) \/ Reap(r)
    BY <1>2, Zenon DEF Next
  <2>2. CASE handleSandboxAgent(r) \/ handleSandboxResearch(r) \/ ChildCall(r)
    BY <2>2, CallsBegin DEF CoreStep
  <2>3. CASE SetUp(r)
    <3>1. CASE prepareAgentFails(r) \/ nameInUse(r) \/ mkLayoutDirsFails(r) \/ createSandboxFails(r)
      <4>1. pc[r] # "none" /\ GiveUp(r)
        BY <3>1 DEF prepareAgentFails, nameInUse, mkLayoutDirsFails, createSandboxFails
      <4>2. Leaves(r)
        BY <4>1, LeavingLeaves, Zenon
      <4> QED
        BY <4>2 DEF CoreStep
    <3>2. CASE reserveName(r)
      <4>1. Reserves(r)
        BY <3>2 DEF reserveName, Reserves, Typed, Goto, callVars, outVars
      <4> QED
        BY <4>1 DEF CoreStep
    <3>3. CASE buildRootLayout(r) \/ buildChildLayout(r) \/ childMounts(r)
      BY <3>3, LayoutsLay DEF CoreStep
    <3>4. CASE createSandbox(r) \/ prepareSandbox(r)
      <4>1. Creates(r)
        BY <3>4 DEF createSandbox, prepareSandbox, Created, Creates, Goto, callVars, mountVars
      <4> QED
        BY <4>1 DEF CoreStep
    <3> QED
      BY <2>3, <3>1, <3>2, <3>3, <3>4 DEF SetUp
  <2>4. CASE AgentEnds(r) \/ PlainEnds(r) \/ RunFails(r) \/ Return(r)
    <3>1. pc[r] # "none"
      BY <2>4 DEF AgentEnds, PlainEnds, RunFails, Return
    <3>2. \/ GiveUp(r) \/ Return(r)
          \/ (Goto(r, "leaving") /\ UNCHANGED <<callVars, ctxVars, mountVars, created>>)
      BY <2>4 DEF AgentEnds, PlainEnds, RunFails
    <3>3. Leaves(r)
      BY <3>1, <3>2, LeavingLeaves, Zenon
    <3> QED
      BY <3>3 DEF CoreStep
  <2>5. CASE Cancel(r) \/ Reap(r)
    BY <2>5 DEF Cancel, Reap, CoreStep, core, callVars, ctxVars, mountVars, outVars
  <2> QED
    BY <2>1, <2>2, <2>3, <2>4, <2>5
<1> QED
  BY <1>1, <1>2

-------------------------------------------------------------------------------
(* The invariant *)

LEMMA HostIsNoRun == Host \notin Runs
  BY DEF Host, Runs

\* It holds at first.
LEMMA SpawnInit == Init => SpawnInv
  BY HostIsNoRun DEF Init, SpawnInv, Typed, LayoutInv, NameInv, InputInv, SiblingInv,
     SiblingsNotMutual, Holds, LaidOut, Unlaid

\* The steps keep the types.
LEMMA TypedStep ==
  ASSUME SpawnInv, CoreStep
  PROVE  Typed'
<1> USE DEF SpawnInv, Typed, Unlaid
<1>1. CASE UNCHANGED core
  BY <1>1 DEF core, mountVars
<1>2. ASSUME NEW r \in Runs, Begins(r) PROVE Typed'
  <2>1. PICK k \in {"agent", "research", "plain"}, p \in Runs \cup {Host}, o \in BOOLEAN : \E n :
          /\ pc' = [pc EXCEPT ![r] = "started"]
          /\ kind' = [kind EXCEPT ![r] = k] /\ parent' = [parent EXCEPT ![r] = p]
          /\ name' = [name EXCEPT ![r] = n] /\ open' = [open EXCEPT ![r] = o]
    BY <1>2, Zenon DEF Begins
  <2>2. kind' \in [Runs -> {"agent", "research", "plain"}] /\ parent' \in [Runs -> Runs \cup {Host}]
    BY <2>1
  <2>3. open' \in [Runs -> BOOLEAN]
    BY <2>1
  <2>4. name' = [s \in Runs |-> name'[s]]
    BY <2>1
  <2>5. pc' \in [Runs -> Unlaid \cup {"laid", "running", "leaving", "ended"}]
    BY <2>1
  <2> QED
    BY <1>2, <2>2, <2>3, <2>4, <2>5 DEF Begins, mountVars
<1>3. ASSUME NEW r \in Runs, Reserves(r) PROVE Typed'
  BY <1>3 DEF Reserves, mountVars
<1>4. ASSUME NEW r \in Runs, Lays(r) PROVE Typed'
  <2>1. PICK w, i, s : LaysOut(r, w, i, s) /\ (Own(r, w, i, s) \/ Shared(r, w, i, s))
    BY <1>4 DEF Lays
  <2>2. w \in Runs \cup {Host} /\ i \in Runs \cup {Host} /\ s \in SUBSET Runs
    BY <2>1 DEF Own, Shared
  <2> QED
    BY <2>1, <2>2 DEF LaysOut
<1>5. ASSUME NEW r \in Runs, Creates(r) PROVE Typed'
  <2>1. siblings' \in [Runs -> SUBSET Runs]
    BY <1>5 DEF Creates, recordSibling
  <2> QED
    BY <1>5, <2>1 DEF Creates, mountVars
<1>6. ASSUME NEW r \in Runs, Leaves(r) PROVE Typed'
  BY <1>6 DEF Leaves, mountVars
<1> QED
  BY <1>1, <1>2, <1>3, <1>4, <1>5, <1>6 DEF CoreStep

\* Only a layout mounts anything.
LEMMA LayoutStep ==
  ASSUME SpawnInv, CoreStep
  PROVE  LayoutInv'
<1> USE HostIsNoRun DEF SpawnInv, Typed, LayoutInv, Unlaid
<1>1. CASE UNCHANGED core
  BY <1>1 DEF core, mountVars
<1>2. ASSUME NEW r \in Runs, Begins(r) PROVE LayoutInv'
  BY <1>2 DEF Begins, mountVars
<1>3. ASSUME NEW r \in Runs, Reserves(r) PROVE LayoutInv'
  BY <1>3 DEF Reserves, mountVars
<1>4. ASSUME NEW r \in Runs, Lays(r) PROVE LayoutInv'
  BY <1>4 DEF Lays, LaysOut
<1>5. ASSUME NEW r \in Runs, Creates(r) PROVE LayoutInv'
  BY <1>5 DEF Creates, mountVars
<1>6. ASSUME NEW r \in Runs, Leaves(r) PROVE LayoutInv'
  BY <1>6 DEF Leaves, mountVars
<1> QED
  BY <1>1, <1>2, <1>3, <1>4, <1>5, <1>6 DEF CoreStep

\* A name once taken stays taken, so the next to take it is refused.
LEMMA NameStep ==
  ASSUME SpawnInv, CoreStep
  PROVE  NameInv'
<1> USE HostIsNoRun DEF SpawnInv, Typed, LayoutInv, Unlaid, NameInv, Holds, LaidOut
<1>1. CASE UNCHANGED core
  BY <1>1 DEF core, mountVars
<1>2. ASSUME NEW r \in Runs, Begins(r) PROVE NameInv'
  <2>1. ~(pc'[r] = "reserved" \/ workspace'[r] # Host)
    BY <1>2 DEF Begins, mountVars
  <2>2. \A s \in Runs : s # r =>
          pc'[s] = pc[s] /\ workspace'[s] = workspace[s] /\ name'[s] = name[s] /\ parent'[s] = parent[s]
    BY <1>2 DEF Begins, mountVars
  <2>3. used' = used
    BY <1>2 DEF Begins
  <2>4. \A s \in Runs : Holds(s)' => s # r /\ Holds(s)
    BY <2>1, <2>2
  <2>5. \A s \in Runs : Holds(s)' /\ parent'[s] # Host => name'[s] \in used'[parent'[s]]
    BY <2>2, <2>3, <2>4
  <2>6. \A s, t \in Runs :
          (s # t /\ Holds(s)' /\ Holds(t)' /\ parent'[s] # Host /\ parent'[s] = parent'[t])
            => name'[s] # name'[t]
    BY <2>2, <2>4
  <2> QED
    BY <2>5, <2>6
<1>3. ASSUME NEW r \in Runs, Reserves(r) PROVE NameInv'
  <2>1. \A s \in Runs : workspace'[s] = workspace[s] /\ (s # r => pc'[s] = pc[s])
    BY <1>3 DEF Reserves, mountVars
  <2>2. name[r] \in used'[parent[r]] /\ \A p \in Runs : \A n \in used[p] : n \in used'[p]
    <3>1. used'[parent[r]] = used[parent[r]] \cup {name[r]}
      BY <1>3 DEF Reserves
    <3>2. \A p \in Runs : p # parent[r] => used'[p] = used[p]
      BY <1>3 DEF Reserves
    <3> QED
      BY <3>1, <3>2
  <2>3. name' = name /\ parent' = parent /\ name[r] \notin used[parent[r]] /\ parent[r] \in Runs
    BY <1>3 DEF Reserves
  <2>4. \A s \in Runs : Holds(s)' => s = r \/ Holds(s)
    BY <2>1
  <2>5. \A s \in Runs : Holds(s)' /\ parent'[s] # Host => name'[s] \in used'[parent'[s]]
    <3> SUFFICES ASSUME NEW s \in Runs, Holds(s)', parent[s] # Host
                 PROVE  name[s] \in used'[parent[s]]
      BY <2>3
    <3>1. parent[s] \in Runs
      OBVIOUS
    <3>2. CASE s = r
      BY <2>2, <3>1, <3>2
    <3>3. CASE s # r
      <4>1. name[s] \in used[parent[s]]
        BY <2>4, <3>3
      <4> QED
        BY <2>2, <3>1, <4>1
    <3> QED
      BY <3>2, <3>3
  <2>6. \A s \in Runs : s # r /\ Holds(s) /\ parent[s] = parent[r] => name[s] # name[r]
    BY <2>3
  <2>7. \A s, t \in Runs :
          (s # t /\ Holds(s)' /\ Holds(t)' /\ parent'[s] # Host /\ parent'[s] = parent'[t])
            => name'[s] # name'[t]
    BY <2>3, <2>4, <2>6
  <2> QED
    BY <2>5, <2>7
<1>4. ASSUME NEW r \in Runs, Lays(r) PROVE NameInv'
  <2>1. name' = name /\ parent' = parent /\ used' = used
    BY <1>4 DEF Lays, LaysOut
  <2>2. \A s \in Runs : (pc'[s] = "reserved" \/ workspace'[s] # Host) /\ parent[s] # Host
                           => pc[s] = "reserved" \/ workspace[s] # Host
    BY <1>4 DEF Lays, LaysOut
  <2> QED
    BY <2>1, <2>2
<1>5. ASSUME NEW r \in Runs, Creates(r) PROVE NameInv'
  BY <1>5 DEF Creates, mountVars
<1>6. ASSUME NEW r \in Runs, Leaves(r) PROVE NameInv'
  BY <1>6 DEF Leaves, mountVars
<1> QED
  BY <1>1, <1>2, <1>3, <1>4, <1>5, <1>6 DEF CoreStep

\* A run that shares a workspace shares its inputs; a research run shares nothing.
LEMMA InputStep ==
  ASSUME SpawnInv, CoreStep
  PROVE  InputInv'
<1> USE HostIsNoRun DEF SpawnInv, Typed, LayoutInv, Unlaid, InputInv, LaidOut
<1>1. CASE UNCHANGED core
  BY <1>1 DEF core, mountVars
<1>2. ASSUME NEW r \in Runs, Begins(r) PROVE InputInv'
  BY <1>2 DEF Begins, mountVars
<1>3. ASSUME NEW r \in Runs, Reserves(r) PROVE InputInv'
  BY <1>3 DEF Reserves, mountVars
<1>4. ASSUME NEW r \in Runs, Lays(r) PROVE InputInv'
  <2>1. PICK w, i, s : LaysOut(r, w, i, s) /\ (Own(r, w, i, s) \/ Shared(r, w, i, s))
    BY <1>4 DEF Lays
  <2>2. /\ workspace[r] = Host
        /\ \A t \in Runs : LaidOut(t) => t # r /\ workspace[t] \in Runs /\ workspace[t] # r
    BY <2>1 DEF LaysOut
  <2>3. /\ kind' = kind /\ open' = open
        /\ workspace'[r] = w /\ inputs'[r] = i /\ previousJobs'[r] = s
        /\ \A t \in Runs : t # r => /\ workspace'[t] = workspace[t] /\ inputs'[t] = inputs[t]
                                    /\ previousJobs'[t] = previousJobs[t]
    BY <2>1 DEF LaysOut
  <2>4. CASE Own(r, w, i, s)
    BY <2>2, <2>3, <2>4 DEF Own
  <2>5. CASE Shared(r, w, i, s)
    <3>1. w = Host \/ (w \in Runs /\ w # r /\ workspace[w] = w /\ inputs[w] = i)
      BY <2>2, <2>5 DEF Shared
    <3> QED
      BY <2>2, <2>3, <2>5, <3>1 DEF Shared
  <2> QED
    BY <2>1, <2>4, <2>5
<1>5. ASSUME NEW r \in Runs, Creates(r) PROVE InputInv'
  BY <1>5 DEF Creates, mountVars
<1>6. ASSUME NEW r \in Runs, Leaves(r) PROVE InputInv'
  BY <1>6 DEF Leaves, mountVars
<1> QED
  BY <1>1, <1>2, <1>3, <1>4, <1>5, <1>6 DEF CoreStep

\* Whoever has recorded itself has mounted all it will: of two siblings, the one
\* that recorded itself first does not see the other.
LEMMA SiblingStep ==
  ASSUME SpawnInv, CoreStep
  PROVE  SiblingInv'
<1> USE HostIsNoRun DEF SpawnInv, Typed, LayoutInv, Unlaid, SiblingInv, SiblingsNotMutual
<1>1. CASE UNCHANGED core
  BY <1>1 DEF core, mountVars
<1>2. ASSUME NEW r \in Runs, Begins(r) PROVE SiblingInv'
  <2>1. /\ r \notin created /\ previousJobs[r] = {}
        /\ created' = created /\ siblings' = siblings /\ previousJobs' = previousJobs
        /\ \A s \in Runs : s # r => parent'[s] = parent[s] /\ pc'[s] = pc[s]
    BY <1>2 DEF Begins, mountVars
  <2> QED
    BY <2>1
<1>3. ASSUME NEW r \in Runs, Reserves(r) PROVE SiblingInv'
  BY <1>3 DEF Reserves, mountVars
<1>4. ASSUME NEW r \in Runs, Lays(r) PROVE SiblingInv'
  <2>1. PICK w, i, s : LaysOut(r, w, i, s) /\ (Own(r, w, i, s) \/ Shared(r, w, i, s))
    BY <1>4 DEF Lays
  <2>2. r \notin created /\ s # {} => parent[r] \in Runs /\ s = siblings[parent[r]]
    BY <2>1 DEF LaysOut, Own, Shared
  <2>3. /\ created' = created /\ siblings' = siblings /\ parent' = parent
        /\ r \notin created /\ previousJobs'[r] = s
        /\ \A t \in Runs : t # r => previousJobs'[t] = previousJobs[t] /\ pc'[t] = pc[t]
    BY <2>1 DEF LaysOut
  <2>4. \A t \in Runs : r \notin previousJobs[t]
    BY <2>3
  <2>5. r \notin s
    BY <2>2, <2>3
  <2> QED
    BY <2>2, <2>3, <2>4, <2>5
<1>5. ASSUME NEW r \in Runs, Creates(r) PROVE SiblingInv'
  <2>1. /\ created' = created \cup {r} /\ parent' = parent /\ previousJobs' = previousJobs
        /\ pc'[r] = "running" /\ \A t \in Runs : t # r => pc'[t] = pc[t]
    BY <1>5 DEF Creates, mountVars
  <2>2. \A p \in Runs : /\ siblings[p] \subseteq siblings'[p]
                        /\ \A c \in siblings'[p] : c \in siblings[p] \/ (c = r /\ parent[r] = p)
    BY <1>5 DEF Creates, recordSibling
  <2> QED
    BY <2>1, <2>2
<1>6. ASSUME NEW r \in Runs, Leaves(r) PROVE SiblingInv'
  BY <1>6 DEF Leaves, mountVars
<1> QED
  BY <1>1, <1>2, <1>3, <1>4, <1>5, <1>6 DEF CoreStep

\* SpawnInv is inductive.
THEOREM SpawnInvHolds == Spec => []SpawnInv
<1>1. SpawnInv /\ [Next]_vars => SpawnInv'
  <2> SUFFICES ASSUME SpawnInv, [Next]_vars PROVE SpawnInv'
    OBVIOUS
  <2>1. CoreStep
    BY StepsAreCore DEF SpawnInv
  <2> QED
    BY <2>1, TypedStep, LayoutStep, NameStep, InputStep, SiblingStep, Zenon DEF SpawnInv
<1> QED
  BY SpawnInit, <1>1, PTL DEF Spec

-------------------------------------------------------------------------------
(* What follows *)

\* No two runs ever have the same /out, whatever failed before: reserveName takes
\* a name for good.
THEOREM OutIsPrivateHolds == Spec => []OutIsPrivate
<1>1. SpawnInv => OutIsPrivate
  BY DEF SpawnInv, NameInv, Holds, OutIsPrivate
<1> QED
  BY <1>1, SpawnInvHolds, PTL

\* However the tree grows, a run with open egress mounts no input file, no workspace
\* that a run with inputs can write, and the output of none.
THEOREM OpenSeesNoInputsHolds == Spec => []OpenSeesNoInputs
<1>1. SpawnInv => OpenSeesNoInputs
  <2> SUFFICES ASSUME SpawnInv, NEW r \in Runs, open[r], LaidOut(r)
               PROVE  /\ inputs[r] = Host
                      /\ \A t \in Runs : inputs[t] # Host =>
                           workspace[t] # workspace[r] /\ t \notin previousJobs[r]
    BY DEF OpenSeesNoInputs
  <2>1. workspace[r] = r /\ inputs[r] = Host /\ previousJobs[r] = {}
    BY DEF SpawnInv, InputInv
  <2>2. \A t \in Runs : workspace[t] = r => inputs[t] = inputs[r]
    BY HostIsNoRun DEF SpawnInv, InputInv, LaidOut
  <2> QED
    BY <2>1, <2>2
<1> QED
  BY <1>1, SpawnInvHolds, PTL

\* What a run mounts of its siblings existed, and of two siblings spawned together
\* at most one sees the other.
THEOREM SiblingMountsHolds == Spec => []SiblingMounts
<1>1. SpawnInv => SiblingMounts
  <2> SUFFICES ASSUME SpawnInv PROVE SiblingsHaveSandboxes
    BY DEF SpawnInv, SiblingInv, SiblingMounts
  <2>1. ASSUME NEW r \in Runs, NEW c \in previousJobs[r]
        PROVE  c \in created /\ c \in Runs /\ parent[c] = parent[r] /\ pc[c] # "none"
    BY <2>1 DEF SpawnInv, Typed, SiblingInv, Unlaid
  <2> QED
    BY <2>1 DEF SiblingsHaveSandboxes, Children
<1> QED
  BY <1>1, SpawnInvHolds, PTL

-------------------------------------------------------------------------------
(* Types.  Runs are numbered in the order of their calls, so that a run that *)
(* calls has a smaller number than the run it calls.                         *)

Numbered == \A r \in Runs : pc[r] # "none" => \A q \in 1..(r - 1) : pc[q] # "none"

\* A call becomes run r: of the host's client, or of a run that has not written results.
Called(r) ==
  \E k \in {"agent", "research", "plain"}, p \in Runs \cup {Host}, n \in Names, b \in BOOLEAN, o \in BOOLEAN :
    /\ p # Host => p < r /\ pc[p] # "none" /\ (pc[p] = "running" \/ ~Wrote(p))
    /\ Begin(r, k, p, n, b, o)

LEMMA NamesForIs ==
  ASSUME TypeOK, NEW p PROVE NamesFor(p) \subseteq Names
<1>1. \A S \in SUBSET Names : S = {} \/ (CHOOSE n \in S : TRUE) \in Names
  OBVIOUS
<1>2. {name[c] : c \in Children(p)} \subseteq Names
  BY DEF TypeOK, Children
<1> QED BY <1>1, <1>2 DEF NamesFor

\* Every handler that a call can reach makes it a run that way.
LEMMA HandlersCall ==
  ASSUME TypeOK, Numbered, NEW r \in Runs,
         handleSandboxAgent(r) \/ handleSandboxResearch(r) \/ ChildCall(r)
  PROVE  Called(r)
<1>0. \A k : Background(k) \subseteq BOOLEAN
  BY DEF Background
<1>1. CASE handleSandboxAgent(r) \/ handleSandboxResearch(r)
  <2>1. PICK k \in {"agent", "research"}, o \in BOOLEAN : hostCall(r, k, o)
    BY <1>1 DEF handleSandboxAgent, handleSandboxResearch
  <2>2. PICK b \in BOOLEAN : Begin(r, k, Host, name[r], b, o)
    BY <1>0, <2>1 DEF hostCall
  <2>3. name[r] \in Names
    BY DEF TypeOK
  <2> QED BY <2>2, <2>3, Zenon DEF Called
<1>2. CASE ChildCall(r)
  <2>1. PICK p \in Runs : \E n \in NamesFor(p) :
          \/ handleChildScript(r, p, n) \/ handleChildAgent(r, p, n)
          \/ handleChildResearch(r, p, n) \/ handleChildCreate(r, p, n)
    BY <1>2 DEF ChildCall
  <2>2. PICK n \in Names :
          \/ handleChildScript(r, p, n) \/ handleChildAgent(r, p, n)
          \/ handleChildResearch(r, p, n) \/ handleChildCreate(r, p, n)
    BY <2>1, NamesForIs
  <2>3. Calling(p)
    BY <2>2 DEF handleChildScript, handleChildAgent, handleChildResearch, handleChildCreate, childSpawnParams
  <2>4. \E k \in {"agent", "research", "plain"}, b \in BOOLEAN, o \in BOOLEAN : Begin(r, k, p, n, b, o)
    <3>1. CASE handleChildScript(r, p, n)
      BY <1>0, <3>1, Zenon DEF handleChildScript
    <3>2. CASE handleChildAgent(r, p, n)
      BY <1>0, <3>2, Zenon DEF handleChildAgent
    <3>3. CASE handleChildResearch(r, p, n)
      BY <1>0, <3>3, Zenon DEF handleChildResearch
    <3>4. CASE handleChildCreate(r, p, n)
      BY <3>4, Zenon DEF handleChildCreate
    <3> QED BY <2>2, <3>1, <3>2, <3>3, <3>4
  <2>5. pc[p] # "none" /\ (pc[p] = "running" \/ ~Wrote(p))
    BY <2>3 DEF Calling
  <2>6. pc[r] = "none"
    BY <2>4 DEF Begin
  <2>7. p < r
    <3>1. ~(r < p)
      BY <2>5, <2>6 DEF Numbered, Runs
    <3>2. p # r
      BY <2>5, <2>6
    <3> QED BY <3>1, <3>2, NumRunsAssumption DEF Runs
  <2> QED BY <2>2, <2>4, <2>5, <2>7, Zenon DEF Called
<1> QED BY <1>1, <1>2

LEMMA CallTypes ==
  ASSUME TypeOK, NEW r \in Runs, Called(r) PROVE TypeOK'
<1>1. PICK k \in {"agent", "research", "plain"}, p \in Runs \cup {Host}, n \in Names, b \in BOOLEAN, o \in BOOLEAN :
        /\ p # Host => p < r /\ pc[p] # "none" /\ (pc[p] = "running" \/ ~Wrote(p))
        /\ Begin(r, k, p, n, b, o)
  BY Zenon DEF Called
<1>2. r \in Nat /\ 0 < r /\ p < r
  BY <1>1, NumRunsAssumption DEF Runs, Host
<1>3. BgJobID(p) \in Runs \cup {Host} /\ BgJobID(p) < r
  BY <1>1, <1>2 DEF BgJobID, Host
<1>4. kind' \in [Runs -> {"agent", "research", "plain"}]
  BY <1>1 DEF TypeOK, Begin
<1>5. parent' \in [Runs -> Runs \cup {Host}] /\ \A s \in Runs : parent'[s] < s
  BY <1>1, <1>2 DEF TypeOK, Begin
<1>6. name' \in [Runs -> Names] /\ background' \in [Runs -> BOOLEAN] /\ open' \in [Runs -> BOOLEAN]
  BY <1>1 DEF TypeOK, Begin
<1>7. pc' \in [Runs -> {"none", "started", "reserved", "laid", "running", "leaving", "ended"}]
  BY <1>1 DEF TypeOK, Begin, Goto
<1>8. job' \in [Runs -> {"none", "running", "cancelled", "over", "reaped"}]
  BY <1>1 DEF TypeOK, Begin, startJob
<1>9. jobParent' \in [Runs -> Runs \cup {Host}] /\ \A s \in Runs : jobParent'[s] < s
  BY <1>1, <1>2, <1>3 DEF TypeOK, Begin, startJob, Host
<1>10. UNCHANGED <<used, siblings, registry, inputs, workspace, previousJobs, created, results>>
  BY <1>1 DEF Begin, ctxVars, mountVars, outVars
<1> QED BY <1>4, <1>5, <1>6, <1>7, <1>8, <1>9, <1>10 DEF TypeOK

\* The runs are finitely many, so every sum over some of them has a value.
LEMMA FiniteRuns == IsFiniteSet(Runs) /\ \A S \in SUBSET Runs : IsFiniteSet(S)
<1>1. IsFiniteSet(Runs)
  BY FS_Interval, NumRunsAssumption DEF Runs
<1> QED BY <1>1, FS_Subset

LEMMA TotalIsNat ==
  ASSUME TypeOK, NEW S \in SUBSET Runs PROVE SumFunctionOnSet(Totals, S) \in Nat
<1>1. \A x \in S : Totals[x] \in Nat
  BY DEF Totals, TypeOK
<1> QED BY <1>1, FiniteRuns, SumNat

\* The other steps of a run are of its layout, its sandbox, its end or its job.
LEMMA RunTypes ==
  ASSUME TypeOK, LayoutInv, NEW r \in Runs,
         SetUp(r) \/ AgentEnds(r) \/ PlainEnds(r) \/ RunFails(r) \/ Return(r) \/ Cancel(r) \/ Reap(r)
  PROVE  TypeOK'
<1>0. r # Host /\ Host \notin Runs
  BY HostIsNoRun
<1>1. CASE \/ prepareAgentFails(r) \/ nameInUse(r) \/ mkLayoutDirsFails(r) \/ createSandboxFails(r)
           \/ PlainEnds(r) \/ RunFails(r)
  <2>1. GiveUp(r)
    BY <1>1 DEF prepareAgentFails, nameInUse, mkLayoutDirsFails, createSandboxFails, PlainEnds, RunFails
  <2> QED BY <2>1 DEF GiveUp, Goto, TypeOK, callVars, ctxVars, mountVars, jobVars, outVars
<1>2. CASE reserveName(r)
  BY <1>2 DEF reserveName, Goto, TypeOK, callVars, mountVars, jobVars, outVars
<1>3. CASE buildRootLayout(r)
  BY <1>3 DEF buildRootLayout, Goto, TypeOK, callVars, jobVars, outVars
<1>4. CASE buildChildLayout(r) \/ childMounts(r)
  <2>1. parent[r] \in Runs
    BY <1>4 DEF buildChildLayout, childMounts, LayoutInv, TypeOK
  <2>2. PICK i \in Runs \cup {Host}, w \in Runs \cup {Host}, s \in SUBSET Runs :
          /\ inputs' = [inputs EXCEPT ![r] = i] /\ workspace' = [workspace EXCEPT ![r] = w]
          /\ previousJobs' = [previousJobs EXCEPT ![r] = s]
    <3>1. /\ inputs[parent[r]] \in Runs \cup {Host} /\ workspace[parent[r]] \in Runs \cup {Host}
          /\ siblings[parent[r]] \in SUBSET Runs
      BY <2>1 DEF TypeOK
    <3> QED BY <1>4, <3>1 DEF buildChildLayout, childMounts
  <2>3. /\ inputs' \in [Runs -> Runs \cup {Host}] /\ workspace' \in [Runs -> Runs \cup {Host}]
        /\ previousJobs' \in [Runs -> SUBSET Runs]
    BY <2>2 DEF TypeOK
  <2>4. registry' \subseteq Runs
    BY <1>4 DEF buildChildLayout, childMounts, ctxVars, TypeOK
  <2>5. pc' = [pc EXCEPT ![r] = "laid"] /\ UNCHANGED <<callVars, used, siblings, jobVars, outVars>>
    BY <1>4 DEF buildChildLayout, childMounts, ctxVars, Goto
  <2> QED BY <2>3, <2>4, <2>5 DEF TypeOK, callVars, jobVars, outVars
<1>5. CASE createSandbox(r) \/ prepareSandbox(r)
  <2>1. Created(r)
    BY <1>5 DEF createSandbox, prepareSandbox
  <2>2. siblings' \in [Runs -> SUBSET Runs]
    BY <2>1 DEF Created, recordSibling, TypeOK
  <2>3. pc' = [pc EXCEPT ![r] = "running"] /\ created' = created \cup {r}
    BY <2>1 DEF Created, Goto
  <2>4. UNCHANGED <<callVars, used, registry, mountVars, jobVars, results>>
    BY <2>1 DEF Created
  <2> QED BY <2>2, <2>3, <2>4 DEF TypeOK, callVars, mountVars, jobVars
<1>6. CASE AgentEnds(r)
  <2>1. SumFunctionOnSet(Totals, sumChildResults(r)) \in Nat
    BY TotalIsNat DEF sumChildResults, Children
  <2>2. results' \in [Runs -> [written : BOOLEAN, total : Nat]]
    BY <1>6, <2>1 DEF AgentEnds, writeResults, TypeOK
  <2> QED BY <1>6, <2>2 DEF AgentEnds, Goto, TypeOK, callVars, ctxVars, mountVars, jobVars
<1>7. CASE Return(r)
  <2>1. job' \in [Runs -> {"none", "running", "cancelled", "over", "reaped"}]
    BY <1>7 DEF Return, TypeOK
  <2> QED BY <1>7, <2>1 DEF Return, Goto, TypeOK, callVars, mountVars, outVars
<1>8. CASE Cancel(r) \/ Reap(r)
  <2>1. job' \in [Runs -> {"none", "running", "cancelled", "over", "reaped"}]
    BY <1>8 DEF Cancel, Reap, TypeOK
  <2> QED BY <1>8, <2>1 DEF Cancel, Reap, TypeOK, callVars, ctxVars, mountVars, outVars
<1> QED BY <1>1, <1>2, <1>3, <1>4, <1>5, <1>6, <1>7, <1>8 DEF SetUp

-------------------------------------------------------------------------------
(* The steps, as far as the tree and its totals are concerned *)

tree == <<pc, parent, background, results>>

\* A run goes on.
Moves(r) ==
  /\ pc[r] \notin {"none", "ended"}
  /\ \E l \in {"reserved", "laid", "running", "leaving", "ended"} :
       pc' = [pc EXCEPT ![r] = l] /\ (pc[r] = "leaving" => l = "ended")
  /\ UNCHANGED <<parent, background, results>>

\* A run ends with results.
Writes(r) ==
  /\ pc[r] = "running" /\ ~Outstanding(r) /\ writeResults(r)
  /\ pc' = [pc EXCEPT ![r] = "leaving"]
  /\ UNCHANGED <<parent, background>>

TreeStep == (\E r \in Runs : Called(r) \/ Moves(r) \/ Writes(r)) \/ UNCHANGED tree

LEMMA OwnStepsMove ==
  ASSUME NEW r \in Runs,
         SetUp(r) \/ AgentEnds(r) \/ PlainEnds(r) \/ RunFails(r) \/ Return(r) \/ Cancel(r) \/ Reap(r)
  PROVE  Moves(r) \/ Writes(r) \/ UNCHANGED tree
<1>1. CASE \/ prepareAgentFails(r) \/ nameInUse(r) \/ mkLayoutDirsFails(r) \/ createSandboxFails(r)
           \/ PlainEnds(r) \/ RunFails(r)
  <2>1. pc[r] \in {"started", "reserved", "laid", "running"} /\ GiveUp(r)
    BY <1>1 DEF prepareAgentFails, nameInUse, mkLayoutDirsFails, createSandboxFails, PlainEnds, RunFails
  <2> QED BY <2>1 DEF GiveUp, Goto, Moves, callVars, outVars
<1>2. CASE reserveName(r) \/ buildRootLayout(r) \/ buildChildLayout(r) \/ childMounts(r)
  <2>1. pc[r] \in {"started", "reserved"} /\ \E l \in {"reserved", "laid"} : pc' = [pc EXCEPT ![r] = l]
    BY <1>2 DEF reserveName, buildRootLayout, buildChildLayout, childMounts, Goto
  <2>2. UNCHANGED <<parent, background, results>>
    BY <1>2 DEF reserveName, buildRootLayout, buildChildLayout, childMounts, callVars, outVars
  <2> QED BY <2>1, <2>2 DEF Moves
<1>3. CASE createSandbox(r) \/ prepareSandbox(r)
  BY <1>3 DEF createSandbox, prepareSandbox, Created, Goto, Moves, callVars
<1>4. CASE AgentEnds(r)
  BY <1>4 DEF AgentEnds, Goto, Writes, callVars
<1>5. CASE Return(r)
  BY <1>5 DEF Return, Goto, Moves, callVars, outVars
<1>6. CASE Cancel(r) \/ Reap(r)
  BY <1>6 DEF Cancel, Reap, tree, callVars, outVars
<1> QED BY <1>1, <1>2, <1>3, <1>4, <1>5, <1>6 DEF SetUp

LEMMA StepsOfTree ==
  ASSUME TypeOK, Numbered, [Next]_vars PROVE TreeStep
<1>1. CASE UNCHANGED vars
  BY <1>1 DEF vars, tree, TreeStep, callVars, outVars
<1>2. CASE Next
  BY <1>2, HandlersCall, OwnStepsMove, Zenon DEF Next, TreeStep
<1> QED BY <1>1, <1>2

LEMMA TypeStep ==
  ASSUME TypeOK, Numbered, LayoutInv, [Next]_vars PROVE TypeOK'
<1>1. CASE UNCHANGED vars
  BY <1>1 DEF vars, TypeOK, callVars, ctxVars, mountVars, jobVars, outVars
<1>2. CASE Next
  BY <1>2, HandlersCall, CallTypes, RunTypes, Zenon DEF Next
<1> QED BY <1>1, <1>2

LEMMA NumberStep ==
  ASSUME TypeOK, Numbered, TreeStep PROVE Numbered'
<1>1. CASE UNCHANGED tree
  BY <1>1 DEF tree, Numbered
<1>2. ASSUME NEW r \in Runs, Called(r) PROVE Numbered'
  <2>1. /\ pc' = [pc EXCEPT ![r] = "started"] /\ \A q \in 1..(r - 1) : pc[q] # "none"
    BY <1>2 DEF Called, Begin, Goto
  <2> QED BY <2>1, NumRunsAssumption DEF Numbered, TypeOK, Runs
<1>3. ASSUME NEW r \in Runs, Moves(r) \/ Writes(r) PROVE Numbered'
  <2>1. PICK l : l # "none" /\ pc' = [pc EXCEPT ![r] = l] /\ pc[r] # "none"
    BY <1>3 DEF Moves, Writes
  <2> QED BY <2>1, NumRunsAssumption DEF Numbered, TypeOK, Runs
<1> QED BY <1>1, <1>2, <1>3 DEF TreeStep

LEMMA TypeInit == Init => TypeOK /\ Numbered
<1>1. (CHOOSE n \in Names : TRUE) \in Names
  BY NamesAssumption
<1> QED BY <1>1, NumRunsAssumption DEF Init, TypeOK, Numbered, Runs, Host, NoResults

LEMMA AlwaysTyped == Spec => [](TypeOK /\ Numbered)
<1>1. TypeOK /\ Numbered /\ LayoutInv /\ [Next]_vars => (TypeOK /\ Numbered)'
  BY StepsOfTree, TypeStep, NumberStep
<1>2. SpawnInv => LayoutInv
  BY DEF SpawnInv
<1> QED BY TypeInit, <1>1, <1>2, SpawnInvHolds, PTL DEF Spec

\* The variables keep their types, and a run's parent was called before it (Begin, writeResults).
THEOREM TypeOKHolds == Spec => []TypeOK
BY AlwaysTyped, PTL

-------------------------------------------------------------------------------
(* Functions that recur from a run to one with a smaller number *)

LEMMA RunInduction ==
  ASSUME NEW P, \A r \in Runs : (\A q \in Runs : q < r => q \in P) => r \in P
  PROVE  \A r \in Runs : r \in P
<1> SUFFICES ASSUME Runs \ P # {} PROVE FALSE
  OBVIOUS
<1>1. Runs \ P \in SUBSET Nat
  BY NumRunsAssumption DEF Runs
<1>2. PICK n \in Runs \ P : \A m \in Runs \ P : n <= m
  BY <1>1, LeastElement
<1>3. \A q \in Runs : q < n => q \in P
  BY <1>1, <1>2
<1> QED BY <1>2, <1>3

\* From each run in R a chain of runs goes upwards, of which f collects something.
Collects(f, R, own, up) == f = [r \in R |-> own[r] \cup (IF up[r] = Host THEN {} ELSE f[up[r]])]

LEMMA CollectsExists ==
  ASSUME NEW own, NEW up, \A r \in Runs : up[r] \in Runs \cup {Host} /\ up[r] < r
  PROVE  \E f : Collects(f, Runs, own, up)
<1> DEFINE P == {n \in Runs : \E f : Collects(f, 1..n, own, up)}
<1>1. ASSUME NEW n \in Runs, n = 1 \/ n - 1 \in P PROVE n \in P
  <2>1. n \in Nat /\ n > 0 /\ up[n] \in Nat /\ up[n] < n
    BY NumRunsAssumption DEF Runs, Host
  <2>2. PICK g : n # 1 => Collects(g, 1..(n - 1), own, up)
    BY <1>1
  <2> DEFINE v == own[n] \cup (IF up[n] = Host THEN {} ELSE g[up[n]])
             f == [r \in 1..n |-> IF r = n THEN v ELSE g[r]]
  <2>3. ASSUME NEW r \in 1..n PROVE f[r] = own[r] \cup (IF up[r] = Host THEN {} ELSE f[up[r]])
    <3>1. r \in Runs /\ up[r] \in Nat /\ up[r] < r /\ r \in Nat
      BY <2>1, NumRunsAssumption DEF Runs, Host
    <3>2. up[r] # Host => up[r] \in 1..n /\ f[up[r]] = g[up[r]]
      BY <2>1, <3>1 DEF Host
    <3>3. CASE r = n
      BY <3>2, <3>3
    <3>4. CASE r # n
      <4>1. n # 1 /\ r \in 1..(n - 1)
        BY <2>1, <3>1, <3>4
      <4>2. g[r] = own[r] \cup (IF up[r] = Host THEN {} ELSE g[up[r]])
        BY <2>2, <4>1 DEF Collects
      <4> QED BY <3>2, <3>4, <4>2
    <3> QED BY <3>3, <3>4
  <2> HIDE DEF v
  <2>4. f = [r \in 1..n |-> own[r] \cup (IF up[r] = Host THEN {} ELSE f[up[r]])]
    BY <2>3
  <2> QED BY <2>4 DEF Collects
<1>2. \A r \in Runs : (\A q \in Runs : q < r => q \in P) => r \in P
  <2> SUFFICES ASSUME NEW r \in Runs, \A q \in Runs : q < r => q \in P PROVE r \in P
    OBVIOUS
  <2>1. r = 1 \/ (r - 1 \in Runs /\ r - 1 < r)
    BY NumRunsAssumption DEF Runs
  <2> QED BY <1>1, <2>1
<1>3. NumRuns \in Runs
  BY NumRunsAssumption DEF Runs
<1> HIDE DEF P
<1>4. NumRuns \in P
  BY <1>2, <1>3, RunInduction
<1> QED BY <1>4 DEF P, Runs

\* What the recursive definitions of the tree say.
AncestorsIs ==
  \A r \in Runs : Ancestors[r] = IF parent[r] = Host THEN {} ELSE {parent[r]} \cup Ancestors[parent[r]]
WaitedForIs ==
  \A r \in Runs : WaitedFor[r] = IF parent[r] = Host \/ background[r] \/ ~Wrote(parent[r]) THEN {}
                                 ELSE {parent[r]} \cup WaitedFor[parent[r]]

LEMMA AncestorsDef == TypeOK => AncestorsIs
<1> SUFFICES ASSUME TypeOK PROVE AncestorsIs
  OBVIOUS
<1> DEFINE own == [r \in Runs |-> IF parent[r] = Host THEN {} ELSE {parent[r]}]
<1>1. \A r \in Runs : parent[r] \in Runs \cup {Host} /\ parent[r] < r
  BY DEF TypeOK
<1>2. PICK f : Collects(f, Runs, own, parent)
  BY <1>1, CollectsExists
<1>3. f = [r \in Runs |-> IF parent[r] = Host THEN {} ELSE {parent[r]} \cup f[parent[r]]]
  BY <1>2 DEF Collects
<1>4. Ancestors = [r \in Runs |-> IF parent[r] = Host THEN {} ELSE {parent[r]} \cup Ancestors[parent[r]]]
  BY <1>3 DEF Ancestors
<1> QED BY <1>4 DEF AncestorsIs

LEMMA WaitedForDef == TypeOK => WaitedForIs
<1> SUFFICES ASSUME TypeOK PROVE WaitedForIs
  OBVIOUS
<1> DEFINE stop(r) == parent[r] = Host \/ background[r] \/ ~Wrote(parent[r])
           up == [r \in Runs |-> IF stop(r) THEN Host ELSE parent[r]]
           own == [r \in Runs |-> IF stop(r) THEN {} ELSE {parent[r]}]
<1>1. \A r \in Runs : up[r] \in Runs \cup {Host} /\ up[r] < r
  BY NumRunsAssumption DEF TypeOK, Runs, Host
<1>2. PICK f : Collects(f, Runs, own, up)
  BY <1>1, CollectsExists
<1>3. f = [r \in Runs |-> IF stop(r) THEN {} ELSE {parent[r]} \cup f[parent[r]]]
  BY <1>2 DEF Collects
<1>4. WaitedFor = [r \in Runs |-> IF stop(r) THEN {} ELSE {parent[r]} \cup WaitedFor[parent[r]]]
  BY <1>3 DEF WaitedFor
<1> QED BY <1>4 DEF WaitedForIs

-------------------------------------------------------------------------------
(* The tree *)

\* A run's caller was called before it.
Grown == \A r \in Runs : parent[r] # Host => pc[r] # "none" /\ pc[parent[r]] # "none"

\* A run writes its results after the blocking children's end and calls none later.
Finished ==
  \A r \in Runs : Wrote(r) =>
    /\ pc[r] \in {"leaving", "ended"}
    /\ \A c \in Children(r) : background[c] \/ pc[c] = "ended"

\* Chains go up from a run to runs before it; what waited for a run is above it.
LEMMA AncestorsPrecede ==
  ASSUME TypeOK, AncestorsIs, WaitedForIs
  PROVE  \A d \in Runs : /\ \A a \in Ancestors[d] : a \in Runs /\ a < d
                         /\ WaitedFor[d] \subseteq Ancestors[d]
<1> DEFINE P == {d \in Runs : /\ \A a \in Ancestors[d] : a \in Runs /\ a < d
                              /\ WaitedFor[d] \subseteq Ancestors[d]}
<1>1. ASSUME NEW d \in Runs, \A q \in Runs : q < d => q \in P PROVE d \in P
  <2>1. Ancestors[d] = (IF parent[d] = Host THEN {} ELSE {parent[d]} \cup Ancestors[parent[d]])
    BY DEF AncestorsIs
  <2>2. WaitedFor[d] = {} \/ (parent[d] # Host /\ WaitedFor[d] = {parent[d]} \cup WaitedFor[parent[d]])
    BY DEF WaitedForIs
  <2>3. CASE parent[d] = Host
    BY <2>1, <2>2, <2>3
  <2>4. CASE parent[d] # Host
    <3>1. parent[d] \in Runs /\ parent[d] < d /\ parent[d] \in P
      BY <1>1, <2>4 DEF TypeOK
    <3>2. \A a, b, c \in Runs : a < b /\ b < c => a < c
      BY NumRunsAssumption DEF Runs
    <3> QED BY <2>1, <2>2, <2>4, <3>1, <3>2
  <2> QED BY <2>3, <2>4
<1> HIDE DEF P
<1>2. \A d \in Runs : d \in P
  BY <1>1, RunInduction
<1> QED BY <1>2 DEF P

LEMMA AncestorsTransitive ==
  ASSUME TypeOK, AncestorsIs, WaitedForIs, NEW c \in Runs
  PROVE  \A d \in Runs : c \in Ancestors[d] => Ancestors[c] \subseteq Ancestors[d]
<1> DEFINE P == {d \in Runs : c \in Ancestors[d] => Ancestors[c] \subseteq Ancestors[d]}
<1>1. ASSUME NEW d \in Runs, \A q \in Runs : q < d => q \in P PROVE d \in P
  <2>1. Ancestors[d] = (IF parent[d] = Host THEN {} ELSE {parent[d]} \cup Ancestors[parent[d]])
    BY DEF AncestorsIs
  <2>2. parent[d] # Host => parent[d] \in Runs /\ parent[d] \in P
    BY <1>1 DEF TypeOK
  <2> QED BY <2>1, <2>2
<1> HIDE DEF P
<1>2. \A d \in Runs : d \in P
  BY <1>1, RunInduction
<1> QED BY <1>2 DEF P

\* Nobody is below two children of one run.
LEMMA SubtreesDisjoint ==
  ASSUME TypeOK, AncestorsIs, WaitedForIs, NEW r \in Runs, NEW c \in Runs, NEW e \in Runs,
         parent[c] = r, parent[e] = r, c # e
  PROVE  \A d \in Runs : ~(c \in {d} \cup Ancestors[d] /\ e \in {d} \cup Ancestors[d])
<1> DEFINE P == {d \in Runs : ~(c \in {d} \cup Ancestors[d] /\ e \in {d} \cup Ancestors[d])}
<1>0. r # Host /\ c \notin {r} \cup Ancestors[r] /\ e \notin {r} \cup Ancestors[r]
  <2>1. r < c /\ r < e /\ r # Host
    BY HostIsNoRun DEF TypeOK
  <2>2. \A a \in Ancestors[r] : a < r
    BY AncestorsPrecede
  <2> QED BY <2>1, <2>2, NumRunsAssumption DEF Runs
<1>1. ASSUME NEW d \in Runs, \A q \in Runs : q < d => q \in P PROVE d \in P
  <2>1. Ancestors[d] = (IF parent[d] = Host THEN {} ELSE {parent[d]} \cup Ancestors[parent[d]])
    BY DEF AncestorsIs
  <2>2. parent[d] # Host => parent[d] \in Runs /\ parent[d] \in P
    BY <1>1 DEF TypeOK
  <2> QED BY <1>0, <2>1, <2>2
<1> HIDE DEF P
<1>2. \A d \in Runs : d \in P
  BY <1>1, RunInduction
<1> QED BY <1>2 DEF P

\* A call puts a run at the end of a chain; all the other chains stay.
LEMMA CallKeepsChains ==
  ASSUME TypeOK, AncestorsIs, WaitedForIs, AncestorsIs', WaitedForIs', Grown,
         NEW r \in Runs, Called(r)
  PROVE  \A d \in Runs : d # r => Ancestors'[d] = Ancestors[d] /\ WaitedFor'[d] = WaitedFor[d]
<1> DEFINE P == {d \in Runs : d # r => Ancestors'[d] = Ancestors[d] /\ WaitedFor'[d] = WaitedFor[d]}
<1>1. /\ pc[r] = "none" /\ results' = results
      /\ \A d \in Runs : d # r => parent'[d] = parent[d] /\ background'[d] = background[d]
  BY DEF Called, Begin, TypeOK, outVars
<1>2. ASSUME NEW d \in Runs, \A q \in Runs : q < d => q \in P PROVE d \in P
  <2> SUFFICES ASSUME d # r PROVE d \in P
    OBVIOUS
  <2> DEFINE p == parent[d]
  <2>1. parent'[d] = p /\ background'[d] = background[d] /\ results' = results
    BY <1>1
  <2>2. p # Host => p \in Runs /\ p < d /\ p # r
    BY <1>1 DEF TypeOK, Grown
  <2>3. p # Host => Ancestors'[p] = Ancestors[p] /\ WaitedFor'[p] = WaitedFor[p]
    BY <1>2, <2>2
  <2>4. Ancestors'[d] = Ancestors[d]
    <3>1. Ancestors[d] = IF p = Host THEN {} ELSE {p} \cup Ancestors[p]
      BY DEF AncestorsIs
    <3>2. Ancestors'[d] = IF parent'[d] = Host THEN {} ELSE {parent'[d]} \cup Ancestors'[parent'[d]]
      BY DEF AncestorsIs
    <3> QED BY <2>1, <2>3, <3>1, <3>2
  <2>5. WaitedFor'[d] = WaitedFor[d]
    <3>1. WaitedFor[d] = IF p = Host \/ background[d] \/ ~results[p].written THEN {}
                         ELSE {p} \cup WaitedFor[p]
      BY DEF WaitedForIs, Wrote
    <3>2. WaitedFor'[d] = IF parent'[d] = Host \/ background'[d] \/ ~results'[parent'[d]].written THEN {}
                          ELSE {parent'[d]} \cup WaitedFor'[parent'[d]]
      BY DEF WaitedForIs, Wrote
    <3> QED BY <2>1, <2>3, <3>1, <3>2
  <2> QED BY <2>4, <2>5
<1> HIDE DEF P
<1>3. \A d \in Runs : d \in P
  BY <1>2, RunInduction
<1> QED BY <1>3 DEF P

\* A run that writes its results is waited for by nobody that has written; it may come to
\* the end of the chains that began below it.
LEMMA WriteKeepsChains ==
  ASSUME TypeOK, WaitedForIs, WaitedForIs', Grown, Finished, NEW r \in Runs, Writes(r)
  PROVE  /\ WaitedFor'[r] = {}
         /\ \A d \in Runs : WaitedFor'[d] \subseteq WaitedFor[d] \cup {r}
<1>1. /\ pc[r] = "running" /\ parent' = parent /\ background' = background
      /\ results'[r].written = TRUE /\ \A d \in Runs : d # r => results'[d] = results[d]
  BY DEF Writes, writeResults, TypeOK
<1>2. \A d \in Runs : WaitedFor'[d] = IF parent[d] = Host \/ background[d] \/ ~results'[parent[d]].written THEN {}
                                      ELSE {parent[d]} \cup WaitedFor'[parent[d]]
  BY <1>1 DEF WaitedForIs, Wrote
<1>3. WaitedFor'[r] = {}
  <2> SUFFICES ASSUME parent[r] # Host, ~background[r] PROVE ~results'[parent[r]].written
    BY <1>2
  <2>1. parent[r] \in Runs /\ parent[r] # r
    BY DEF TypeOK, Runs
  <2>2. Wrote(parent[r]) => pc[r] = "ended"
    BY <1>1, <2>1 DEF Finished, Children
  <2> QED BY <1>1, <2>1, <2>2 DEF Wrote
<1> DEFINE P == {d \in Runs : WaitedFor'[d] \subseteq WaitedFor[d] \cup {r}}
<1>4. ASSUME NEW d \in Runs, \A q \in Runs : q < d => q \in P PROVE d \in P
  <2> DEFINE p == parent[d]
  <2>1. CASE WaitedFor'[d] = {}
    BY <2>1
  <2>2. CASE WaitedFor'[d] # {}
    <3>1. p # Host /\ ~background[d] /\ results'[p].written /\ WaitedFor'[d] = {p} \cup WaitedFor'[p]
      BY <1>2, <2>2
    <3>2. p \in Runs /\ WaitedFor'[p] \subseteq WaitedFor[p] \cup {r}
      BY <1>4, <3>1 DEF TypeOK
    <3>3. CASE p = r
      BY <1>3, <3>1, <3>3
    <3>4. CASE p # r
      <4>1. Wrote(p)
        BY <1>1, <3>1, <3>2, <3>4 DEF Wrote
      <4>2. WaitedFor[d] = {p} \cup WaitedFor[p]
        BY <3>1, <4>1 DEF WaitedForIs
      <4> QED BY <3>1, <3>2, <4>2
    <3> QED BY <3>3, <3>4
  <2> QED BY <2>1, <2>2
<1> HIDE DEF P
<1>5. \A d \in Runs : d \in P
  BY <1>4, RunInduction
<1> QED BY <1>3, <1>5 DEF P

LEMMA GrownStep == ASSUME TypeOK, Grown, TreeStep PROVE Grown'
<1>1. CASE UNCHANGED tree
  BY <1>1 DEF tree, Grown
<1>2. ASSUME NEW r \in Runs, Called(r) PROVE Grown'
  <2>1. PICK p \in Runs \cup {Host} :
          /\ p # Host => p < r /\ pc[p] # "none"
          /\ pc[r] = "none" /\ pc' = [pc EXCEPT ![r] = "started"] /\ parent' = [parent EXCEPT ![r] = p]
    BY <1>2 DEF Called, Begin, Goto
  <2> QED BY <2>1 DEF Grown, TypeOK
<1>3. ASSUME NEW r \in Runs, Moves(r) \/ Writes(r) PROVE Grown'
  <2>1. parent' = parent /\ \E l : l # "none" /\ pc' = [pc EXCEPT ![r] = l]
    BY <1>3 DEF Moves, Writes
  <2> QED BY <2>1 DEF Grown, TypeOK
<1> QED BY <1>1, <1>2, <1>3 DEF TreeStep

LEMMA FinishedStep == ASSUME TypeOK, Grown, Finished, TreeStep PROVE Finished'
<1>1. CASE UNCHANGED tree
  BY <1>1 DEF tree, Finished, Wrote, Children
<1>2. ASSUME NEW r \in Runs, Called(r) PROVE Finished'
  <2>1. PICK p \in Runs \cup {Host} :
          /\ p # Host => p < r /\ (pc[p] = "running" \/ ~Wrote(p))
          /\ pc[r] = "none" /\ pc' = [pc EXCEPT ![r] = "started"] /\ parent' = [parent EXCEPT ![r] = p]
          /\ results' = results /\ \A d \in Runs : d # r => background'[d] = background[d]
    BY <1>2 DEF Called, Begin, Goto, TypeOK, outVars
  <2> SUFFICES ASSUME NEW w \in Runs, Wrote(w)'
               PROVE  /\ pc'[w] \in {"leaving", "ended"}
                      /\ \A c \in Children(w)' : background'[c] \/ pc'[c] = "ended"
    BY DEF Finished
  <2>2. Wrote(w) /\ pc[w] \in {"leaving", "ended"} /\ w # r /\ w # p
    <3>1. Wrote(w)
      BY <2>1 DEF Wrote
    <3>2. pc[w] \in {"leaving", "ended"}
      BY <3>1 DEF Finished
    <3> QED BY <2>1, <3>1, <3>2, HostIsNoRun
  <2>3. \A c \in Children(w)' : c \in Children(w) /\ c # r
    BY <2>1, <2>2 DEF Children, TypeOK
  <2>4. \A c \in Children(w) : background[c] \/ pc[c] = "ended"
    BY <2>2 DEF Finished
  <2> QED BY <2>1, <2>2, <2>3, <2>4 DEF TypeOK, Children
<1>3. ASSUME NEW r \in Runs, Moves(r) PROVE Finished'
  <2>1. PICK l : /\ l # "none" /\ pc' = [pc EXCEPT ![r] = l] /\ pc[r] \notin {"none", "ended"}
                 /\ pc[r] = "leaving" => l = "ended"
                 /\ parent' = parent /\ background' = background /\ results' = results
    BY <1>3 DEF Moves
  <2>2. \A d \in Runs : Children(d)' = Children(d) /\ Wrote(d)' = Wrote(d)
    BY <2>1 DEF Children, Wrote, TypeOK
  <2>3. \A d \in Runs : pc[d] = "ended" => pc'[d] = "ended"
    BY <2>1 DEF TypeOK
  <2>4. \A d \in Runs : pc[d] \in {"leaving", "ended"} => pc'[d] \in {"leaving", "ended"}
    BY <2>1 DEF TypeOK
  <2> QED BY <2>1, <2>2, <2>3, <2>4 DEF Finished, Children
<1>4. ASSUME NEW r \in Runs, Writes(r) PROVE Finished'
  <2>1. /\ pc[r] = "running" /\ pc' = [pc EXCEPT ![r] = "leaving"] /\ ~Outstanding(r)
        /\ parent' = parent /\ background' = background
        /\ \A d \in Runs : d # r => results'[d] = results[d]
    BY <1>4 DEF Writes, writeResults, TypeOK
  <2>2. \A d \in Runs : Children(d)' = Children(d) /\ (d # r => Wrote(d)' = Wrote(d))
    BY <2>1 DEF Children, Wrote, TypeOK
  <2>3. \A d \in Runs : pc[d] = "ended" => pc'[d] = "ended"
    BY <2>1 DEF TypeOK
  <2>4. \A c \in Children(r) : background[c] \/ pc[c] = "ended"
    BY <2>1 DEF Outstanding
  <2>5. pc'[r] = "leaving" /\ \A d \in Runs : d # r => pc'[d] = pc[d]
    BY <2>1 DEF TypeOK
  <2> QED BY <2>1, <2>2, <2>3, <2>4, <2>5 DEF Finished, Children
<1> QED BY <1>1, <1>2, <1>3, <1>4 DEF TreeStep

-------------------------------------------------------------------------------
(* Totals *)

\* What has written results: of the runs that w waited for, and of all below it.
Covered(w) == {d \in Runs : Wrote(d) /\ w \in WaitedFor[d]}
Below(w)   == {d \in Descendants(w) : Wrote(d)}

LEMMA CountsAreNat ==
  ASSUME NEW w PROVE /\ Covered(w) \subseteq Runs /\ Below(w) \subseteq Runs
                     /\ IsFiniteSet(Covered(w)) /\ IsFiniteSet(Below(w))
                     /\ Cardinality(Covered(w)) \in Nat /\ Cardinality(Below(w)) \in Nat
<1>1. Covered(w) \subseteq Runs /\ Below(w) \subseteq Runs
  BY DEF Covered, Below, Descendants
<1>2. IsFiniteSet(Covered(w)) /\ IsFiniteSet(Below(w))
  BY <1>1, FiniteRuns
<1> QED BY <1>1, <1>2, FS_CardinalityType

\* A total that was written stays right if no run comes to be covered by it, and none
\* below it goes.
LEMMA TotalStays ==
  ASSUME NEW t \in Nat, NEW C1, NEW B1, NEW C2, NEW B2, IsFiniteSet(C1), IsFiniteSet(B2),
         C2 \subseteq C1, B1 \subseteq B2,
         t >= 1 + Cardinality(C1), t <= 1 + Cardinality(B1)
  PROVE  t >= 1 + Cardinality(C2) /\ t <= 1 + Cardinality(B2)
<1>1. IsFiniteSet(C2) /\ IsFiniteSet(B1) /\ Cardinality(C2) <= Cardinality(C1) /\ Cardinality(B1) <= Cardinality(B2)
  BY FS_Subset
<1>2. /\ Cardinality(C1) \in Nat /\ Cardinality(C2) \in Nat /\ Cardinality(B1) \in Nat /\ Cardinality(B2) \in Nat
  BY <1>1, FS_CardinalityType
<1> QED BY <1>1, <1>2

\* The total that a run writes is one more than the sum over the children that wrote: each
\* stands for itself and for what is below it or was waited for by it, no two for one run.
LEMMA SumOfSubtrees ==
  ASSUME TypeOK, AncestorsIs, WaitedForIs, NEW r \in Runs, NEW X,
         \A c \in Runs : X[c] \in SUBSET {d \in Runs : c \in Ancestors[d]},
         NEW K \in SUBSET {c \in Runs : parent[c] = r}, NEW V, V = UNION {{c} \cup X[c] : c \in K}
  PROVE  /\ IsFiniteSet(V)
         /\ Cardinality(V) = SumFunctionOnSet([c \in K |-> 1 + Cardinality(X[c])], K)
<1> DEFINE W == [c \in K |-> {c} \cup X[c]]
           h == [c \in K |-> 1 + Cardinality(X[c])]
<1>1. IsFiniteSet(K)
  BY FiniteRuns
<1>2. ASSUME NEW c \in K PROVE IsFiniteSet(W[c]) /\ h[c] = Cardinality(W[c])
  <2>1. X[c] \in SUBSET Runs /\ c \notin X[c]
    BY AncestorsPrecede, NumRunsAssumption DEF Runs
  <2>2. IsFiniteSet(X[c]) /\ Cardinality(X[c]) \in Nat
    BY <2>1, FiniteRuns, FS_CardinalityType
  <2>3. IsFiniteSet(X[c] \cup {c}) /\ Cardinality(X[c] \cup {c}) = Cardinality(X[c]) + 1
    BY <2>1, <2>2, FS_AddElement
  <2>4. W[c] = X[c] \cup {c} /\ h[c] = Cardinality(X[c]) + 1
    BY <2>2
  <2> HIDE DEF W, h
  <2> QED BY <2>3, <2>4
<1>3. ASSUME NEW c \in K, NEW e \in K, c # e PROVE W[c] \cap W[e] = {}
  <2>1. \A d \in Runs : ~(c \in {d} \cup Ancestors[d] /\ e \in {d} \cup Ancestors[d])
    BY <1>3, SubtreesDisjoint
  <2>2. \A d \in W[c] : d \in Runs /\ c \in {d} \cup Ancestors[d]
    OBVIOUS
  <2>3. \A d \in W[e] : d \in Runs /\ e \in {d} \cup Ancestors[d]
    OBVIOUS
  <2> QED BY <2>1, <2>2, <2>3
<1>4. IsUnion(W, K, V)
  BY DEF IsUnion
<1> HIDE DEF W, h
<1>5. IsFiniteSet(V) /\ Cardinality(V) = SumFunctionOnSet(h, K)
  BY <1>1, <1>2, <1>3, <1>4, CountFamily
<1> QED BY <1>5, Zenon DEF h

\* Once r has written, whoever has results and was waited for by r was waited for by, or is,
\* a child of r with results.
LEMMA CoveredByChildren ==
  ASSUME TypeOK, AncestorsIs, AncestorsIs', WaitedForIs, WaitedForIs', Grown, Finished,
         NEW r \in Runs, Writes(r)
  PROVE  \A d \in Covered(r)' : \E c \in sumChildResults(r) : d \in {c} \cup Covered(c)
<1>1. /\ parent' = parent /\ background' = background
      /\ \A d \in Runs : d # r => results'[d] = results[d]
  BY DEF Writes, writeResults, TypeOK
<1>2. WaitedFor'[r] = {}
  BY WriteKeepsChains
<1> DEFINE Reached(d) == results'[d].written /\ r \in WaitedFor'[d]
           P == {d \in Runs : Reached(d) => \E c \in sumChildResults(r) : d \in {c} \cup Covered(c)}
<1>3. ASSUME NEW d \in Runs, \A q \in Runs : q < d => q \in P PROVE d \in P
  <2> SUFFICES ASSUME Reached(d) PROVE \E c \in sumChildResults(r) : d \in {c} \cup Covered(c)
    OBVIOUS
  <2> DEFINE p == parent[d]
  <2>1. /\ p # Host /\ ~background[d] /\ results'[p].written
        /\ WaitedFor'[d] = {p} \cup WaitedFor'[p]
    BY <1>1 DEF WaitedForIs, Wrote
  <2>2. p \in Runs /\ p < d /\ d # r /\ Wrote(d)
    BY <1>1, <1>2, <2>1 DEF TypeOK, Wrote
  <2>3. CASE p = r
    <3>1. d \in sumChildResults(r)
      BY <2>1, <2>2, <2>3 DEF sumChildResults, Children, Grown
    <3> QED BY <3>1
  <2>4. CASE p # r
    <3>1. Reached(p) /\ Wrote(p) /\ p \in P
      BY <1>1, <1>3, <2>1, <2>2, <2>4 DEF Wrote
    <3>2. PICK c \in sumChildResults(r) : p \in {c} \cup Covered(c)
      BY <3>1
    <3>3. WaitedFor[d] = {p} \cup WaitedFor[p]
      BY <2>1, <3>1 DEF WaitedForIs
    <3>4. c \in WaitedFor[d]
      BY <3>2, <3>3 DEF Covered
    <3>5. d \in Covered(c)
      BY <2>2, <3>4 DEF Covered
    <3> QED BY <3>2, <3>5
  <2> QED BY <2>3, <2>4
<1> HIDE DEF P
<1>4. \A d \in Runs : d \in P
  BY <1>3, RunInduction
<1>5. \A d \in Covered(r)' : d \in Runs /\ Reached(d)
  BY DEF Covered, Wrote
<1> QED BY <1>4, <1>5 DEF P

\* What a run writes is at least one for each run that it waited for, and at most one for
\* each below it.
LEMMA WrittenTotal ==
  ASSUME TypeOK, AncestorsIs, AncestorsIs', WaitedForIs, WaitedForIs', Grown, Finished, TotalsCoverTree,
         NEW r \in Runs, Writes(r)
  PROVE  /\ results'[r].total >= 1 + Cardinality(Covered(r)')
         /\ results'[r].total <= 1 + Cardinality(Below(r)')
<1> DEFINE K == sumChildResults(r)
           X1 == [c \in Runs |-> Covered(c)]
           X2 == [c \in Runs |-> Below(c)]
           V1 == UNION {{c} \cup X1[c] : c \in K}
           V2 == UNION {{c} \cup X2[c] : c \in K}
           h1 == [c \in K |-> 1 + Cardinality(X1[c])]
           h2 == [c \in K |-> 1 + Cardinality(X2[c])]
<1>1. /\ parent' = parent /\ pc' = [pc EXCEPT ![r] = "leaving"]
      /\ results'[r].total = 1 + SumFunctionOnSet(Totals, K)
      /\ results'[r].written /\ \A d \in Runs : d # r => results'[d] = results[d]
  BY DEF Writes, writeResults, TypeOK
<1>2. K \in SUBSET {c \in Runs : parent[c] = r} /\ K \in SUBSET Runs /\ \A c \in K : Wrote(c) /\ pc[c] # "none"
  BY DEF sumChildResults, Children
<1>3. \A c \in K : /\ Totals[c] \in Nat
                   /\ Totals[c] >= 1 + Cardinality(Covered(c)) /\ Totals[c] <= 1 + Cardinality(Below(c))
  BY <1>2 DEF TypeOK, Totals, TotalsCoverTree, Covered, Below
<1>4. \A c \in Runs : X1[c] \in SUBSET {d \in Runs : c \in Ancestors[d]}
  BY AncestorsPrecede DEF Covered
<1>5. \A c \in Runs : X2[c] \in SUBSET {d \in Runs : c \in Ancestors[d]}
  BY DEF Below, Descendants
<1>6. IsFiniteSet(V1) /\ Cardinality(V1) = SumFunctionOnSet(h1, K)
  <2> HIDE DEF K, X1
  <2> QED BY <1>2, <1>4, SumOfSubtrees
<1>7. IsFiniteSet(V2) /\ Cardinality(V2) = SumFunctionOnSet(h2, K)
  <2> HIDE DEF K, X2
  <2> QED BY <1>2, <1>5, SumOfSubtrees
<1>8. \A c \in K : h1[c] \in Int /\ h1[c] <= Totals[c] /\ h2[c] \in Int /\ Totals[c] <= h2[c]
  <2> SUFFICES ASSUME NEW c \in K PROVE h1[c] \in Int /\ h1[c] <= Totals[c] /\ h2[c] \in Int /\ Totals[c] <= h2[c]
    OBVIOUS
  <2>1. h1[c] = 1 + Cardinality(Covered(c)) /\ h2[c] = 1 + Cardinality(Below(c))
    BY <1>2
  <2> HIDE DEF h1, h2
  <2> QED BY <1>3, <2>1, CountsAreNat
<1>9. Covered(r)' \subseteq V1
  BY <1>2, CoveredByChildren
<1>10. V2 \subseteq Below(r)'
  <2>1. Ancestors' = Ancestors
    BY <1>1 DEF Ancestors
  <2>2. \A d \in Runs : Wrote(d) /\ pc[d] # "none" /\ r \in Ancestors[d] => d \in Below(r)'
    BY <1>1, <2>1 DEF Below, Descendants, Wrote, TypeOK
  <2>3. ASSUME NEW c \in K PROVE {c} \cup Below(c) \subseteq Below(r)'
    <3>1. r \in Ancestors[c] /\ c \in Runs
      BY <1>2, HostIsNoRun DEF AncestorsIs
    <3>2. \A d \in Below(c) : d \in Runs /\ Wrote(d) /\ pc[d] # "none" /\ c \in Ancestors[d]
      BY DEF Below, Descendants
    <3>3. \A d \in Below(c) : r \in Ancestors[d]
      BY <3>1, <3>2, AncestorsTransitive
    <3> QED BY <1>2, <2>2, <3>1, <3>2, <3>3
  <2> HIDE DEF K
  <2> QED BY <1>2, <2>3
<1> HIDE DEF K, h1, h2, V1, V2
<1>11. SumFunctionOnSet(h1, K) <= SumFunctionOnSet(Totals, K) /\ SumFunctionOnSet(Totals, K) <= SumFunctionOnSet(h2, K)
  <2>1. IsFiniteSet(K) /\ \A c \in K : Totals[c] \in Int
    BY <1>2, <1>3, FiniteRuns
  <2>2. SumFunctionOnSet(h1, K) <= SumFunctionOnSet(Totals, K)
    BY <1>8, <2>1, SumMonotone
  <2>3. SumFunctionOnSet(Totals, K) <= SumFunctionOnSet(h2, K)
    BY <1>8, <2>1, SumMonotone
  <2> QED BY <2>2, <2>3
<1>12. IsFiniteSet(Below(r)')
  <2>1. Below(r)' \in SUBSET Runs
    BY DEF Below, Descendants
  <2> QED BY <2>1, FiniteRuns
<1>13. /\ Cardinality(Covered(r)') <= Cardinality(V1) /\ Cardinality(V2) <= Cardinality(Below(r)')
       /\ Cardinality(Covered(r)') \in Nat /\ Cardinality(Below(r)') \in Nat
       /\ Cardinality(V1) \in Nat /\ Cardinality(V2) \in Nat
  <2>1. IsFiniteSet(Covered(r)') /\ Cardinality(Covered(r)') <= Cardinality(V1)
    BY <1>6, <1>9, FS_Subset
  <2>2. Cardinality(V2) <= Cardinality(Below(r)')
    BY <1>10, <1>12, FS_Subset
  <2> QED BY <1>6, <1>7, <1>12, <2>1, <2>2, FS_CardinalityType
<1>14. SumFunctionOnSet(Totals, K) \in Nat
  BY <1>2, TotalIsNat
<1> QED BY <1>1, <1>6, <1>7, <1>11, <1>13, <1>14

\* No other step covers more of what was written before, and the tree below a run only grows.
LEMMA TotalsStep ==
  ASSUME TypeOK, TypeOK', AncestorsIs, AncestorsIs', WaitedForIs, WaitedForIs', Grown, Finished,
         TotalsCoverTree, TreeStep
  PROVE  TotalsCoverTree'
<1> SUFFICES ASSUME NEW w \in Runs, Wrote(w)'
             PROVE  /\ results'[w].total >= 1 + Cardinality(Covered(w)')
                    /\ results'[w].total <= 1 + Cardinality(Below(w)')
  BY DEF TotalsCoverTree, Covered, Below
<1>1. ASSUME Wrote(w), results'[w] = results[w], Covered(w)' \subseteq Covered(w), Below(w) \subseteq Below(w)'
      PROVE  /\ results'[w].total >= 1 + Cardinality(Covered(w)')
             /\ results'[w].total <= 1 + Cardinality(Below(w)')
  <2>1. /\ results[w].total \in Nat
        /\ results[w].total >= 1 + Cardinality(Covered(w)) /\ results[w].total <= 1 + Cardinality(Below(w))
    BY <1>1 DEF TypeOK, TotalsCoverTree, Covered, Below
  <2>2. IsFiniteSet(Covered(w)) /\ IsFiniteSet(Below(w)')
    <3>1. Below(w)' \in SUBSET Runs
      BY DEF Below, Descendants
    <3> QED BY <3>1, CountsAreNat, FiniteRuns
  <2> QED BY <1>1, <2>1, <2>2, TotalStays
<1>2. CASE UNCHANGED tree
  <2>1. WaitedFor' = WaitedFor /\ Ancestors' = Ancestors /\ results' = results /\ pc' = pc
    BY <1>2 DEF tree, WaitedFor, Ancestors, Wrote
  <2> QED BY <1>1, <2>1 DEF Covered, Below, Descendants, Wrote
<1>3. ASSUME NEW r \in Runs, Called(r)
      PROVE  /\ results'[w].total >= 1 + Cardinality(Covered(w)')
             /\ results'[w].total <= 1 + Cardinality(Below(w)')
  <2>1. results' = results /\ pc[r] = "none" /\ pc' = [pc EXCEPT ![r] = "started"]
    BY <1>3 DEF Called, Begin, Goto, outVars
  <2>2. \A d \in Runs : Wrote(d)' = Wrote(d) /\ (Wrote(d) => d # r)
    BY <2>1 DEF Wrote, Finished
  <2>3. \A d \in Runs : d # r => Ancestors'[d] = Ancestors[d] /\ WaitedFor'[d] = WaitedFor[d]
    BY <1>3, CallKeepsChains
  <2>4. Covered(w)' \subseteq Covered(w)
    BY <2>2, <2>3 DEF Covered
  <2>5. Below(w) \subseteq Below(w)'
    BY <2>1, <2>2, <2>3 DEF Below, Descendants, TypeOK
  <2> QED BY <1>1, <2>1, <2>2, <2>4, <2>5
<1>4. ASSUME NEW r \in Runs, Moves(r)
      PROVE  /\ results'[w].total >= 1 + Cardinality(Covered(w)')
             /\ results'[w].total <= 1 + Cardinality(Below(w)')
  <2>1. parent' = parent /\ background' = background /\ results' = results
    BY <1>4 DEF Moves
  <2>2. \A d \in Runs : pc[d] # "none" => pc'[d] # "none"
    BY <1>4 DEF Moves, TypeOK
  <2>3. WaitedFor' = WaitedFor /\ Ancestors' = Ancestors
    BY <2>1 DEF WaitedFor, Ancestors, Wrote
  <2>4. Covered(w)' = Covered(w)
    BY <2>1, <2>3 DEF Covered, Wrote
  <2>5. Below(w) \subseteq Below(w)'
    BY <2>1, <2>2, <2>3 DEF Below, Descendants, Wrote
  <2>6. Wrote(w)
    BY <2>1 DEF Wrote
  <2> QED BY <1>1, <2>1, <2>4, <2>5, <2>6
<1>5. ASSUME NEW r \in Runs, Writes(r)
      PROVE  /\ results'[w].total >= 1 + Cardinality(Covered(w)')
             /\ results'[w].total <= 1 + Cardinality(Below(w)')
  <2>1. CASE w = r
    BY <1>5, <2>1, WrittenTotal
  <2>2. CASE w # r
    <3>1. /\ parent' = parent /\ pc' = [pc EXCEPT ![r] = "leaving"] /\ results'[r].written
          /\ \A d \in Runs : d # r => results'[d] = results[d]
      BY <1>5 DEF Writes, writeResults, TypeOK
    <3>2. \A d \in Runs : d # r => Wrote(d)' = Wrote(d)
      BY <3>1 DEF Wrote
    <3>3. WaitedFor'[r] = {} /\ \A d \in Runs : WaitedFor'[d] \subseteq WaitedFor[d] \cup {r}
      BY <1>5, WriteKeepsChains
    <3>4. Covered(w)' \subseteq Covered(w)
      BY <2>2, <3>2, <3>3 DEF Covered
    <3>5. Ancestors' = Ancestors
      BY <3>1 DEF Ancestors
    <3>6. \A d \in Runs : (Wrote(d) => Wrote(d)') /\ (pc[d] # "none" => pc'[d] # "none")
      BY <3>1, <3>2 DEF Wrote, TypeOK
    <3>7. Below(w) \subseteq Below(w)'
      BY <3>5, <3>6 DEF Below, Descendants
    <3> QED BY <1>1, <2>2, <3>1, <3>2, <3>4, <3>7
  <2> QED BY <2>1, <2>2
<1> QED BY <1>2, <1>3, <1>4, <1>5 DEF TreeStep

TreeInv == Grown /\ Finished /\ TotalsCoverTree

LEMMA TreeInit == Init => TreeInv
BY HostIsNoRun DEF Init, TreeInv, Grown, Finished, TotalsCoverTree, Wrote, NoResults

LEMMA AlwaysTree == Spec => []TreeInv
<1>1. /\ (TypeOK => AncestorsIs)' /\ (TypeOK => WaitedForIs)'
  BY AncestorsDef, WaitedForDef, PTL
<1>2. TypeOK /\ TypeOK' /\ Numbered /\ TreeInv /\ [Next]_vars => TreeInv'
  <2> SUFFICES ASSUME TypeOK, TypeOK', Numbered, TreeInv, [Next]_vars PROVE TreeInv'
    OBVIOUS
  <2>1. AncestorsIs /\ WaitedForIs
    BY AncestorsDef, WaitedForDef
  <2>2. AncestorsIs' /\ WaitedForIs'
    BY <1>1
  <2>3. TreeStep
    BY StepsOfTree
  <2> QED BY <2>1, <2>2, <2>3, GrownStep, FinishedStep, TotalsStep DEF TreeInv
<1> QED BY TreeInit, AlwaysTyped, <1>2, PTL DEF Spec

\* total_usage_usd of a run counts every run below it that wrote results and that it waited
\* for, directly or not, and no run twice (writeResults).
THEOREM TotalsCoverTreeHolds == Spec => []TotalsCoverTree
<1>1. TreeInv => TotalsCoverTree
  BY DEF TreeInv
<1> QED BY <1>1, AlwaysTree, PTL

-------------------------------------------------------------------------------
(* Jobs *)

\* A background run, and no other, has a job, whose parent is the job of its caller, if that
\* is a background run too.
JobsInv ==
  \A r \in Runs : /\ job[r] # "none" => background[r] /\ pc[r] # "none"
                  /\ background[r] => jobParent[r] = BgJobID(parent[r])

\* The subtree of a job that is still registered has the job and whichever registered one has its
\* parent in it.
LEMMA JobSubtreeIs ==
  ASSUME TypeOK, NEW j \in Runs
  PROVE  \A d \in Runs : d \in JobSubtree(j) <=>
           /\ job[d] # "reaped"
           /\ d = j \/ (jobParent[d] # Host /\ jobParent[d] \in JobSubtree(j))
<1> DEFINE own == [r \in Runs |-> IF job[r] = "reaped" THEN {} ELSE {r}]
           up  == [r \in Runs |-> IF job[r] = "reaped" THEN Host ELSE jobParent[r]]
           over == CHOOSE g : g = [r \in Runs |-> IF job[r] = "reaped" THEN {}
                     ELSE {r} \cup (IF jobParent[r] = Host THEN {} ELSE g[jobParent[r]])]
<1>1. \A r \in Runs : jobParent[r] \in Runs \cup {Host} /\ jobParent[r] < r
  BY DEF TypeOK
<1>2. \A r \in Runs : up[r] \in Runs \cup {Host} /\ up[r] < r
  <2>1. \A r \in Runs : Host < r
    BY NumRunsAssumption DEF Runs, Host
  <2> QED BY <1>1, <2>1
<1>3. PICK f : Collects(f, Runs, own, up)
  <2> HIDE DEF own, up
  <2> QED BY <1>2, CollectsExists
<1>4. f = [r \in Runs |-> IF job[r] = "reaped" THEN {}
             ELSE {r} \cup (IF jobParent[r] = Host THEN {} ELSE f[jobParent[r]])]
  <2>1. f = [r \in Runs |-> own[r] \cup (IF up[r] = Host THEN {} ELSE f[up[r]])]
    BY <1>3 DEF Collects
  <2>2. \A r \in Runs : own[r] \cup (IF up[r] = Host THEN {} ELSE f[up[r]])
                       = IF job[r] = "reaped" THEN {}
                         ELSE {r} \cup (IF jobParent[r] = Host THEN {} ELSE f[jobParent[r]])
    OBVIOUS
  <2> HIDE DEF own, up
  <2> QED BY <2>1, <2>2
<1>5. over = [r \in Runs |-> IF job[r] = "reaped" THEN {}
                ELSE {r} \cup (IF jobParent[r] = Host THEN {} ELSE over[jobParent[r]])]
  BY <1>4
<1>6. JobSubtree(j) = {d \in Runs : j \in over[d]}
  BY DEF JobSubtree
<1> HIDE DEF over
<1>7. \A d \in Runs : j \in over[d] <=>
        /\ job[d] # "reaped"
        /\ d = j \/ (jobParent[d] # Host /\ j \in over[jobParent[d]])
  BY <1>5
<1> QED BY <1>1, <1>6, <1>7

LEMMA JobsStep == ASSUME TypeOK, Numbered, Grown, JobsInv, [Next]_vars PROVE JobsInv'
<1>1. ASSUME NEW r \in Runs, Called(r) PROVE JobsInv'
  <2>1. PICK p \in Runs \cup {Host}, b \in BOOLEAN :
          /\ p # Host => p < r
          /\ pc[r] = "none" /\ pc' = [pc EXCEPT ![r] = "started"] /\ startJob(r, p, b)
          /\ parent' = [parent EXCEPT ![r] = p] /\ background' = [background EXCEPT ![r] = b]
    BY <1>1 DEF Called, Begin, Goto
  <2>2. \A d \in Runs : d # r => parent[d] # r
    BY <2>1, HostIsNoRun DEF Grown
  <2> SUFFICES ASSUME NEW d \in Runs
               PROVE  /\ job'[d] # "none" => background'[d] /\ pc'[d] # "none"
                      /\ background'[d] => jobParent'[d] = BgJobID(parent[d])'
    BY DEF JobsInv
  <2>3. CASE d = r
    <3>1. p # r
      BY <2>1, HostIsNoRun DEF Runs
    <3>2. background'[d] = b /\ parent'[d] = p
      BY <2>1, <2>3 DEF TypeOK
    <3>3. p \in Runs => background'[p] = background[p]
      BY <2>1, <3>1 DEF TypeOK
    <3>4. jobParent'[d] = (IF b THEN BgJobID(p) ELSE Host) /\ job'[d] = (IF b THEN "running" ELSE job[d])
      BY <2>1, <2>3 DEF startJob, TypeOK
    <3>5. job[r] = "none" /\ pc'[r] = "started"
      BY <2>1 DEF JobsInv, TypeOK
    <3> QED BY <3>2, <3>3, <3>4, <3>5, <2>3 DEF BgJobID
  <2>4. CASE d # r
    <3>1. /\ job'[d] = job[d] /\ jobParent'[d] = jobParent[d]
          /\ parent'[d] = parent[d] /\ background'[d] = background[d] /\ pc'[d] = pc[d]
      BY <2>1, <2>4 DEF startJob, TypeOK
    <3>2. BgJobID(parent[d])' = BgJobID(parent[d])
      BY <2>1, <2>2, <2>4, <3>1 DEF BgJobID, TypeOK
    <3> QED BY <3>1, <3>2 DEF JobsInv
  <2> QED BY <2>3, <2>4
<1>2. ASSUME /\ \A d \in Runs : job'[d] # "none" => job[d] # "none"
             /\ \A d \in Runs : pc[d] # "none" => pc'[d] # "none"
             /\ UNCHANGED <<jobParent, background, parent>>
      PROVE  JobsInv'
  <2>1. \A d \in Runs : BgJobID(parent[d])' = BgJobID(parent[d])
    BY <1>2 DEF BgJobID
  <2>2. \A d \in Runs : /\ background'[d] = background[d] /\ jobParent'[d] = jobParent[d]
                        /\ job'[d] # "none" => background[d] /\ pc'[d] # "none"
    BY <1>2 DEF JobsInv
  <2>3. \A d \in Runs : background[d] => jobParent[d] = BgJobID(parent[d])
    BY DEF JobsInv
  <2> QED BY <2>1, <2>2, <2>3 DEF JobsInv
<1>3. CASE UNCHANGED vars
  BY <1>2, <1>3 DEF vars, callVars, jobVars
<1>4. ASSUME NEW r \in Runs,
             SetUp(r) \/ AgentEnds(r) \/ PlainEnds(r) \/ RunFails(r) \/ Return(r) \/ Cancel(r) \/ Reap(r)
      PROVE  JobsInv'
  <2>0. \A d \in Runs : pc[d] # "none" => pc'[d] # "none"
    BY <1>4, OwnStepsMove DEF Moves, Writes, tree, TypeOK
  <2>1. CASE SetUp(r) \/ AgentEnds(r) \/ PlainEnds(r) \/ RunFails(r)
    <3>1. UNCHANGED <<callVars, jobVars>>
      BY <2>1 DEF SetUp, prepareAgentFails, reserveName, nameInUse, buildRootLayout, buildChildLayout,
         childMounts, mkLayoutDirsFails, createSandbox, prepareSandbox, createSandboxFails, Created, GiveUp,
         AgentEnds, PlainEnds, RunFails
    <3> QED BY <1>2, <2>0, <3>1 DEF callVars, jobVars
  <2>2. CASE Return(r)
    BY <1>2, <2>0, <2>2 DEF Return, TypeOK, callVars
  <2>3. CASE Cancel(r)
    BY <1>2, <2>0, <2>3 DEF Cancel, TypeOK, callVars
  <2>4. CASE Reap(r)
    BY <1>2, <2>0, <2>4 DEF Reap, TypeOK, callVars
  <2> QED BY <1>4, <2>1, <2>2, <2>3, <2>4
<1>5. CASE Next
  BY <1>1, <1>4, <1>5, HandlersCall, Zenon DEF Next
<1> QED BY <1>3, <1>5

LEMMA AlwaysJobs == Spec => []JobsInv
<1>1. Init => JobsInv
  BY DEF Init, JobsInv
<1>2. TypeOK /\ Numbered /\ TreeInv /\ JobsInv /\ [Next]_vars => JobsInv'
  BY JobsStep DEF TreeInv
<1> QED BY <1>1, <1>2, AlwaysTyped, AlwaysTree, PTL DEF Spec

\* Where only background runs lie between, the job handles lead from a run to its ancestor,
\* unless one of the jobs has been reaped.
LEMMA LinkedSubtree ==
  ASSUME TypeOK, AncestorsIs, WaitedForIs, JobsInv, NEW j \in Runs
  PROVE  \A d \in Runs :
           (/\ background[d] /\ job[d] # "reaped" /\ j \in Ancestors[d]
            /\ \A m \in Ancestors[d] \ Ancestors[j] : background[m] /\ job[m] # "reaped")
              => d \in JobSubtree(j)
<1> DEFINE Linked(d) == /\ background[d] /\ job[d] # "reaped" /\ j \in Ancestors[d]
                        /\ \A m \in Ancestors[d] \ Ancestors[j] : background[m] /\ job[m] # "reaped"
           P == {d \in Runs : Linked(d) => d \in JobSubtree(j)}
<1>1. ASSUME NEW d \in Runs, \A q \in Runs : q < d => q \in P PROVE d \in P
  <2> SUFFICES ASSUME Linked(d) PROVE d \in JobSubtree(j)
    OBVIOUS
  <2> DEFINE p == parent[d]
  <2>1. p # Host /\ Ancestors[d] = {p} \cup Ancestors[p]
    BY DEF AncestorsIs
  <2>2. p \in Runs /\ p < d
    BY <2>1 DEF TypeOK
  <2>3. p \notin Ancestors[j]
    <3>1. (p = j \/ j < p) /\ \A a \in Ancestors[j] : a < j
      BY <2>1, <2>2, AncestorsPrecede
    <3> QED BY <2>2, <3>1, NumRunsAssumption DEF Runs
  <2>4. background[p] /\ job[p] # "reaped"
    BY <2>1, <2>3
  <2>5. jobParent[d] = p
    BY <2>2, <2>4 DEF JobsInv, BgJobID
  <2>6. p \in JobSubtree(j)
    <3>1. CASE p = j
      BY <2>2, <2>4, <3>1, JobSubtreeIs
    <3>2. CASE p # j
      <4>1. Linked(p)
        BY <2>1, <2>4, <3>2
      <4> QED BY <1>1, <2>2, <4>1
    <3> QED BY <3>1, <3>2
  <2> QED BY <2>1, <2>5, <2>6, JobSubtreeIs
<1> HIDE DEF P
<1>2. \A d \in Runs : d \in P
  BY <1>1, RunInduction
<1> QED BY <1>2 DEF P

\* A Cancel ends each running job below its target that only background runs lie between,
\* none of them with a reaped job (spawnContext.bgJobID, cancelSubtree).
THEOREM CancelReachesLinkedHolds == Spec => CancelReachesLinked
<1>1. TypeOK /\ JobsInv =>
        \A j \in Runs : Cancel(j) =>
          \A d \in Descendants(j) :
            ( /\ job[d] = "running"
              /\ \A m \in Ancestors[d] \ Ancestors[j] : background[m] /\ job[m] # "reaped" ) => job'[d] = "cancelled"
  <2> SUFFICES ASSUME TypeOK, JobsInv, NEW j \in Runs, Cancel(j), NEW d \in Descendants(j), job[d] = "running",
                      \A m \in Ancestors[d] \ Ancestors[j] : background[m] /\ job[m] # "reaped"
               PROVE  job'[d] = "cancelled"
    OBVIOUS
  <2>1. d \in Runs /\ j \in Ancestors[d] /\ background[d] /\ job[d] # "reaped"
    BY DEF Descendants, JobsInv
  <2>2. d \in JobSubtree(j)
    BY <2>1, AncestorsDef, WaitedForDef, LinkedSubtree
  <2> QED BY <2>1, <2>2 DEF Cancel
<1> QED BY <1>1, AlwaysTyped, AlwaysJobs, PTL DEF CancelReachesLinked
===============================================================================
