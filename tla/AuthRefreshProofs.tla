---------------------------- MODULE AuthRefreshProofs ----------------------------
(***************************************************************************)
(* Proofs about AuthRefresh, for any number of launches, expiries, errors  *)
(* and crashes, and an endpoint that rotates the refresh token or not.     *)
(***************************************************************************)
EXTENDS AuthRefresh, TLAPS

\* A launch that has a token to write has had a temp file since CreateTemp, and
\* a full one before Rename.
TempInv ==
  /\ DOMAIN temp \subseteq Launches
  /\ \A l \in DOMAIN temp : pc[l] \in {"fill", "rename", "crashed"}
                            /\ temp[l] \in TokenSets \cup {Empty}
  /\ \A l \in Launches : pc[l] \in {"fill", "rename"} => l \in DOMAIN temp
  /\ \A l \in Launches : pc[l] = "rename" => temp[l] = tokens[l]

\* The properties' common strengthening that needs no assumption.
BaseInv == TypeOK /\ TempInv

USE DEF TokenSets, Replies, Rotated, Unrotated

LEMMA BaseInit == Init => BaseInv
BY BoundsAssumption DEF Init, BaseInv, TypeOK, TempInv, NoTokens, NoAnswer

\* The temp file of one launch is written or removed.
LEMMA Writes ==
  ASSUME NEW l, NEW data, Write(l, data)
  PROVE  /\ DOMAIN temp' = DOMAIN temp \cup {l}
         /\ temp'[l] = data
         /\ \A k \in DOMAIN temp : k # l => temp'[k] = temp[k]
BY DEF Write

LEMMA Removes ==
  ASSUME NEW l, Remove(l)
  PROVE  /\ DOMAIN temp' = DOMAIN temp \ {l}
         /\ \A k \in DOMAIN temp : k # l => temp'[k] = temp[k]
BY DEF Remove

LEMMA BaseStep ==
  ASSUME BaseInv, [Next]_vars
  PROVE  BaseInv'
<1> USE BoundsAssumption DEF BaseInv, TypeOK, TempInv, Underway, Goto, Mishap, faultVars
<1>1. ASSUME NEW l \in Launches, Read(l) PROVE BaseInv'
  BY <1>1 DEF Read
<1>2. ASSUME NEW l \in Launches, Grant(l) PROVE BaseInv'
  <2>1. Rotated(current + 1) \in Replies /\ Unrotated \in Replies
    OBVIOUS
  <2>2. PICK r \in Replies : reply' = [reply EXCEPT ![l] = r]
    BY <1>2, <2>1 DEF Grant
  <2>3. reply' \in [Launches -> Replies] /\ current' \in Nat
    BY <1>2, <2>2 DEF Grant
  <2> QED BY <1>2, <2>3 DEF Grant
<1>3. ASSUME NEW l \in Launches, Refuse(l) PROVE BaseInv'
  BY <1>3 DEF Refuse
<1>4. ASSUME NEW l \in Launches, Receive(l) PROVE BaseInv'
  <2>1. reply[l].refresh \in Nat /\ tokens[l].refresh \in Nat
    OBVIOUS
  <2>2. [refresh |-> IF reply[l] = Unrotated THEN tokens[l].refresh ELSE reply[l].refresh,
         born |-> epoch] \in TokenSets
    BY <2>1
  <2>3. tokens' \in [Launches -> TokenSets]
    BY <1>4, <2>2 DEF Receive
  <2> QED BY <1>4, <2>3 DEF Receive
<1>5. ASSUME NEW l \in Launches, RequestFails(l) PROVE BaseInv'
  BY <1>5 DEF RequestFails
<1>6. ASSUME NEW l \in Launches, CreateTemp(l) PROVE BaseInv'
  <2>1. /\ DOMAIN temp' = DOMAIN temp \cup {l} /\ temp'[l] = Empty
        /\ \A k \in DOMAIN temp : k # l => temp'[k] = temp[k]
    BY <1>6, Writes DEF CreateTemp
  <2>2. TempInv'
    BY <1>6, <2>1 DEF CreateTemp
  <2>3. TypeOK'
    BY <1>6, <2>1 DEF CreateTemp
  <2> QED BY <2>2, <2>3
<1>7. ASSUME NEW l \in Launches, CreateFails(l) PROVE BaseInv'
  BY <1>7 DEF CreateFails
<1>8. ASSUME NEW l \in Launches, Fill(l) PROVE BaseInv'
  <2>1. PICK data : data = tokens[l]
    OBVIOUS
  <2>2. /\ DOMAIN temp' = DOMAIN temp \cup {l} /\ temp'[l] = tokens[l]
        /\ \A k \in DOMAIN temp : k # l => temp'[k] = temp[k]
    BY <1>8, <2>1, Writes DEF Fill
  <2>3. TempInv'
    BY <1>8, <2>2 DEF Fill
  <2>4. TypeOK'
    BY <1>8, <2>2 DEF Fill
  <2> QED BY <2>3, <2>4
<1>9. ASSUME NEW l \in Launches, FillFails(l) \/ Rename(l) \/ RenameFails(l) PROVE BaseInv'
  <2>1. /\ DOMAIN temp' = DOMAIN temp \ {l}
        /\ \A k \in DOMAIN temp : k # l => temp'[k] = temp[k]
    BY <1>9, Removes DEF FillFails, Rename, RenameFails
  <2>2. pc' \in {[pc EXCEPT ![l] = "ok"], [pc EXCEPT ![l] = "failed"]} /\ UNCHANGED tokens
    BY <1>9 DEF FillFails, Rename, RenameFails
  <2>3. TempInv'
    BY <2>1, <2>2
  <2>4. file' \in TokenSets
    BY <1>9 DEF FillFails, Rename, RenameFails
  <2>5. TypeOK'
    BY <1>9, <2>1, <2>4 DEF FillFails, Rename, RenameFails
  <2> QED BY <2>3, <2>5
<1>10. ASSUME NEW l \in Launches, Crash(l) PROVE BaseInv'
  BY <1>10 DEF Crash, Active
<1>11. CASE Expire
  BY <1>11 DEF Expire
<1>12. CASE UNCHANGED vars
  BY <1>12 DEF vars
<1> QED
  BY <1>1, <1>2, <1>3, <1>4, <1>5, <1>6, <1>7, <1>8, <1>9, <1>10, <1>11, <1>12
  DEF Next, Request, WriteAtomic

LEMMA BaseInvariant == Spec => []BaseInv
BY BaseInit, BaseStep, PTL DEF Spec

\* auth.json is never torn, and every other variable keeps its type.
THEOREM TypeCorrect == Spec => []TypeOK
<1>1. BaseInv => TypeOK
  BY DEF BaseInv
<1> QED BY <1>1, BaseInvariant, PTL

\* A launch that returns leaves no temp file, on any path.
THEOREM NoLeftoverHolds == Spec => []NoLeftover
<1>1. BaseInv => NoLeftover
  BY DEF BaseInv, TempInv, NoLeftover
<1> QED BY <1>1, BaseInvariant, PTL

\* Readers of auth.json see a whole token set, and no launch that returns leaves a
\* temp file.
THEOREM WriteIsAtomicHolds == Spec => []WriteIsAtomic
<1>1. TypeOK /\ NoLeftover => WriteIsAtomic
  BY DEF TypeOK, WriteIsAtomic
<1> QED BY <1>1, TypeCorrect, NoLeftoverHolds, PTL

-------------------------------------------------------------------------------
(* Rotations.  Of the launches that still have to write, at most one was given *)
(* a new refresh token: it is the current one, and nobody else knows it before *)
(* it is in the file, so nobody can be granted the next one earlier.           *)

Holds(l)   == pc[l] \in {"granted", "create", "fill", "rename"}
New(l)     == reply[l].got /\ reply[l].refresh # 0
Carries(l) == Holds(l) /\ New(l)

\* What a launch knows of the token it is to post, or was answered without a new one for.
Knows(l)   == pc[l] = "post" \/ (Holds(l) /\ ~New(l))

\* TokenIsKept in these terms.
Kept ==
  file.refresh # current =>
    \E l \in Launches :
      \/ New(l) /\ reply[l].refresh = current /\ pc[l] \notin {"idle", "post", "ok"}
      \/ reply[l].got /\ ~New(l) /\ pc[l] = "ok" /\ file = tokens[l]

RotationInv ==
  /\ file.refresh <= current /\ current > 0
  /\ \A l \in Launches : Holds(l) => reply[l].got
  /\ \A l \in Launches : Knows(l) => tokens[l].refresh <= current
  /\ \A l \in Launches : Carries(l) => reply[l].refresh = current /\ file.refresh < current
  /\ \A k, l \in Launches : Carries(l) /\ Knows(k) => tokens[k].refresh < current
  /\ \A k, l \in Launches : Carries(k) /\ Carries(l) => k = l
  /\ \A l \in Launches : Carries(l) /\ pc[l] # "granted" => tokens[l].refresh = current
  /\ Kept

\* An answer in terms of its parts.
LEMMA AnswerParts ==
  ASSUME TypeOK, NEW l \in Launches, NEW n \in Nat
  PROVE  /\ reply[l] = Rotated(n) <=> reply[l].got /\ reply[l].refresh = n
         /\ reply[l] = Unrotated  <=> reply[l].got /\ reply[l].refresh = 0
BY DEF TypeOK

LEMMA KeptIs == TypeOK /\ RotationInv => TokenIsKept
BY AnswerParts DEF RotationInv, Kept, New, TokenIsKept, TypeOK

LEMMA RotationInit == Init => RotationInv
BY DEF Init, RotationInv, Holds, New, Carries, Knows, Kept, NoAnswer

\* What the endpoint's answer adds to what is known, in parts.
LEMMA Granted ==
  ASSUME TypeOK, NEW l \in Launches, Grant(l)
  PROVE  /\ pc[l] = "post" /\ tokens[l].refresh = current
         /\ reply'[l].got
         /\ \/ current' = current + 1 /\ reply'[l].refresh = current + 1
            \/ current' = current /\ reply'[l].refresh = 0
         /\ \A k \in Launches : k # l => reply'[k] = reply[k]
BY DEF Grant, TypeOK

\* What a launch does with it.
LEMMA Received ==
  ASSUME TypeOK, NEW l \in Launches, Receive(l), reply[l].got
  PROVE  /\ tokens'[l].refresh = IF New(l) THEN reply[l].refresh ELSE tokens[l].refresh
         /\ tokens'[l] \in TokenSets
         /\ \A k \in Launches : k # l => tokens'[k] = tokens[k]
BY AnswerParts DEF Receive, TypeOK, New

\* A launch goes on in its write, fails or dies.
LEMMA GoesOn ==
  ASSUME TypeOK, RotationInv, NEW l \in Launches, NEW w \in {"fill", "rename", "failed", "crashed"},
         pc[l] # "ok", w \in {"fill", "rename"} => pc[l] \in {"create", "fill"},
         pc' = [pc EXCEPT ![l] = w], UNCHANGED <<file, current, tokens, reply>>
  PROVE  RotationInv'
<1> USE DEF TypeOK, RotationInv, Holds, New, Carries, Knows, Underway
<1>1. \A k \in Launches : /\ New(k)' <=> New(k)
                          /\ Holds(k)' => Holds(k)
                          /\ Knows(k)' => Knows(k)
  OBVIOUS
<1>2. Kept'
  BY DEF Kept
<1> QED BY <1>1, <1>2

\* Only the rename of a launch that was answered without a new token sets the file back.
LEMMA RotationStep ==
  ASSUME BaseInv, RotationInv, [Next]_vars
  PROVE  /\ RotationInv'
         /\ file'.refresh < file.refresh =>
              \E l \in Launches : /\ pc[l] = "rename" /\ pc'[l] = "ok"
                                  /\ reply[l].got /\ reply[l].refresh = 0
<1> USE DEF BaseInv, TypeOK, TempInv, RotationInv, Holds, New, Carries, Knows, Kept, Underway,
            Goto, Mishap, faultVars
<1> DEFINE Back == \E l \in Launches : /\ pc[l] = "rename" /\ pc'[l] = "ok"
                                       /\ reply[l].got /\ reply[l].refresh = 0
           Goal == RotationInv' /\ (file'.refresh < file.refresh => Back)
<1>1. ASSUME NEW l \in Launches, Read(l) PROVE Goal
  BY <1>1 DEF Read
<1>2. ASSUME NEW l \in Launches, Grant(l) PROVE Goal
  <2>1. UNCHANGED <<file, tokens>> /\ pc' = [pc EXCEPT ![l] = "granted"]
    BY <1>2 DEF Grant
  <2>2. /\ pc[l] = "post" /\ tokens[l].refresh = current
        /\ reply'[l].got
        /\ \/ current' = current + 1 /\ reply'[l].refresh = current + 1
           \/ current' = current /\ reply'[l].refresh = 0
        /\ \A k \in Launches : k # l => reply'[k] = reply[k]
    BY <1>2, Granted
  <2>3. \A k \in Launches : ~Carries(k)
    BY <2>2
  <2>4. \A k \in Launches : k # l => /\ New(k)' <=> New(k)
                                     /\ Holds(k)' <=> Holds(k)
                                     /\ Knows(k)' <=> Knows(k)
    BY <2>1, <2>2
  <2>5. Holds(l)' /\ current \in Nat /\ file.refresh \in Nat
    BY <2>1
  <2>6. \A k \in Launches : Carries(k)' => k = l
    BY <2>3, <2>4
  <2>7. CASE current' = current + 1 /\ reply'[l].refresh = current + 1
    <3>1. New(l)' /\ ~Knows(l)'
      BY <2>1, <2>2, <2>5, <2>7
    <3>2. Kept'
      BY <2>1, <2>7, <3>1
    <3> QED BY <2>1, <2>2, <2>4, <2>5, <2>6, <2>7, <3>1, <3>2
  <2>8. CASE current' = current /\ reply'[l].refresh = 0
    <3>1. ~New(l)'
      BY <2>8
    <3>2. Kept'
      BY <2>1, <2>2, <2>4, <2>8
    <3> QED BY <2>1, <2>2, <2>3, <2>4, <2>5, <2>6, <2>8, <3>1, <3>2
  <2> QED BY <2>2, <2>7, <2>8
<1>3. ASSUME NEW l \in Launches, Refuse(l) PROVE Goal
  BY <1>3 DEF Refuse
<1>4. ASSUME NEW l \in Launches, Receive(l) PROVE Goal
  <2>1. UNCHANGED <<file, current, reply>> /\ pc' = [pc EXCEPT ![l] = "create"] /\ reply[l].got
    BY <1>4 DEF Receive
  <2>2. pc[l] = "granted" /\ Holds(l) /\ tokens'[l] \in TokenSets
    BY <1>4, <2>1, Received DEF Receive
  <2>3. /\ tokens'[l].refresh = IF New(l) THEN reply[l].refresh ELSE tokens[l].refresh
        /\ \A k \in Launches : k # l => tokens'[k] = tokens[k]
    BY <1>4, <2>1, Received
  <2>4. \A k \in Launches : /\ New(k)' <=> New(k)
                            /\ Holds(k)' <=> Holds(k)
                            /\ Knows(k)' <=> Knows(k)
    BY <2>1, <2>2
  <2>5. Kept'
    BY <2>1, <2>2, <2>3
  <2>6. \A k \in Launches : Knows(k) => tokens'[k].refresh = tokens[k].refresh
    BY <2>2, <2>3
  <2> QED BY <2>1, <2>2, <2>3, <2>4, <2>5, <2>6
<1>5. ASSUME NEW l \in Launches, RequestFails(l) PROVE Goal
  <2>1. PICK w \in {"fill", "rename", "failed", "crashed"} :
          /\ pc' = [pc EXCEPT ![l] = w] /\ pc[l] # "ok"
          /\ w \in {"fill", "rename"} => pc[l] \in {"create", "fill"}
    BY <1>5 DEF RequestFails
  <2>2. UNCHANGED <<file, current, tokens, reply>>
    BY <1>5 DEF RequestFails
  <2> QED BY <2>1, <2>2, GoesOn
<1>6. ASSUME NEW l \in Launches, CreateTemp(l) \/ CreateFails(l) PROVE Goal
  <2>1. PICK w \in {"fill", "rename", "failed", "crashed"} :
          /\ pc' = [pc EXCEPT ![l] = w] /\ pc[l] # "ok"
          /\ w \in {"fill", "rename"} => pc[l] \in {"create", "fill"}
    BY <1>6 DEF CreateTemp, CreateFails
  <2>2. UNCHANGED <<file, current, tokens, reply>>
    BY <1>6 DEF CreateTemp, CreateFails
  <2> QED BY <2>1, <2>2, GoesOn
<1>7. ASSUME NEW l \in Launches, Fill(l) \/ FillFails(l) PROVE Goal
  <2>1. PICK w \in {"fill", "rename", "failed", "crashed"} :
          /\ pc' = [pc EXCEPT ![l] = w] /\ pc[l] # "ok"
          /\ w \in {"fill", "rename"} => pc[l] \in {"create", "fill"}
    BY <1>7 DEF Fill, FillFails
  <2>2. UNCHANGED <<file, current, tokens, reply>>
    BY <1>7 DEF Fill, FillFails
  <2> QED BY <2>1, <2>2, GoesOn
<1>8. ASSUME NEW l \in Launches, Rename(l) PROVE Goal
  <2>1. file' = tokens[l] /\ pc[l] = "rename" /\ pc' = [pc EXCEPT ![l] = "ok"]
        /\ UNCHANGED <<current, tokens, reply>>
    BY <1>8 DEF Rename
  <2>2. CASE Carries(l)
    BY <2>1, <2>2
  <2>3. CASE ~New(l)
    BY <2>1, <2>3
  <2> QED BY <2>1, <2>2, <2>3
<1>9. ASSUME NEW l \in Launches, RenameFails(l) PROVE Goal
  <2>1. PICK w \in {"fill", "rename", "failed", "crashed"} :
          /\ pc' = [pc EXCEPT ![l] = w] /\ pc[l] # "ok"
          /\ w \in {"fill", "rename"} => pc[l] \in {"create", "fill"}
    BY <1>9 DEF RenameFails
  <2>2. UNCHANGED <<file, current, tokens, reply>>
    BY <1>9 DEF RenameFails
  <2> QED BY <2>1, <2>2, GoesOn
<1>10. ASSUME NEW l \in Launches, Crash(l) PROVE Goal
  <2>1. PICK w \in {"fill", "rename", "failed", "crashed"} :
          /\ pc' = [pc EXCEPT ![l] = w] /\ pc[l] # "ok"
          /\ w \in {"fill", "rename"} => pc[l] \in {"create", "fill"}
    BY <1>10 DEF Crash, Active
  <2>2. UNCHANGED <<file, current, tokens, reply>>
    BY <1>10 DEF Crash, Active
  <2> QED BY <2>1, <2>2, GoesOn
<1>11. CASE Expire
  BY <1>11 DEF Expire
<1>12. CASE UNCHANGED vars
  BY <1>12 DEF vars
<1> QED
  BY <1>1, <1>2, <1>3, <1>4, <1>5, <1>6, <1>7, <1>8, <1>9, <1>10, <1>11, <1>12
  DEF Next, Request, WriteAtomic

LEMMA RotationInvariant == Spec => [](BaseInv /\ RotationInv)
<1>1. BaseInv /\ RotationInv /\ [Next]_vars => RotationInv'
  BY RotationStep
<1> QED BY <1>1, RotationInit, BaseInvariant, PTL DEF Spec

\* The refresh token in the file is a spent one only while or because the launch that was
\* given the next one has not written it, or because a launch that was answered without a
\* new one has written back its own.
THEOREM TokenIsKeptHolds == Spec => []TokenIsKept
<1>1. BaseInv /\ RotationInv => TokenIsKept
  BY KeptIs DEF BaseInv
<1> QED BY <1>1, RotationInvariant, PTL

\* The file goes back to an older refresh token only by a launch that was answered
\* without a new one.
THEOREM OlderOnlyUnrotatedHolds == Spec => OlderOnlyUnrotated
<1>1. BaseInv /\ RotationInv /\ [Next]_vars
        => [file'.refresh < file.refresh =>
              \E l \in Launches : pc[l] = "rename" /\ pc'[l] = "ok" /\ reply[l] = Unrotated]_vars
  BY RotationStep, AnswerParts DEF BaseInv
<1> QED BY <1>1, RotationInvariant, PTL DEF Spec, OlderOnlyUnrotated
===============================================================================
