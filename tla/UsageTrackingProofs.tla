-------------------------- MODULE UsageTrackingProofs --------------------------
(***************************************************************************)
(* Theorems of UsageTracking, for any tree of runs, any answers of the     *)
(* vendors and any writes that fail.                                       *)
(***************************************************************************)
EXTENDS UsageTracking, Sums

-------------------------------------------------------------------------------
(* Token counts *)

Fields == {"input", "output", "create", "read"}

LEMMA CountsShape ==
  /\ DOMAIN Zero = Fields /\ Counts = [Fields -> Nat]
  /\ Zero \in Counts /\ NoUsage \notin Counts /\ IsFiniteSet(Fields)
  /\ \A k \in Fields : Zero[k] = 0
<1>1. DOMAIN Zero = Fields
  BY DEF Zero, Tokens, Fields
<1>2. Zero \in Counts /\ \A k \in Fields : Zero[k] = 0
  BY <1>1 DEF Counts, Zero, Tokens, Fields
<1>3. NoUsage \notin Counts
  <2>1. NoUsage["input"] = -1 /\ "input" \in DOMAIN Zero
    BY <1>1 DEF NoUsage, Tokens, Fields
  <2> QED BY <2>1 DEF Counts
<1>4. IsFiniteSet(Fields)
  <2>1. IsFiniteSet({} \cup {"input"} \cup {"output"} \cup {"create"} \cup {"read"})
    BY FS_EmptySet, FS_AddElement
  <2>2. Fields = {} \cup {"input"} \cup {"output"} \cup {"create"} \cup {"read"}
    BY DEF Fields
  <2> QED BY <2>1, <2>2
<1> QED BY <1>1, <1>2, <1>3, <1>4 DEF Counts

LEMMA TokensType ==
  ASSUME NEW i \in Nat, NEW o \in Nat, NEW c \in Nat, NEW r \in Nat
  PROVE  /\ Tokens(i, o, c, r) \in Counts
         /\ Tokens(i, o, c, r).input = i /\ Tokens(i, o, c, r).output = o
         /\ Tokens(i, o, c, r).create = c /\ Tokens(i, o, c, r).read = r
BY CountsShape DEF Tokens, Fields

LEMMA CountsExt ==
  ASSUME NEW s \in Counts, NEW t \in Counts, \A k \in Fields : s[k] = t[k] PROVE s = t
BY CountsShape

LEMMA CombineType ==
  ASSUME NEW s \in Counts, NEW t \in Counts
  PROVE  /\ combineCounts(s, t) \in Counts
         /\ \A k \in Fields : combineCounts(s, t)[k] = s[k] + t[k]
BY CountsShape DEF combineCounts, Pointwise

LEMMA NormalizeType ==
  ASSUME NEW v, NEW t \in Counts
  PROVE  /\ normalizeTokens(v, t) \in Counts
         /\ \A k \in Fields : normalizeTokens(v, t)[k] = IF v # "anthropic" /\ k = "create" THEN 0 ELSE t[k]
BY CountsShape DEF normalizeTokens, Fields

LEMMA NormalizeSum ==
  ASSUME NEW v, NEW s \in Counts, NEW t \in Counts, NEW k \in Fields
  PROVE  normalizeTokens(v, combineCounts(s, t))[k] = normalizeTokens(v, s)[k] + normalizeTokens(v, t)[k]
<1> DEFINE u == combineCounts(s, t)
<1>1. u \in Counts /\ u[k] = s[k] + t[k] /\ s[k] \in Nat /\ t[k] \in Nat
  BY CombineType, CountsShape
<1> HIDE DEF u
<1>2. CASE v = "anthropic"
  BY <1>1, <1>2 DEF normalizeTokens, u
<1>3. CASE v # "anthropic" /\ k = "create"
  <2>1. \A x \in Counts : normalizeTokens(v, x)[k] = 0
    BY <1>3, NormalizeType
  <2> QED BY <2>1, <1>1 DEF u
<1>4. CASE v # "anthropic" /\ k # "create"
  <2>1. \A x \in Counts : normalizeTokens(v, x)[k] = x[k]
    BY <1>4, NormalizeType
  <2> QED BY <2>1, <1>1 DEF u
<1> QED BY <1>2, <1>3, <1>4

\* The cached tokens of OpenAI are among the input tokens.
Valid(v, t) == v = "openai" => t.read <= t.input

\* s is a part of t, and what remains is valid: t costs no less than s.
Within(v, s, t) ==
  /\ \A k \in Fields : s[k] <= t[k]
  /\ v = "openai" => s.input - s.read <= t.input - t.read

LEMMA WithinSum ==
  ASSUME NEW v, NEW s \in Counts, NEW t \in Counts, NEW u \in Counts,
         Within(v, s, t), Valid(v, u)
  PROVE  Within(v, s, combineCounts(t, u))
<1>1. \A k \in Fields : s[k] \in Nat /\ t[k] \in Nat /\ u[k] \in Nat
  BY CountsShape
<1>2. \A k \in Fields : combineCounts(t, u)[k] = t[k] + u[k]
  BY CombineType
<1>3. \A k \in Fields : s[k] <= combineCounts(t, u)[k]
  BY <1>1, <1>2 DEF Within
<1>4. "input" \in Fields /\ "read" \in Fields
  BY DEF Fields
<1>5. /\ combineCounts(t, u).input = t.input + u.input
      /\ combineCounts(t, u).read = t.read + u.read
      /\ s.input \in Nat /\ s.read \in Nat /\ t.input \in Nat /\ t.read \in Nat
      /\ u.input \in Nat /\ u.read \in Nat
  BY <1>1, <1>2, <1>4
<1>6. v = "openai" =>
        s.input - s.read <= combineCounts(t, u).input - combineCounts(t, u).read
  BY <1>5 DEF Within, Valid
<1> QED BY <1>3, <1>6 DEF Within

LEMMA ValidSum ==
  ASSUME NEW v, NEW t \in Counts, NEW u \in Counts, Valid(v, t), Valid(v, u)
  PROVE  Valid(v, combineCounts(t, u))
<1>1. "input" \in Fields /\ "read" \in Fields
  BY DEF Fields
<1>2. /\ combineCounts(t, u).input = t.input + u.input
      /\ combineCounts(t, u).read = t.read + u.read
      /\ t.input \in Nat /\ t.read \in Nat /\ u.input \in Nat /\ u.read \in Nat
  BY <1>1, CombineType, CountsShape
<1> QED BY <1>2 DEF Valid

LEMMA ValidNormalize ==
  ASSUME NEW v, NEW t \in Counts, Valid(v, t) PROVE Valid(v, normalizeTokens(v, t))
<1>1. "input" \in Fields /\ "read" \in Fields
  BY DEF Fields
<1> QED BY <1>1, NormalizeType DEF Valid

-------------------------------------------------------------------------------
(* The types of the state *)

Arrivals   == {"empty", "part", "whole", "unseen"}
AgentNames == {""} \cup UNION {{a.agent : a \in Answers[v]} : v \in Vendors}

Bodies  == [at : {"none", "open", "adding", "closed"}, run : Runs, sse : BOOLEAN,
            model : Models \cup {""}, usage : Counts \cup {NoUsage}, agent : AgentNames,
            arrived : Arrivals]
Streams == [modelID : Models \cup {""}, counts : Counts, saw : BOOLEAN]
DropCounts == [parse : Nat, noUsage : Nat]
Files   == [tokens : [Models -> Counts], dropped : DropCounts]
LogLine == [request : Responses, model : Models, tokens : Counts]

ProxyTypes ==
  /\ vendor \in [Runs -> Vendors] /\ body \in [Responses -> Bodies]
  /\ sse \in [Responses -> Streams]
  /\ totals \in [Runs -> [Models -> Counts]] /\ dropped \in [Runs -> DropCounts]
  /\ lock \in [Runs -> Responses \cup {0}]
  /\ usageJSON \in [Runs -> Files] /\ usageLog \in [Runs -> Seq(LogLine)]

\* What AnswersAssumption says of the answer that B is the body of.
AnswerOK(v, B) ==
  /\ B.usage \in Counts \/ (~B.sse /\ B.usage = NoUsage)
  /\ B.sse => B.usage.output >= 1
  /\ B.usage # NoUsage => Valid(v, B.usage)
  /\ B.agent \notin {"(main)", "(unnamed)"}

\* What the counts of a stream are, S, once usage has been seen in its body B.
StreamOK(v, B, S) ==
  /\ B.at = "none" => ~S.saw /\ B.arrived = "part"
  /\ B.at = "open" => B.arrived # "empty"
  /\ S.saw => Valid(v, S.counts)
  /\ (S.saw /\ v = "anthropic") => \A k \in Fields \ {"output"} : S.counts[k] = B.usage[k]
  /\ (B.sse /\ B.arrived \in {"whole", "unseen"}) => S.saw /\ S.counts = B.usage

\* Answers and streams are as the vendors send them.
StreamInv ==
  \A b \in Responses :
    /\ body[b].at # "none" => AnswerOK(vendor[body[b].run], body[b])
    /\ StreamOK(vendor[body[b].run], body[b], sse[b])

\* The tokens of each model could be those of one request: their cost is not negative.
PriceInv ==
  \A r \in Runs : \A m \in Models :
    Valid(vendor[r], totals[r][m]) /\ Valid(vendor[r], usageJSON[r].tokens[m])

Base == ProxyTypes /\ StreamInv /\ PriceInv

LEMMA AgentInNames ==
  ASSUME NEW v \in Vendors, NEW a \in Answers[v] PROVE a.agent \in AgentNames
<1> DEFINE N(w) == {x.agent : x \in Answers[w]}
<1>1. a.agent \in N(v)
  OBVIOUS
<1> HIDE DEF N
<1>2. a.agent \in UNION {N(w) : w \in Vendors}
  BY <1>1
<1>3. AgentNames = {""} \cup UNION {N(w) : w \in Vendors}
  BY DEF AgentNames, N
<1> QED BY <1>2, <1>3

LEMMA AnswerType ==
  ASSUME NEW v \in Vendors, NEW a \in Answers[v]
  PROVE  /\ a.sse \in BOOLEAN /\ a.model \in Models \cup {""}
         /\ a.usage \in Counts \cup {NoUsage} /\ a.agent \in AgentNames
         /\ AnswerOK(v, a)
BY AnswersAssumption, AgentInNames DEF AnswerOK, Valid

LEMMA NoTokensType ==
  NoTokens \in [Models -> Counts] /\ \A v : \A m \in Models : Valid(v, NoTokens[m])
<1>1. "input" \in Fields /\ "read" \in Fields
  BY DEF Fields
<1>2. Zero.input = 0 /\ Zero.read = 0
  BY <1>1, CountsShape
<1>3. NoTokens \in [Models -> Counts] /\ \A m \in Models : NoTokens[m] = Zero
  BY CountsShape DEF NoTokens
<1> QED BY <1>2, <1>3 DEF Valid

LEMMA InitBase == Init => Base
<1> SUFFICES ASSUME Init PROVE Base
  OBVIOUS
<1>0. 1 \in Runs
  BY RunsAssumption DEF Runs
<1>1. vendor \in [Runs -> Vendors]
  BY VendorsAssumption DEF Init
<1>2. NoBody \in Bodies
  BY <1>0 DEF NoBody, Bodies, AgentNames, Arrivals
<1>3. [modelID |-> "", counts |-> Zero, saw |-> FALSE] \in Streams
  BY CountsShape DEF Streams
<1>4. NoDrops \in DropCounts
  BY DEF NoDrops, DropCounts
<1>5. NoFile \in Files /\ NoFile.tokens = NoTokens
  BY <1>4, NoTokensType DEF NoFile, Files
<1>6. <<>> \in Seq(LogLine)
  OBVIOUS
<1>7. ProxyTypes
  BY <1>1, <1>2, <1>3, <1>4, <1>5, <1>6, NoTokensType DEF Init, ProxyTypes
<1>8. StreamInv
  BY DEF Init, StreamInv, StreamOK, NoBody
<1>9. PriceInv
  BY <1>5, NoTokensType DEF Init, PriceInv
<1> QED BY <1>7, <1>8, <1>9 DEF Base

-------------------------------------------------------------------------------
(* The steps of a response *)

\* b is recorded: its counts are c and it has come as far as arr says.
Adds(b, m, c, arr) ==
  /\ Add(b, m, c) /\ Close(b, "adding", arr)
  /\ m \in Models \cup {""} /\ c \in Counts /\ Valid(vendor[body[b].run], c)
  /\ arr \in Arrivals \ {"empty"}
  /\ arr \in {"whole", "unseen"} => c = body[b].usage
  /\ body[b].sse => arr = body[b].arrived

\* b is dropped.
Drops(b, kinds, arr) ==
  /\ Drop(b, kinds) /\ Close(b, "closed", arr)
  /\ kinds \in {{"parse"}, {"noUsage"}} /\ arr \in Arrivals \ {"empty"}
  /\ body[b].sse => arr = body[b].arrived

\* b brought nothing.
Empties(b) ==
  /\ Close(b, "closed", "empty") /\ ~body[b].sse
  /\ UNCHANGED <<vendor, sse, totals, dropped, lock, usageJSON, usageLog, hostVars, failed>>

LEMMA BodyAt ==
  ASSUME Base, NEW b \in Responses
  PROVE  /\ body[b] \in Bodies /\ body[b].run \in Runs /\ body[b].arrived \in Arrivals
         /\ body[b].sse \in BOOLEAN /\ body[b].model \in Models \cup {""}
         /\ body[b].usage \in Counts \cup {NoUsage} /\ vendor[body[b].run] \in Vendors
         /\ sse[b] \in Streams /\ sse[b].counts \in Counts
         /\ sse[b].modelID \in Models \cup {""} /\ sse[b].saw \in BOOLEAN
<1>1. body[b] \in Bodies /\ sse[b] \in Streams
  BY DEF Base, ProxyTypes
<1>2. vendor \in [Runs -> Vendors]
  BY DEF Base, ProxyTypes
<1> QED BY <1>1, <1>2 DEF Bodies, Streams

\* A response is recorded, dropped or of no account (flush, closeJSON).
LEMMA Closing ==
  ASSUME Base, NEW b \in Responses, flush(b) \/ closeJSON(b)
  PROVE  /\ Recording(b)
         /\ \/ \E m \in Models \cup {""}, c \in Counts, arr \in Arrivals : Adds(b, m, c, arr)
            \/ \E kinds \in {{"parse"}, {"noUsage"}}, arr \in Arrivals : Drops(b, kinds, arr)
            \/ Empties(b)
<1>1. Recording(b)
  BY DEF flush, closeJSON
<1>2. body[b].at = "open"
  BY <1>1 DEF Recording
<1>3. AnswerOK(vendor[body[b].run], body[b]) /\ StreamOK(vendor[body[b].run], body[b], sse[b])
  BY <1>2 DEF Base, StreamInv
<1>4. body[b].arrived \in Arrivals \ {"empty"}
  BY <1>2, <1>3, BodyAt DEF StreamOK
<1>5. CASE flush(b)
  <2>1. body[b].sse
    BY <1>5 DEF flush
  <2>2. CASE sse[b].saw
    <3>1. Add(b, sse[b].modelID, sse[b].counts) /\ Close(b, "adding", body[b].arrived)
      BY <1>5, <2>2 DEF flush
    <3>2. Valid(vendor[body[b].run], sse[b].counts)
      BY <1>3, <2>2 DEF StreamOK
    <3>3. body[b].arrived \in {"whole", "unseen"} => sse[b].counts = body[b].usage
      BY <1>3, <2>1 DEF StreamOK
    <3>4. Adds(b, sse[b].modelID, sse[b].counts, body[b].arrived)
      BY <3>1, <3>2, <3>3, <1>4, BodyAt DEF Adds
    <3> QED BY <3>4, <1>1, BodyAt
  <2>3. CASE ~sse[b].saw
    <3>1. Drop(b, {"noUsage"}) /\ Close(b, "closed", body[b].arrived)
      BY <1>5, <2>3 DEF flush, AddDroppedNoUsageBlock
    <3>2. Drops(b, {"noUsage"}, body[b].arrived)
      BY <3>1, <1>4 DEF Drops
    <3> QED BY <3>2, <1>1, BodyAt
  <2> QED BY <2>2, <2>3
<1>6. CASE closeJSON(b)
  <2>1. ~body[b].sse
    BY <1>6 DEF closeJSON
  <2>2. CASE Close(b, "closed", "empty")
               /\ UNCHANGED <<vendor, sse, totals, dropped, lock, usageJSON, usageLog, hostVars, failed>>
    BY <2>1, <2>2, <1>1 DEF Empties
  <2>3. CASE AddDroppedParseError(b) /\ Close(b, "closed", "part")
    <3>1. Drops(b, {"parse"}, "part")
      BY <2>1, <2>3 DEF Drops, AddDroppedParseError, Arrivals
    <3> QED BY <3>1, <1>1 DEF Arrivals
  <2>4. CASE AddDroppedNoUsageBlock(b) /\ Close(b, "closed", "whole")
    <3>1. Drops(b, {"noUsage"}, "whole")
      BY <2>1, <2>4 DEF Drops, AddDroppedNoUsageBlock, Arrivals
    <3> QED BY <3>1, <1>1 DEF Arrivals
  <2>5. CASE body[b].usage # NoUsage /\ Add(b, body[b].model, body[b].usage) /\ Close(b, "adding", "whole")
    <3>1. body[b].usage \in Counts /\ Valid(vendor[body[b].run], body[b].usage)
      BY <2>5, <1>3 DEF AnswerOK
    <3>2. Adds(b, body[b].model, body[b].usage, "whole")
      BY <2>1, <2>5, <3>1, BodyAt DEF Adds, Arrivals
    <3> QED BY <3>1, <3>2, <1>1, BodyAt DEF Arrivals
  <2> QED BY <1>6, <2>2, <2>3, <2>4, <2>5 DEF closeJSON
<1> QED BY <1>5, <1>6

\* The counts of a stream after an event of it (applyStart, applyDelta, applyEvent).
LEMMA ApplyOK ==
  ASSUME Base, NEW b \in Responses, body[b].at = "open", body[b].sse,
         NEW e \in Events(b, body[b].arrived # "part")
  PROVE  LET S == Apply(sse[b], e)
             v == vendor[body[b].run]
             u == body[b].usage
         IN  /\ S \in Streams /\ S.saw /\ Valid(v, S.counts)
             /\ v = "anthropic" => \A k \in Fields \ {"output"} : S.counts[k] = u[k]
             /\ IsLast(b, e) => S.counts = u
             /\ body[b].arrived # "part" => S.counts = sse[b].counts
<1> DEFINE S == Apply(sse[b], e)
           v == vendor[body[b].run]
           u == body[b].usage
           done == body[b].arrived # "part"
           First == [u EXCEPT !.output = 1]
<1>1. AnswerOK(v, body[b]) /\ StreamOK(v, body[b], sse[b])
  BY DEF Base, StreamInv
<1>2. u \in Counts /\ u.output >= 1
  BY <1>1 DEF AnswerOK
<1>3. u # NoUsage /\ Valid(v, u)
  BY <1>1, <1>2, CountsShape DEF AnswerOK
<1>4. /\ First \in Counts /\ First # NoUsage /\ First.output = 1
      /\ \A k \in Fields \ {"output"} : First[k] = u[k]
  <2>1. First \in Counts
    BY <1>2, CountsShape DEF Fields
  <2>2. First.output = 1 /\ \A k \in Fields \ {"output"} : First[k] = u[k]
    BY <1>2, CountsShape DEF Fields
  <2> QED BY <2>1, <2>2, CountsShape
<1>5. Valid(v, First)
  BY <1>3, <1>4 DEF Valid, Fields
<1>6. /\ sse[b] \in Streams /\ sse[b].counts \in Counts /\ v \in Vendors
      /\ body[b].model \in Models \cup {""} /\ body[b].arrived \in Arrivals
  BY BodyAt
<1>7. done => sse[b].saw
  <2>1. body[b].arrived # "empty"
    BY <1>1 DEF StreamOK
  <2> QED BY <2>1, <1>1, <1>6 DEF StreamOK, Arrivals
<1>a. CASE v = "openai"
  <2>1. CASE e = [type |-> "response.in_progress", model |-> body[b].model, usage |-> First]
    <3>1. ~IsLast(b, e)
      BY <2>1 DEF IsLast
    <3>2. e.usage = First /\ e.type = "response.in_progress" /\ e.model = body[b].model
      BY <2>1
    <3>3. S = IF ~sse[b].saw THEN [sse[b] EXCEPT !.modelID = e.model, !.counts = First, !.saw = TRUE]
                             ELSE [sse[b] EXCEPT !.modelID = e.model]
      BY <3>2, <1>4, <1>6 DEF Apply, applyEvent, Streams
    <3> HIDE DEF S
    <3>4. CASE sse[b].saw
      <4>1. S \in Streams /\ S.saw /\ S.counts = sse[b].counts
        BY <3>2, <3>3, <3>4, <1>6 DEF Streams
      <4> QED BY <4>1, <3>1, <3>4, <1>1, <1>a DEF StreamOK, S
    <3>5. CASE ~sse[b].saw
      <4>1. S \in Streams /\ S.saw /\ S.counts = First
        BY <3>2, <3>3, <3>5, <1>4, <1>6 DEF Streams
      <4> QED BY <4>1, <3>1, <3>5, <1>5, <1>7, <1>a DEF S
    <3> QED BY <3>4, <3>5, <1>6 DEF Streams
  <2>2. CASE ~done /\ e = [type |-> "response.completed", model |-> body[b].model, usage |-> u]
    <3>1. e.usage = u /\ e.type = "response.completed" /\ e.model = body[b].model
      BY <2>2
    <3>2. S = [sse[b] EXCEPT !.modelID = e.model, !.counts = u, !.saw = TRUE]
      BY <3>1, <1>6 DEF Apply, applyEvent, Streams
    <3>3. S \in Streams /\ S.saw /\ S.counts = u
      BY <3>1, <3>2, <1>2, <1>6 DEF Streams
    <3> QED BY <2>2, <3>3, <1>3, <1>a
  <2>3. Events(b, done) =
          {[type |-> "response.in_progress", model |-> body[b].model, usage |-> First]}
            \cup IF done THEN {} ELSE {[type |-> "response.completed", model |-> body[b].model, usage |-> u]}
    BY <1>a DEF Events
  <2> HIDE DEF S, done, First
  <2> QED BY <2>1, <2>2, <2>3 DEF done
<1>b. CASE v = "anthropic" /\ ~sse[b].saw
  <2>1. e = [type |-> "message_start", model |-> body[b].model, usage |-> First]
    BY <1>b DEF Events
  <2>2. e.usage = First /\ e.type = "message_start" /\ e.model = body[b].model
    BY <2>1
  <2>3. S = [modelID |-> e.model, counts |-> e.usage, saw |-> TRUE]
    BY <2>2 DEF Apply, applyStart
  <2>4. S \in Streams /\ S.saw /\ S.counts = First
    <3> HIDE DEF S, First
    <3> QED BY <2>2, <2>3, <1>4, <1>6 DEF Streams
  <2>5. ~IsLast(b, e)
    BY <2>2 DEF IsLast
  <2> QED BY <2>4, <2>5, <1>4, <1>5, <1>7, <1>b
<1>c. CASE v = "anthropic" /\ sse[b].saw
  <2>1. ~done
    BY <1>c DEF Events
  <2>2. PICK n \in {Tokens(0, 1, 0, 0), u, Tokens(0, u.output, 0, 0)} :
          e = [type |-> "message_delta", model |-> body[b].model, usage |-> n]
    BY <1>c, <2>1 DEF Events
  <2>3. e.usage = n /\ e.type = "message_delta"
    BY <2>2
  <2>4. n \in Counts /\ \A k \in Fields \ {"output"} : n[k] > 0 => n[k] = u[k]
    <3>1. u.output \in Nat
      BY <1>2, CountsShape DEF Fields
    <3>2. CASE n = u
      BY <3>2, <1>2
    <3>3. CASE n = Tokens(0, 1, 0, 0)
      BY <3>3, TokensType DEF Fields
    <3>4. CASE n = Tokens(0, u.output, 0, 0)
      BY <3>1, <3>4, TokensType DEF Fields
    <3> QED BY <2>2, <3>2, <3>3, <3>4
  <2> DEFINE C == [f \in Fields |-> IF f = "output" \/ n[f] > 0 THEN n[f] ELSE sse[b].counts[f]]
  <2>5. S = [sse[b] EXCEPT !.counts = C]
    BY <2>3, <1>6, CountsShape DEF Apply, applyDelta, Streams
  <2>6. \A k \in Fields \ {"output"} : sse[b].counts[k] = u[k]
    BY <1>1, <1>c DEF StreamOK
  <2>7. C \in Counts
    BY <2>4, <1>6, CountsShape
  <2>8. S \in Streams /\ S.saw /\ S.counts = C
    <3> HIDE DEF S, C
    <3> QED BY <2>5, <2>7, <1>6, <1>c DEF Streams
  <2>9. \A k \in Fields \ {"output"} : C[k] = u[k]
    BY <2>4, <2>6
  <2>10. C["output"] = n["output"]
    BY DEF Fields
  <2>11. IsLast(b, e) => S.counts = u
    <3>1. IsLast(b, e) => C["output"] = u["output"]
      BY <2>3, <2>10 DEF IsLast
    <3> HIDE DEF S, C
    <3> QED BY <3>1, <2>7, <2>8, <2>9, <1>2, CountsExt
  <2> HIDE DEF C
  <2> QED BY <2>1, <2>8, <2>9, <2>11, <1>c DEF Valid
<1> QED BY <1>6, <1>a, <1>b, <1>c DEF Vendors

-------------------------------------------------------------------------------
(* Every step keeps the types, the streams and the prices *)

LEMMA CloseBody ==
  ASSUME Base, NEW b \in Responses, NEW at \in {"none", "open", "adding", "closed"},
         NEW arr \in Arrivals, Close(b, at, arr)
  PROVE  /\ body' \in [Responses -> Bodies]
         /\ body'[b].at = at /\ body'[b].arrived = arr
         /\ \A c \in Responses : /\ c # b => body'[c] = body[c]
                                 /\ body'[c].run = body[c].run /\ body'[c].sse = body[c].sse
                                 /\ body'[c].usage = body[c].usage /\ body'[c].agent = body[c].agent
                                 /\ body'[c].model = body[c].model
<1> DEFINE B == [body[b] EXCEPT !.at = at, !.arrived = arr]
<1>1. body \in [Responses -> Bodies] /\ body[b] \in Bodies
  BY DEF Base, ProxyTypes
<1>2. body' = [body EXCEPT ![b] = B]
  BY <1>1 DEF Close
<1>3. /\ B \in Bodies /\ B.at = at /\ B.arrived = arr /\ B.run = body[b].run
      /\ B.sse = body[b].sse /\ B.usage = body[b].usage /\ B.agent = body[b].agent
      /\ B.model = body[b].model
  BY <1>1 DEF Bodies
<1> HIDE DEF B
<1> QED BY <1>1, <1>2, <1>3

\* Closing a body does not disturb the streams.
LEMMA CloseStream ==
  ASSUME Base, NEW b \in Responses, NEW at \in {"adding", "closed"}, NEW arr \in Arrivals,
         Close(b, at, arr), body[b].at # "none", body[b].sse => arr = body[b].arrived,
         UNCHANGED <<vendor, sse>>
  PROVE  StreamInv'
<1> SUFFICES ASSUME NEW c \in Responses
             PROVE  /\ body'[c].at # "none" => AnswerOK(vendor[body'[c].run], body'[c])
                    /\ StreamOK(vendor[body'[c].run], body'[c], sse[c])
  BY DEF StreamInv
<1>1. AnswerOK(vendor[body[b].run], body[b]) /\ StreamOK(vendor[body[b].run], body[b], sse[b])
  BY DEF Base, StreamInv
<1>2. CASE c = b
  BY <1>1, <1>2, CloseBody DEF AnswerOK, StreamOK
<1>3. CASE c # b
  <2>1. body'[c] = body[c]
    BY <1>3, CloseBody
  <2> QED BY <2>1 DEF Base, StreamInv
<1> QED BY <1>2, <1>3

LEMMA WrapBase ==
  ASSUME Base, NEW b \in Responses, wrapResponseBody(b) PROVE Base'
<1>0. PICK r \in Runs : \E a \in Answers[vendor[r]] :
        body' = [body EXCEPT ![b] = [at |-> "open", run |-> r, sse |-> a.sse, model |-> a.model,
                                     usage |-> a.usage, agent |-> a.agent, arrived |-> "part"]]
  BY DEF wrapResponseBody
<1>1. PICK a \in Answers[vendor[r]] :
        body' = [body EXCEPT ![b] = [at |-> "open", run |-> r, sse |-> a.sse, model |-> a.model,
                                     usage |-> a.usage, agent |-> a.agent, arrived |-> "part"]]
  BY <1>0
<1> DEFINE B == [at |-> "open", run |-> r, sse |-> a.sse, model |-> a.model,
                 usage |-> a.usage, agent |-> a.agent, arrived |-> "part"]
<1>2. vendor[r] \in Vendors /\ body \in [Responses -> Bodies]
  BY DEF Base, ProxyTypes
<1>3. B \in Bodies /\ AnswerOK(vendor[r], B)
  BY <1>2, AnswerType DEF Bodies, AnswerOK, Arrivals
<1>4. body' \in [Responses -> Bodies] /\ body'[b] = B /\ \A c \in Responses \ {b} : body'[c] = body[c]
  <2> HIDE DEF B
  <2> QED BY <1>1, <1>2, <1>3 DEF B
<1>5. UNCHANGED <<vendor, sse, totals, dropped, lock, usageJSON, usageLog>>
  BY DEF wrapResponseBody
<1>6. ProxyTypes'
  BY <1>4, <1>5 DEF Base, ProxyTypes
<1>7. ASSUME NEW c \in Responses
      PROVE  /\ body'[c].at # "none" => AnswerOK(vendor[body'[c].run], body'[c])
             /\ StreamOK(vendor[body'[c].run], body'[c], sse[c])
  <2>1. CASE c = b
    <3>1. body[b].at = "none" /\ StreamOK(vendor[body[b].run], body[b], sse[b])
      BY DEF Base, StreamInv, wrapResponseBody
    <3>2. ~sse[b].saw
      BY <3>1 DEF StreamOK
    <3>3. B.run = r /\ B.at = "open" /\ B.arrived = "part"
      OBVIOUS
    <3> HIDE DEF B
    <3> QED BY <2>1, <3>2, <3>3, <1>3, <1>4 DEF StreamOK
  <2>2. CASE c # b
    BY <2>2, <1>4 DEF Base, StreamInv
  <2> QED BY <2>1, <2>2
<1>8. StreamInv'
  BY <1>5, <1>7 DEF StreamInv
<1>9. PriceInv'
  BY <1>5 DEF Base, PriceInv
<1> QED BY <1>6, <1>8, <1>9 DEF Base

LEMMA HandleBase ==
  ASSUME Base, NEW b \in Responses, handleLine(b) PROVE Base'
<1>0. body[b].at = "open" /\ body[b].sse
  BY DEF handleLine
<1>1. PICK e \in Events(b, body[b].arrived # "part") :
        /\ sse' = [sse EXCEPT ![b] = Apply(@, e)]
        /\ body' = [body EXCEPT ![b].arrived =
             CASE ~IsLast(b, e) -> @
               [] IsLast(b, e) /\ host[body[b].run] = "running" -> "whole"
               [] OTHER -> "unseen"]
  BY DEF handleLine
<1> DEFINE S == Apply(sse[b], e)
           arr == body'[b].arrived
<1>2. /\ body \in [Responses -> Bodies] /\ body[b] \in Bodies /\ sse \in [Responses -> Streams]
      /\ body[b].arrived \in Arrivals
  BY BodyAt DEF Base, ProxyTypes
<1>3. /\ S \in Streams /\ S.saw /\ Valid(vendor[body[b].run], S.counts)
      /\ vendor[body[b].run] = "anthropic" => \A k \in Fields \ {"output"} : S.counts[k] = body[b].usage[k]
      /\ IsLast(b, e) => S.counts = body[b].usage
      /\ body[b].arrived # "part" => S.counts = sse[b].counts
  BY <1>0, ApplyOK
<1>4. arr \in {body[b].arrived, "whole", "unseen"} /\ (~IsLast(b, e) => arr = body[b].arrived)
  BY <1>1, <1>2
<1>5. Close(b, "open", arr)
  <2>1. body[b] = [body[b] EXCEPT !.at = "open"]
    BY <1>0, <1>2 DEF Bodies
  <2>2. body' = [body EXCEPT ![b].arrived = arr]
    BY <1>1, <1>2
  <2> HIDE DEF arr
  <2> QED BY <2>1, <2>2, <1>2 DEF Close
<1>6. arr \in Arrivals
  BY <1>2, <1>4 DEF Arrivals
<1>7. sse' \in [Responses -> Streams] /\ sse'[b] = S /\ \A c \in Responses \ {b} : sse'[c] = sse[c]
  BY <1>1, <1>2, <1>3
<1>8. UNCHANGED <<vendor, totals, dropped, lock, usageJSON, usageLog>>
  BY DEF handleLine
<1> HIDE DEF S, arr
<1>9. /\ body' \in [Responses -> Bodies]
      /\ body'[b].at = "open" /\ body'[b].arrived = arr
      /\ \A c \in Responses : /\ c # b => body'[c] = body[c]
                              /\ body'[c].run = body[c].run /\ body'[c].sse = body[c].sse
                              /\ body'[c].usage = body[c].usage /\ body'[c].agent = body[c].agent
  BY <1>5, <1>6, CloseBody
<1>10. ProxyTypes'
  BY <1>7, <1>8, <1>9 DEF Base, ProxyTypes
<1>11. ASSUME NEW c \in Responses
       PROVE  /\ body'[c].at # "none" => AnswerOK(vendor[body'[c].run], body'[c])
              /\ StreamOK(vendor[body'[c].run], body'[c], sse'[c])
  <2>1. AnswerOK(vendor[body[c].run], body[c]) \/ body[c].at = "none"
    BY DEF Base, StreamInv
  <2>2. StreamOK(vendor[body[c].run], body[c], sse[c])
    BY DEF Base, StreamInv
  <2>3. CASE c = b
    <3>1. AnswerOK(vendor[body'[b].run], body'[b])
      BY <2>1, <2>3, <1>0, <1>9 DEF AnswerOK
    <3>2. arr # "empty"
      BY <2>2, <2>3, <1>0, <1>4 DEF StreamOK
    <3>3. arr \in {"whole", "unseen"} => S.counts = body[b].usage
      <4>1. CASE IsLast(b, e)
        BY <4>1, <1>3
      <4>2. CASE ~IsLast(b, e)
        BY <4>2, <2>2, <2>3, <1>0, <1>3, <1>4 DEF StreamOK
      <4> QED BY <4>1, <4>2
    <3>4. StreamOK(vendor[body'[b].run], body'[b], S)
      BY <3>2, <3>3, <1>3, <1>9 DEF StreamOK
    <3> QED BY <2>3, <3>1, <3>4, <1>7
  <2>4. CASE c # b
    BY <2>1, <2>2, <2>4, <1>7, <1>9
  <2> QED BY <2>3, <2>4
<1>12. StreamInv'
  BY <1>8, <1>11 DEF StreamInv
<1>13. PriceInv'
  BY <1>8 DEF Base, PriceInv
<1> QED BY <1>10, <1>12, <1>13 DEF Base

\* What a recorded response is called, and its line in the log.
Named(m)         == IF m = "" THEN "unknown" ELSE m
LineFor(b, m, c) == [request |-> b, model |-> Named(m), tokens |-> normalizeTokens(vendor[body[b].run], c)]

LEMMA AddsEffect ==
  ASSUME Base, NEW b \in Responses, NEW m, NEW c, NEW arr, Adds(b, m, c, arr)
  PROVE  LET r == body[b].run
         IN  /\ Named(m) \in Models /\ LineFor(b, m, c) \in LogLine
             /\ totals' = [totals EXCEPT ![r] = [totals[r] EXCEPT ![Named(m)] = combineCounts(totals[r][Named(m)], c)]]
             /\ lock' = [lock EXCEPT ![r] = b]
             /\ \/ usageLog' = usageLog /\ failed' = failed \cup {<<"line", b>>}
                \/ usageLog' = [usageLog EXCEPT ![r] = Append(usageLog[r], LineFor(b, m, c))] /\ failed' = failed
             /\ UNCHANGED <<vendor, sse, dropped, usageJSON, host, own, out>>
<1> DEFINE r == body[b].run
<1>1. r \in Runs /\ vendor[r] \in Vendors
  BY BodyAt
<1>2. Named(m) \in Models
  BY ModelsAssumption DEF Adds, Named
<1>3. LineFor(b, m, c) \in LogLine
  <2>1. normalizeTokens(vendor[r], c) \in Counts
    BY NormalizeType DEF Adds
  <2> QED BY <1>2, <2>1 DEF LineFor, LogLine
<1>4. totals \in [Runs -> [Models -> Counts]]
  BY DEF Base, ProxyTypes
<1>5. /\ totals' = [totals EXCEPT ![r][Named(m)] = combineCounts(@, c)]
      /\ \E fails \in BOOLEAN : appendRequestLocked(r, LineFor(b, m, c), fails)
      /\ lock' = [lock EXCEPT ![r] = b]
      /\ UNCHANGED <<vendor, sse, dropped, usageJSON, hostVars>>
  BY DEF Adds, Add, LineFor, Named
<1>6. totals' = [totals EXCEPT ![r] = [totals[r] EXCEPT ![Named(m)] = combineCounts(totals[r][Named(m)], c)]]
  BY <1>1, <1>2, <1>4, <1>5
<1>7. LineFor(b, m, c).request = b
  BY DEF LineFor
<1>8. \/ usageLog' = usageLog /\ failed' = failed \cup {<<"line", b>>}
      \/ usageLog' = [usageLog EXCEPT ![r] = Append(usageLog[r], LineFor(b, m, c))] /\ failed' = failed
  <2>1. PICK fails \in BOOLEAN : appendRequestLocked(r, LineFor(b, m, c), fails)
    BY <1>5
  <2>2. /\ failed' = IF fails THEN failed \cup {<<"line", LineFor(b, m, c).request>>} ELSE failed
        /\ usageLog' = IF fails THEN usageLog
                       ELSE [usageLog EXCEPT ![r] = Append(@, LineFor(b, m, c))]
    BY <2>1 DEF appendRequestLocked, Attempt
  <2>3. CASE fails
    BY <2>2, <2>3, <1>7
  <2>4. CASE ~fails
    BY <2>2, <2>4
  <2> QED BY <2>3, <2>4
<1>9. /\ lock' = [lock EXCEPT ![r] = b]
      /\ UNCHANGED <<vendor, sse, dropped, usageJSON, host, own, out>>
  BY DEF Adds, Add, hostVars
<1> QED BY <1>2, <1>3, <1>6, <1>8, <1>9

LEMMA AddsBase ==
  ASSUME Base, NEW b \in Responses, NEW m, NEW c, NEW arr, Recording(b), Adds(b, m, c, arr)
  PROVE  Base'
<1> DEFINE r == body[b].run
           n == Named(m)
           t == combineCounts(totals[r][n], c)
           T == [totals[r] EXCEPT ![n] = t]
<1>1. /\ n \in Models /\ LineFor(b, m, c) \in LogLine
      /\ totals' = [totals EXCEPT ![r] = T]
      /\ lock' = [lock EXCEPT ![r] = b]
      /\ \/ usageLog' = usageLog
         \/ usageLog' = [usageLog EXCEPT ![r] = Append(usageLog[r], LineFor(b, m, c))]
      /\ UNCHANGED <<vendor, sse, dropped, usageJSON>>
  <2>1. n \in Models /\ LineFor(b, m, c) \in LogLine
    BY AddsEffect
  <2>2. totals' = [totals EXCEPT ![r] = T]
    BY AddsEffect
  <2>3. lock' = [lock EXCEPT ![r] = b]
    BY AddsEffect
  <2>4. \/ usageLog' = usageLog
        \/ usageLog' = [usageLog EXCEPT ![r] = Append(usageLog[r], LineFor(b, m, c))]
    BY AddsEffect
  <2>5. UNCHANGED <<vendor, sse, dropped, usageJSON>>
    BY AddsEffect
  <2> QED BY <2>1, <2>2, <2>3, <2>4, <2>5
<1>2. r \in Runs /\ vendor[r] \in Vendors
  BY BodyAt
<1>3. body[b].at = "open" /\ Close(b, "adding", arr) /\ arr \in Arrivals /\ c \in Counts /\ Valid(vendor[r], c)
  BY DEF Recording, Adds
<1>4. body' \in [Responses -> Bodies]
  BY <1>3, CloseBody
<1>5. totals[r] \in [Models -> Counts] /\ Valid(vendor[r], totals[r][n])
  BY <1>1, <1>2 DEF Base, ProxyTypes, PriceInv
<1>6. t \in Counts /\ Valid(vendor[r], t)
  BY <1>1, <1>3, <1>5, CombineType, ValidSum
<1>7. T \in [Models -> Counts] /\ T[n] = t /\ \A k \in Models \ {n} : T[k] = totals[r][k]
  <2> HIDE DEF t
  <2> QED BY <1>1, <1>5, <1>6
<1>8. usageLog' \in [Runs -> Seq(LogLine)]
  <2>1. usageLog \in [Runs -> Seq(LogLine)]
    BY DEF Base, ProxyTypes
  <2>2. Append(usageLog[r], LineFor(b, m, c)) \in Seq(LogLine)
    BY <2>1, <1>1, <1>2
  <2> QED BY <2>1, <2>2, <1>1
<1> HIDE DEF T, t
<1>9. ProxyTypes'
  <2>1. totals' \in [Runs -> [Models -> Counts]]
    BY <1>1, <1>2, <1>7 DEF Base, ProxyTypes
  <2>2. lock' \in [Runs -> Responses \cup {0}]
    BY <1>1, <1>2 DEF Base, ProxyTypes
  <2> QED BY <2>1, <2>2, <1>1, <1>4, <1>8 DEF Base, ProxyTypes
<1>10. StreamInv'
  BY <1>1, <1>3, CloseStream DEF Adds
<1>11. PriceInv'
  <2>1. ASSUME NEW q \in Runs, NEW k \in Models PROVE Valid(vendor[q], totals'[q][k])
    <3>1. CASE q = r
      BY <3>1, <1>1, <1>2, <1>5, <1>6, <1>7 DEF Base, ProxyTypes, PriceInv
    <3>2. CASE q # r
      BY <3>2, <1>1, <1>2 DEF Base, ProxyTypes, PriceInv
    <3> QED BY <3>1, <3>2
  <2> QED BY <2>1, <1>1 DEF Base, PriceInv
<1> QED BY <1>9, <1>10, <1>11 DEF Base

\* usage.json is as it was, or what the tracker knows.
LEMMA WriteEffect ==
  ASSUME Base, NEW r \in Runs, NEW drops, WriteUsageAtomic(r, drops)
  PROVE  \/ usageJSON' = usageJSON /\ failed' = failed \cup {<<"usage", r>>}
         \/ /\ usageJSON' = [usageJSON EXCEPT ![r] = [tokens |-> totals[r], dropped |-> drops]]
            /\ failed' = failed
BY DEF WriteUsageAtomic, Attempt

LEMMA WriteBase ==
  ASSUME Base, NEW r \in Runs, NEW drops \in DropCounts, WriteUsageAtomic(r, drops)
  PROVE  /\ usageJSON' \in [Runs -> Files]
         /\ \A q \in Runs : \A m \in Models : Valid(vendor[q], usageJSON'[q].tokens[m])
<1> DEFINE F == [tokens |-> totals[r], dropped |-> drops]
<1>1. F \in Files /\ F.tokens = totals[r]
  BY DEF Base, ProxyTypes, Files
<1>2. usageJSON \in [Runs -> Files]
  BY DEF Base, ProxyTypes
<1>3. \A q \in Runs : \A m \in Models :
        Valid(vendor[q], totals[q][m]) /\ Valid(vendor[q], usageJSON[q].tokens[m])
  BY DEF Base, PriceInv
<1>4. usageJSON' = usageJSON \/ usageJSON' = [usageJSON EXCEPT ![r] = F]
  BY WriteEffect
<1> HIDE DEF F
<1>5. CASE usageJSON' = usageJSON
  BY <1>2, <1>3, <1>5
<1>6. CASE usageJSON' = [usageJSON EXCEPT ![r] = F]
  BY <1>1, <1>2, <1>3, <1>6
<1> QED BY <1>4, <1>5, <1>6

LEMMA DropsEffect ==
  ASSUME Base, NEW b \in Responses, NEW kinds, NEW arr, Drops(b, kinds, arr)
  PROVE  LET r == body[b].run
         IN  /\ dropped' \in [Runs -> DropCounts] /\ dropped' = [dropped EXCEPT ![r] = dropped'[r]]
             /\ dropped'[r].parse + dropped'[r].noUsage = dropped[r].parse + dropped[r].noUsage + 1
             /\ AtMost(dropped[r], dropped'[r])
             /\ WriteUsageAtomic(r, dropped'[r])
             /\ UNCHANGED <<vendor, sse, totals, lock, usageLog, host, own, out>>
<1> DEFINE r == body[b].run
           D == [k \in DOMAIN dropped[r] |-> dropped[r][k] + IF k \in kinds THEN 1 ELSE 0]
<1>1. r \in Runs /\ dropped \in [Runs -> DropCounts] /\ dropped[r] \in DropCounts
  BY BodyAt DEF Base, ProxyTypes
<1>2. dropped' = [dropped EXCEPT ![r] = D]
  BY <1>1 DEF Drops, Drop
<1>3. DOMAIN dropped[r] = {"parse", "noUsage"} /\ dropped[r].parse \in Nat /\ dropped[r].noUsage \in Nat
  BY <1>1 DEF DropCounts
<1>4. kinds = {"parse"} \/ kinds = {"noUsage"}
  BY DEF Drops
<1>5. D.parse = dropped[r].parse + (IF "parse" \in kinds THEN 1 ELSE 0)
  BY <1>3
<1>6. D.noUsage = dropped[r].noUsage + (IF "noUsage" \in kinds THEN 1 ELSE 0)
  BY <1>3
<1>7. D = [parse |-> D.parse, noUsage |-> D.noUsage]
  BY <1>3
<1> HIDE DEF D
<1>8. D \in DropCounts
  BY <1>3, <1>5, <1>6, <1>7 DEF DropCounts
<1>9. D.parse + D.noUsage = dropped[r].parse + dropped[r].noUsage + 1
  BY <1>3, <1>4, <1>5, <1>6
<1>10. AtMost(dropped[r], D)
  BY <1>3, <1>5, <1>6 DEF AtMost
<1>11. dropped'[r] = D
  BY <1>1, <1>2
<1> QED BY <1>1, <1>2, <1>8, <1>9, <1>10, <1>11 DEF Drops, Drop, hostVars

LEMMA DropsBase ==
  ASSUME Base, NEW b \in Responses, NEW kinds, NEW arr, Recording(b), Drops(b, kinds, arr)
  PROVE  Base'
<1> DEFINE r == body[b].run
<1>1. /\ dropped' \in [Runs -> DropCounts] /\ WriteUsageAtomic(r, dropped'[r])
      /\ UNCHANGED <<vendor, sse, totals, lock, usageLog>>
  BY DropsEffect
<1>2. r \in Runs
  BY BodyAt
<1>3. body[b].at = "open" /\ Close(b, "closed", arr) /\ arr \in Arrivals
  BY DEF Recording, Drops
<1>4. body' \in [Responses -> Bodies]
  BY <1>3, CloseBody
<1>5. /\ usageJSON' \in [Runs -> Files]
      /\ \A q \in Runs : \A m \in Models : Valid(vendor[q], usageJSON'[q].tokens[m])
  BY <1>1, <1>2, WriteBase
<1>6. ProxyTypes'
  BY <1>1, <1>4, <1>5 DEF Base, ProxyTypes
<1>7. StreamInv'
  BY <1>1, <1>3, CloseStream DEF Drops
<1>8. PriceInv'
  BY <1>1, <1>5 DEF Base, PriceInv
<1> QED BY <1>6, <1>7, <1>8 DEF Base

LEMMA EmptiesBase ==
  ASSUME Base, NEW b \in Responses, Recording(b), Empties(b)
  PROVE  Base'
<1>1. body[b].at = "open" /\ Close(b, "closed", "empty") /\ "empty" \in Arrivals /\ ~body[b].sse
  BY DEF Recording, Empties, Arrivals
<1>2. UNCHANGED <<vendor, sse, totals, dropped, lock, usageJSON, usageLog>>
  BY DEF Empties
<1>3. body' \in [Responses -> Bodies]
  BY <1>1, CloseBody
<1>4. StreamInv'
  BY <1>1, <1>2, CloseStream
<1> QED BY <1>2, <1>3, <1>4 DEF Base, ProxyTypes, PriceInv

LEMMA PersistBase ==
  ASSUME Base, NEW b \in Responses, persistLocked(b)
  PROVE  Base'
<1> DEFINE r == body[b].run
<1>1. /\ body[b].at = "adding" /\ WriteUsageAtomic(r, dropped[r]) /\ lock' = [lock EXCEPT ![r] = 0]
      /\ Close(b, "closed", body[b].arrived)
      /\ UNCHANGED <<vendor, sse, totals, dropped, usageLog>>
  BY DEF persistLocked
<1>2. r \in Runs /\ body[b].arrived \in Arrivals
  BY BodyAt
<1>3. dropped[r] \in DropCounts
  BY <1>2 DEF Base, ProxyTypes
<1>4. body' \in [Responses -> Bodies]
  BY <1>1, <1>2, CloseBody
<1>5. /\ usageJSON' \in [Runs -> Files]
      /\ \A q \in Runs : \A m \in Models : Valid(vendor[q], usageJSON'[q].tokens[m])
  BY <1>1, <1>2, <1>3, WriteBase
<1>6. ProxyTypes'
  BY <1>1, <1>2, <1>4, <1>5 DEF Base, ProxyTypes
<1>7. StreamInv'
  BY <1>1, <1>2, CloseStream
<1>8. PriceInv'
  BY <1>1, <1>5 DEF Base, PriceInv
<1> QED BY <1>6, <1>7, <1>8 DEF Base

HostNext ==
  \E r \in Runs : Spawn(r) \/ readUsageSnapshot(r) \/ copyUsageToOut(r) \/ finishAgentRun(r)

LEMMA HostKeeps ==
  ASSUME HostNext
  PROVE  UNCHANGED <<vendor, body, sse, totals, dropped, lock, usageJSON, usageLog>>
BY DEF HostNext, Spawn, readUsageSnapshot, copyUsageToOut, finishAgentRun, proxyVars

LEMMA HostBase ==
  ASSUME Base, UNCHANGED <<vendor, body, sse, totals, dropped, lock, usageJSON, usageLog>>
  PROVE  Base'
BY DEF Base, ProxyTypes, StreamInv, PriceInv

\* The steps there are, those of a body that closes by what they do.
LEMMA StepCases ==
  ASSUME Base, [Next]_vars
  PROVE  \/ \E b \in Responses : wrapResponseBody(b)
         \/ \E b \in Responses : handleLine(b)
         \/ \E b \in Responses : Recording(b) /\ \E m \in Models \cup {""}, c \in Counts, arr \in Arrivals : Adds(b, m, c, arr)
         \/ \E b \in Responses : Recording(b) /\ \E kinds \in {{"parse"}, {"noUsage"}}, arr \in Arrivals : Drops(b, kinds, arr)
         \/ \E b \in Responses : Recording(b) /\ Empties(b)
         \/ \E b \in Responses : persistLocked(b)
         \/ HostNext
         \/ UNCHANGED vars
<1>1. CASE \E b \in Responses : flush(b) \/ closeJSON(b)
  <2>1. PICK b \in Responses : flush(b) \/ closeJSON(b)
    BY <1>1
  <2> QED BY <2>1, Closing, Zenon
<1>2. CASE HostNext
  BY <1>2
<1>3. CASE UNCHANGED vars
  BY <1>3
<1>4. CASE \E b \in Responses : wrapResponseBody(b) \/ handleLine(b) \/ persistLocked(b)
  BY <1>4, Zenon
<1> QED BY <1>1, <1>2, <1>3, <1>4, Zenon DEF Next, HostNext

\* The types, streams and prices are kept by every step.
LEMMA BaseStep ==
  ASSUME Base, [Next]_vars PROVE Base'
<1>1. CASE \E b \in Responses : wrapResponseBody(b)
  BY <1>1, WrapBase, Zenon
<1>2. CASE \E b \in Responses : handleLine(b)
  BY <1>2, HandleBase, Zenon
<1>3. CASE \E b \in Responses : Recording(b) /\ \E m \in Models \cup {""}, c \in Counts, arr \in Arrivals : Adds(b, m, c, arr)
  BY <1>3, AddsBase, Zenon
<1>4. CASE \E b \in Responses : Recording(b) /\ \E kinds \in {{"parse"}, {"noUsage"}}, arr \in Arrivals : Drops(b, kinds, arr)
  BY <1>4, DropsBase, Zenon
<1>5. CASE \E b \in Responses : Recording(b) /\ Empties(b)
  BY <1>5, EmptiesBase, Zenon
<1>6. CASE \E b \in Responses : persistLocked(b)
  BY <1>6, PersistBase, Zenon
<1>7. CASE HostNext
  BY <1>7, HostKeeps, HostBase, Zenon
<1>8. CASE UNCHANGED vars
  <2>1. UNCHANGED <<vendor, body, sse, totals, dropped, lock, usageJSON, usageLog>>
    BY <1>8 DEF vars, proxyVars
  <2> QED BY <2>1, HostBase, Zenon
<1> QED BY <1>1, <1>2, <1>3, <1>4, <1>5, <1>6, <1>7, <1>8, StepCases, Zenon

-------------------------------------------------------------------------------
(* The log and the drops *)

Unlogged(b) == <<"line", b>> \in failed
Logged(b)   == \E i \in DOMAIN usageLog[body[b].run] : usageLog[body[b].run][i].request = b

\* A line l in the log of r is of a response of r that was recorded, and exact.
LineOK(r, l) ==
  /\ l.request \in Responses /\ body[l.request].run = r /\ body[l.request].at \in {"adding", "closed"}
  /\ body[l.request].arrived \in {"whole", "unseen"} => l.tokens = normalizeTokens(vendor[r], body[l.request].usage)

LogInv ==
  /\ \A r \in Runs : \A i \in DOMAIN usageLog[r] : LineOK(r, usageLog[r][i])
  /\ \A r \in Runs : \A i, j \in DOMAIN usageLog[r] :
       usageLog[r][i].request = usageLog[r][j].request => i = j
  /\ \A b \in Responses :
       /\ body[b].at \in {"none", "open"} => ~Unlogged(b)
       /\ body[b].at = "adding" => (Logged(b) \/ Unlogged(b)) /\ lock[body[b].run] = b
  /\ \A r \in Runs : lock[r] # 0 => body[lock[r]].run = r /\ body[lock[r]].at = "adding"

\* The responses of r that were dropped.
Lost(r) == {b \in Responses : /\ body[b].run = r /\ body[b].at = "closed" /\ body[b].arrived # "empty"
                              /\ ~Logged(b) /\ ~Unlogged(b)}

DropInv == \A r \in Runs : dropped[r].parse + dropped[r].noUsage = Cardinality(Lost(r))

LEMMA LockType ==
  ASSUME Base, NEW r \in Runs PROVE lock[r] \in Responses \cup {0} /\ 0 \notin Responses
BY DEF Base, ProxyTypes, Responses

\* A step of a response that was not yet recorded, and is not now.
LEMMA LogKept ==
  ASSUME Base, LogInv, NEW b \in Responses, body[b].at \in {"none", "open"}, body'[b].at # "adding",
         body'[b].run \in Runs,
         \A c \in Responses : c # b => body'[c] = body[c],
         \A c \in Responses : Unlogged(c)' <=> Unlogged(c),
         UNCHANGED <<vendor, lock, usageLog>>
  PROVE  /\ LogInv' /\ ~Logged(b) /\ ~Logged(b)' /\ ~Unlogged(b)
         /\ \A c \in Responses : c # b => (Logged(c)' <=> Logged(c))
<1>1. ASSUME NEW r \in Runs, NEW i \in DOMAIN usageLog[r]
      PROVE  LineOK(r, usageLog[r][i]) /\ LineOK(r, usageLog[r][i])' /\ usageLog[r][i].request # b
  <2>1. LineOK(r, usageLog[r][i])
    BY DEF LogInv
  <2>2. usageLog[r][i].request # b
    BY <2>1 DEF LineOK
  <2> QED BY <2>1, <2>2 DEF LineOK
<1>2. ~Logged(b)
  BY <1>1, BodyAt DEF Logged
<1>3. \A c \in Responses : c # b => (Logged(c)' <=> Logged(c))
  BY DEF Logged
<1>4. ~Unlogged(b)
  BY DEF LogInv
<1>5. ASSUME NEW c \in Responses
      PROVE  /\ body'[c].at \in {"none", "open"} => ~Unlogged(c)'
             /\ body'[c].at = "adding" => (Logged(c)' \/ Unlogged(c)') /\ lock[body'[c].run] = c
  BY <1>3, <1>4 DEF LogInv
<1>6. ASSUME NEW r \in Runs, lock[r] # 0
      PROVE  body'[lock[r]].run = r /\ body'[lock[r]].at = "adding"
  <2>1. lock[r] \in Responses /\ body[lock[r]].run = r /\ body[lock[r]].at = "adding"
    BY <1>6, LockType DEF LogInv
  <2> QED BY <2>1
<1>7. \A r \in Runs : \A i, j \in DOMAIN usageLog'[r] :
        usageLog'[r][i].request = usageLog'[r][j].request => i = j
  BY DEF LogInv
<1>8. LogInv'
  <2>1. (\A r \in Runs : \A i \in DOMAIN usageLog[r] : LineOK(r, usageLog[r][i]))'
    BY <1>1 DEF LineOK
  <2> QED BY <2>1, <1>5, <1>6, <1>7 DEF LogInv
<1>9. ~Logged(b)'
  BY <1>1 DEF Logged
<1> QED BY <1>2, <1>3, <1>4, <1>8, <1>9

Tracked == Base /\ LogInv /\ DropInv

\* The other writes are not of lines.
LEMMA OtherWrites ==
  ASSUME NEW F, failed' = failed \cup F, \A w \in F : w[1] # "line"
  PROVE  \A c \in Responses : Unlogged(c)' <=> Unlogged(c)
<1>1. ASSUME NEW c PROVE <<"line", c>> \notin F
  <2>1. <<"line", c>>[1] = "line"
    OBVIOUS
  <2> QED BY <2>1
<1> QED BY <1>1 DEF Unlogged

LEMMA LostFinite == ASSUME NEW r PROVE IsFiniteSet(Lost(r))
<1>1. IsFiniteSet(Responses)
  BY BoundsAssumption, FS_Interval DEF Responses
<1>2. Lost(r) \subseteq Responses
  BY DEF Lost
<1> QED BY <1>1, <1>2, FS_Subset

LEMMA LostKept ==
  ASSUME Base, LogInv, DropInv, NEW b \in Responses, body[b].at \in {"none", "open"},
         body'[b].at # "adding", body'[b].at # "closed" \/ body'[b].arrived = "empty",
         body'[b].run \in Runs,
         \A c \in Responses : c # b => body'[c] = body[c],
         \A c \in Responses : Unlogged(c)' <=> Unlogged(c),
         UNCHANGED <<vendor, lock, usageLog, dropped>>
  PROVE  LogInv' /\ DropInv'
<1>1. LogInv' /\ \A c \in Responses : c # b => (Logged(c)' <=> Logged(c))
  BY LogKept, Zenon
<1>2. ASSUME NEW r \in Runs PROVE Lost(r)' = Lost(r)
  BY <1>1 DEF Lost
<1> QED BY <1>1, <1>2 DEF DropInv

LEMMA WrapLog ==
  ASSUME Tracked, NEW b \in Responses, wrapResponseBody(b) PROVE Tracked'
<1>1. Base'
  BY WrapBase DEF Tracked
<1>2. body[b].at = "none" /\ UNCHANGED <<vendor, lock, usageLog, dropped, failed>>
  BY DEF wrapResponseBody
<1>3. /\ body'[b].at = "open" /\ \A c \in Responses : c # b => body'[c] = body[c]
      /\ body'[b].run \in Runs
  <2>1. body \in [Responses -> Bodies] /\ body' \in [Responses -> Bodies]
    BY <1>1 DEF Tracked, Base, ProxyTypes
  <2>2. body'[b].run \in Runs
    BY <2>1 DEF Bodies
  <2> QED BY <2>1, <2>2 DEF wrapResponseBody
<1>4. \A c \in Responses : Unlogged(c)' <=> Unlogged(c)
  BY <1>2 DEF Unlogged
<1> QED BY <1>1, <1>2, <1>3, <1>4, LostKept DEF Tracked

LEMMA HandleLog ==
  ASSUME Tracked, NEW b \in Responses, handleLine(b) PROVE Tracked'
<1>1. Base'
  BY HandleBase DEF Tracked
<1>2. body[b].at = "open" /\ UNCHANGED <<vendor, lock, usageLog, dropped, failed>>
  BY DEF handleLine
<1>3. /\ body'[b].at = "open" /\ \A c \in Responses : c # b => body'[c] = body[c]
      /\ body'[b].run \in Runs
  <2>1. body \in [Responses -> Bodies] /\ body[b] \in Bodies /\ body' \in [Responses -> Bodies]
    BY <1>1 DEF Tracked, Base, ProxyTypes
  <2>2. body'[b].run \in Runs
    BY <2>1 DEF Bodies
  <2>3. PICK arr : body' = [body EXCEPT ![b].arrived = arr]
    BY <2>1 DEF handleLine
  <2> QED BY <2>1, <2>2, <2>3, <1>2 DEF Bodies
<1>4. \A c \in Responses : Unlogged(c)' <=> Unlogged(c)
  BY <1>2 DEF Unlogged
<1> QED BY <1>1, <1>2, <1>3, <1>4, LostKept DEF Tracked

LEMMA EmptiesLog ==
  ASSUME Tracked, NEW b \in Responses, Recording(b), Empties(b) PROVE Tracked'
<1>0. Base
  BY DEF Tracked
<1>1. Base'
  BY <1>0, EmptiesBase
<1>2. body[b].at = "open" /\ UNCHANGED <<vendor, lock, usageLog, dropped, failed>>
  BY DEF Empties, Recording
<1>3. Close(b, "closed", "empty") /\ "empty" \in Arrivals
  BY DEF Empties, Arrivals
<1>4. /\ body'[b].at = "closed" /\ body'[b].arrived = "empty"
      /\ \A c \in Responses : c # b => body'[c] = body[c]
      /\ body'[b].run \in Runs
  BY <1>0, <1>3, CloseBody, BodyAt
<1>5. \A c \in Responses : Unlogged(c)' <=> Unlogged(c)
  BY <1>2 DEF Unlogged
<1> QED BY <1>1, <1>2, <1>4, <1>5, LostKept DEF Tracked

LEMMA DropsLog ==
  ASSUME Tracked, NEW b \in Responses, NEW kinds, NEW arr, Recording(b), Drops(b, kinds, arr)
  PROVE  Tracked'
<1>0. Base /\ LogInv
  BY DEF Tracked
<1>r. PICK r \in Runs : r = body[b].run
  BY <1>0, BodyAt
<1>1. Base'
  BY <1>0, DropsBase
<1>2. body[b].at = "open" /\ Close(b, "closed", arr) /\ arr \in Arrivals /\ arr # "empty"
  BY DEF Drops, Recording
<1>4. /\ body'[b].at = "closed" /\ body'[b].arrived = arr
      /\ \A c \in Responses : (c # b => body'[c] = body[c]) /\ body'[c].run = body[c].run
  BY <1>0, <1>2, CloseBody
<1>5. UNCHANGED <<vendor, lock, usageLog>> /\ WriteUsageAtomic(r, dropped'[r])
  BY <1>0, <1>r, DropsEffect
<1>6. \A c \in Responses : Unlogged(c)' <=> Unlogged(c)
  <2>1. PICK F \in SUBSET {<<"usage", r>>} : failed' = failed \cup F
    <3>1. failed' = failed \cup {<<"usage", r>>} \/ failed' = failed \cup {}
      BY <1>0, <1>5, WriteEffect
    <3> QED BY <3>1
  <2>2. \A w \in F : w[1] = "usage"
    OBVIOUS
  <2> QED BY <2>1, <2>2, OtherWrites
<1>7. /\ LogInv' /\ ~Logged(b)' /\ ~Unlogged(b) /\ ~Logged(b)
      /\ \A c \in Responses : c # b => (Logged(c)' <=> Logged(c))
  BY <1>r, <1>0, <1>2, <1>4, <1>5, <1>6, LogKept
<1>8. Lost(r)' = Lost(r) \cup {b} /\ b \notin Lost(r)
  BY <1>r, <1>2, <1>4, <1>6, <1>7 DEF Lost
<1>9. ASSUME NEW q \in Runs \ {r} PROVE Lost(q)' = Lost(q)
  BY <1>r, <1>2, <1>4, <1>6, <1>7 DEF Lost
<1>10. Cardinality(Lost(r) \cup {b}) = Cardinality(Lost(r)) + 1
  BY <1>8, LostFinite, FS_AddElement
<1>11. ASSUME NEW q \in Runs PROVE dropped'[q].parse + dropped'[q].noUsage = Cardinality(Lost(q)')
  <2>1. dropped[q].parse + dropped[q].noUsage = Cardinality(Lost(q))
    BY DEF Tracked, DropInv
  <2>2. CASE q = r
    <3>1. dropped'[r].parse + dropped'[r].noUsage = dropped[r].parse + dropped[r].noUsage + 1
      BY <1>0, <1>r, DropsEffect
    <3>2. dropped[r].parse \in Nat /\ dropped[r].noUsage \in Nat
      BY <1>0 DEF Base, ProxyTypes, DropCounts
    <3>3. dropped'[r].parse + dropped'[r].noUsage = Cardinality(Lost(r)')
      BY <3>1, <3>2, <2>1, <2>2, <1>8, <1>10
    <3> QED BY <3>3, <2>2
  <2>3. CASE q # r
    <3>1. dropped' = [dropped EXCEPT ![r] = dropped'[r]]
      BY <1>0, <1>r, DropsEffect
    <3>2. dropped \in [Runs -> DropCounts]
      BY <1>0 DEF Base, ProxyTypes
    <3>3. dropped'[q] = dropped[q]
      BY <3>1, <3>2, <2>3
    <3> QED BY <3>3, <2>1, <2>3, <1>9
  <2> QED BY <2>2, <2>3
<1> QED BY <1>1, <1>7, <1>11 DEF Tracked, DropInv

LEMMA HostLog ==
  ASSUME Tracked, UNCHANGED <<vendor, body, sse, totals, dropped, lock, usageJSON, usageLog>>,
         \A c \in Responses : Unlogged(c)' <=> Unlogged(c)
  PROVE  Tracked'
<1>1. Base'
  BY HostBase DEF Tracked
<1>2. \A r \in Runs : Lost(r)' = Lost(r)
  BY DEF Lost, Logged
<1>3. LogInv'
  BY DEF Tracked, LogInv, LineOK, Logged
<1> QED BY <1>1, <1>2, <1>3 DEF Tracked, DropInv

LEMMA AddsLog ==
  ASSUME Tracked, NEW b \in Responses, NEW m, NEW c, NEW arr, Recording(b), Adds(b, m, c, arr)
  PROVE  Tracked'
<1>0. Base /\ LogInv
  BY DEF Tracked
<1>r. PICK r \in Runs : r = body[b].run
  BY <1>0, BodyAt
<1>l. PICK l \in LogLine : l = LineFor(b, m, c)
  BY <1>0, AddsEffect
<1>1. Base'
  BY <1>0, AddsBase
<1>2. /\ body[b].at = "open" /\ lock[r] = 0 /\ Close(b, "adding", arr) /\ arr \in Arrivals
      /\ arr \in {"whole", "unseen"} => c = body[b].usage
  BY <1>r DEF Adds, Recording
<1>3. l.request = b /\ l.tokens = normalizeTokens(vendor[r], c)
  BY <1>l, <1>r DEF LineFor
<1>4. /\ body'[b].at = "adding" /\ body'[b].arrived = arr
      /\ \A d \in Responses : /\ d # b => body'[d] = body[d]
                              /\ body'[d].run = body[d].run /\ body'[d].usage = body[d].usage
  BY <1>0, <1>2, CloseBody
<1>5. lock' = [lock EXCEPT ![r] = b] /\ UNCHANGED <<vendor, dropped>>
  <2>1. lock' = [lock EXCEPT ![r] = b]
    BY <1>0, <1>r, AddsEffect
  <2>2. UNCHANGED <<vendor, dropped>>
    BY <1>0, AddsEffect
  <2> QED BY <2>1, <2>2
<1>6. lock \in [Runs -> Responses \cup {0}] /\ usageLog \in [Runs -> Seq(LogLine)]
  BY <1>0 DEF Base, ProxyTypes
<1>7. \/ usageLog' = usageLog /\ failed' = failed \cup {<<"line", b>>}
      \/ usageLog' = [usageLog EXCEPT ![r] = Append(usageLog[r], l)] /\ failed' = failed
  <2>1. \/ usageLog' = usageLog /\ failed' = failed \cup {<<"line", b>>}
        \/ /\ usageLog' = [usageLog EXCEPT ![body[b].run] = Append(usageLog[body[b].run], LineFor(b, m, c))]
           /\ failed' = failed
    BY <1>0, AddsEffect
  <2> QED BY <2>1, <1>r, <1>l
<1>8. ASSUME NEW d \in Responses \ {b} PROVE Unlogged(d)' <=> Unlogged(d)
  <2>1. <<"line", d>>[2] = d /\ <<"line", b>>[2] = b
    OBVIOUS
  <2>2. <<"line", d>> # <<"line", b>>
    BY <2>1
  <2> QED BY <1>7, <2>2 DEF Unlogged
<1>n. PICK n \in Nat : n = Len(usageLog[r]) + 1
  BY <1>6
<1>9. /\ \A q \in Runs : \A i \in DOMAIN usageLog'[q] :
           \/ i \in DOMAIN usageLog[q] /\ usageLog'[q][i] = usageLog[q][i]
           \/ q = r /\ i = n /\ usageLog'[q][i] = l
      /\ \A q \in Runs : \A i \in DOMAIN usageLog[q] :
           i \in DOMAIN usageLog'[q] /\ usageLog'[q][i] = usageLog[q][i]
      /\ n \notin DOMAIN usageLog[r]
      /\ Unlogged(b)' \/ (n \in DOMAIN usageLog'[r] /\ usageLog'[r][n] = l)
  <2>1. CASE usageLog' = usageLog /\ failed' = failed \cup {<<"line", b>>}
    BY <2>1, <1>6, <1>n DEF Unlogged
  <2>2. CASE usageLog' = [usageLog EXCEPT ![r] = Append(usageLog[r], l)]
    <3>1. usageLog[r] \in Seq(LogLine) /\ usageLog'[r] = Append(usageLog[r], l)
      BY <2>2, <1>6
    <3>2. \A q \in Runs \ {r} : usageLog'[q] = usageLog[q]
      BY <2>2, <1>6
    <3>3. /\ DOMAIN usageLog[r] = 1..(n - 1) /\ DOMAIN usageLog'[r] = 1..n
          /\ usageLog'[r][n] = l /\ \A i \in 1..(n - 1) : usageLog'[r][i] = usageLog[r][i]
      BY <3>1, <1>n
    <3>4. ASSUME NEW q \in Runs, NEW i \in DOMAIN usageLog'[q]
          PROVE  \/ i \in DOMAIN usageLog[q] /\ usageLog'[q][i] = usageLog[q][i]
                 \/ q = r /\ i = n /\ usageLog'[q][i] = l
      <4>1. CASE q = r
        BY <4>1, <3>3
      <4>2. CASE q # r
        BY <4>2, <3>2
      <4> QED BY <4>1, <4>2
    <3>5. ASSUME NEW q \in Runs, NEW i \in DOMAIN usageLog[q]
          PROVE  i \in DOMAIN usageLog'[q] /\ usageLog'[q][i] = usageLog[q][i]
      <4>1. CASE q = r
        BY <4>1, <3>3
      <4>2. CASE q # r
        BY <4>2, <3>2
      <4> QED BY <4>1, <4>2
    <3>6. n \notin DOMAIN usageLog[r] /\ n \in DOMAIN usageLog'[r] /\ usageLog'[r][n] = l
      <4>1. n \notin 1..(n - 1) /\ n \in 1..n
        BY <1>n
      <4> QED BY <4>1, <3>3
    <3> QED BY <3>4, <3>5, <3>6
  <2> QED BY <2>1, <2>2, <1>7
<1>10. \A q \in Runs : \A i \in DOMAIN usageLog[q] : LineOK(q, usageLog[q][i])
  BY <1>0 DEF LogInv
<1>11. \A q \in Runs : \A i \in DOMAIN usageLog[q] : usageLog[q][i].request \in Responses \ {b}
  BY <1>2, <1>10 DEF LineOK
<1>12. ASSUME NEW q \in Runs, NEW i \in DOMAIN usageLog'[q] PROVE LineOK(q, usageLog[q][i])'
  <2>1. CASE i \in DOMAIN usageLog[q] /\ usageLog'[q][i] = usageLog[q][i]
    <3>1. LineOK(q, usageLog[q][i]) /\ usageLog[q][i].request \in Responses \ {b}
      BY <2>1, <1>10, <1>11
    <3> QED BY <3>1, <2>1, <1>4, <1>5 DEF LineOK
  <2>2. CASE q = r /\ usageLog'[q][i] = l
    <3>1. body'[b].run = r /\ body'[b].usage = body[b].usage
      BY <1>r, <1>4
    <3>2. body'[b].arrived \in {"whole", "unseen"} => l.tokens = normalizeTokens(vendor[r], body'[b].usage)
      BY <3>1, <1>2, <1>3, <1>4
    <3> QED BY <3>1, <3>2, <2>2, <1>3, <1>4, <1>5 DEF LineOK
  <2> QED BY <2>1, <2>2, <1>9
<1>13. ASSUME NEW q \in Runs, NEW i \in DOMAIN usageLog'[q], NEW j \in DOMAIN usageLog'[q],
              usageLog'[q][i].request = usageLog'[q][j].request
       PROVE  i = j
  <2>1. CASE i \in DOMAIN usageLog[q] /\ j \in DOMAIN usageLog[q]
    <3>1. usageLog[q][i].request = usageLog[q][j].request
      BY <2>1, <1>9, <1>13
    <3> QED BY <3>1, <2>1, <1>0 DEF LogInv
  <2>2. CASE i \in DOMAIN usageLog[q] /\ j \notin DOMAIN usageLog[q]
    BY <2>2, <1>3, <1>9, <1>11, <1>13
  <2>3. CASE i \notin DOMAIN usageLog[q] /\ j \in DOMAIN usageLog[q]
    BY <2>3, <1>3, <1>9, <1>11, <1>13
  <2>4. CASE i \notin DOMAIN usageLog[q] /\ j \notin DOMAIN usageLog[q]
    BY <2>4, <1>9
  <2> QED BY <2>1, <2>2, <2>3, <2>4
<1>14. ASSUME NEW d \in Responses \ {b} PROVE Logged(d)' <=> Logged(d)
  <2>1. body'[d] = body[d] /\ body[d].run \in Runs
    BY <1>0, <1>4, BodyAt
  <2> QED BY <2>1, <1>3, <1>9 DEF Logged
<1>15. Logged(b)' \/ Unlogged(b)'
  BY <1>r, <1>3, <1>4, <1>9 DEF Logged
<1>16. ASSUME NEW d \in Responses
       PROVE  /\ body'[d].at \in {"none", "open"} => ~Unlogged(d)'
              /\ body'[d].at = "adding" => (Logged(d)' \/ Unlogged(d)') /\ lock'[body'[d].run] = d
  <2>1. CASE d = b
    BY <2>1, <1>r, <1>4, <1>5, <1>6, <1>15
  <2>2. CASE d # b
    <3>1. body'[d] = body[d] /\ body[d].run \in Runs
      BY <2>2, <1>0, <1>4, BodyAt
    <3>2. body[d].at = "adding" => lock[body[d].run] = d /\ d # 0
      BY <1>0 DEF LogInv, Responses
    <3>3. body[d].at = "adding" => body[d].run # r
      BY <3>2, <1>2
    <3> QED BY <2>2, <3>1, <3>2, <3>3, <1>0, <1>5, <1>6, <1>8, <1>14 DEF LogInv
  <2> QED BY <2>1, <2>2
<1>17. ASSUME NEW q \in Runs, lock'[q] # 0
       PROVE  body'[lock'[q]].run = q /\ body'[lock'[q]].at = "adding"
  <2>1. CASE q = r
    BY <2>1, <1>r, <1>4, <1>5, <1>6
  <2>2. CASE q # r
    <3>1. lock'[q] = lock[q] /\ lock[q] \in Responses
      BY <2>2, <1>5, <1>6, <1>17
    <3>2. body[lock[q]].run = q /\ body[lock[q]].at = "adding"
      BY <3>1, <1>17, <1>0 DEF LogInv
    <3> QED BY <3>1, <3>2, <1>2, <1>4
  <2> QED BY <2>1, <2>2
<1>18. LogInv'
  <2>1. (\A q \in Runs : \A i \in DOMAIN usageLog[q] : LineOK(q, usageLog[q][i]))'
    BY <1>12
  <2> QED BY <2>1, <1>13, <1>16, <1>17 DEF LogInv
<1>19. \A q \in Runs : Lost(q)' = Lost(q)
  BY <1>2, <1>4, <1>8, <1>14 DEF Lost
<1>20. DropInv'
  BY <1>5, <1>19 DEF Tracked, DropInv
<1> QED BY <1>1, <1>18, <1>20 DEF Tracked

LEMMA PersistLog ==
  ASSUME Tracked, NEW b \in Responses, persistLocked(b)
  PROVE  Tracked'
<1>0. Base /\ LogInv
  BY DEF Tracked
<1>r. PICK r \in Runs : r = body[b].run
  BY <1>0, BodyAt
<1>1. Base'
  BY <1>0, PersistBase
<1>2. /\ body[b].at = "adding" /\ WriteUsageAtomic(r, dropped[r]) /\ lock' = [lock EXCEPT ![r] = 0]
      /\ Close(b, "closed", body[b].arrived) /\ body[b].arrived \in Arrivals
      /\ UNCHANGED <<vendor, dropped, usageLog>>
  BY <1>0, <1>r, BodyAt DEF persistLocked
<1>3. /\ body'[b].at = "closed" /\ body'[b].arrived = body[b].arrived
      /\ \A d \in Responses : /\ d # b => body'[d] = body[d]
                              /\ body'[d].run = body[d].run /\ body'[d].usage = body[d].usage
  BY <1>0, <1>2, CloseBody
<1>4. \A d \in Responses : Unlogged(d)' <=> Unlogged(d)
  <2>1. PICK F \in SUBSET {<<"usage", r>>} : failed' = failed \cup F
    <3>1. failed' = failed \cup {<<"usage", r>>} \/ failed' = failed \cup {}
      BY <1>0, <1>2, WriteEffect
    <3> QED BY <3>1
  <2>2. \A w \in F : w[1] = "usage"
    OBVIOUS
  <2> QED BY <2>1, <2>2, OtherWrites
<1>5. \A d \in Responses : Logged(d)' <=> Logged(d)
  BY <1>2, <1>3 DEF Logged
<1>6. lock \in [Runs -> Responses \cup {0}]
  BY <1>0 DEF Base, ProxyTypes
<1>7. lock[r] = b /\ (Logged(b) \/ Unlogged(b))
  BY <1>0, <1>r, <1>2 DEF LogInv
<1>8. ASSUME NEW q \in Runs, NEW i \in DOMAIN usageLog[q] PROVE LineOK(q, usageLog[q][i])'
  <2>1. LineOK(q, usageLog[q][i])
    BY <1>0 DEF LogInv
  <2> QED BY <2>1, <1>2, <1>3 DEF LineOK
<1>9. ASSUME NEW d \in Responses
      PROVE  /\ body'[d].at \in {"none", "open"} => ~Unlogged(d)'
             /\ body'[d].at = "adding" => (Logged(d)' \/ Unlogged(d)') /\ lock'[body'[d].run] = d
  <2>1. CASE d = b
    BY <2>1, <1>3
  <2>2. CASE d # b
    <3>1. body'[d] = body[d] /\ body[d].run \in Runs
      BY <2>2, <1>0, <1>3, BodyAt
    <3>2. body[d].at = "adding" => lock[body[d].run] = d
      BY <1>0 DEF LogInv
    <3> QED BY <2>2, <3>1, <3>2, <1>0, <1>2, <1>4, <1>5, <1>6, <1>7 DEF LogInv
  <2> QED BY <2>1, <2>2
<1>10. ASSUME NEW q \in Runs, lock'[q] # 0
       PROVE  body'[lock'[q]].run = q /\ body'[lock'[q]].at = "adding"
  <2>1. q # r /\ lock'[q] = lock[q] /\ lock[q] \in Responses
    BY <1>2, <1>6, <1>10
  <2>2. body[lock[q]].run = q /\ body[lock[q]].at = "adding"
    BY <2>1, <1>10, <1>0 DEF LogInv
  <2>3. lock[q] # b
    BY <2>1, <2>2, <1>r
  <2> QED BY <2>1, <2>2, <2>3, <1>3
<1>11. LogInv'
  <2>1. (\A q \in Runs : \A i \in DOMAIN usageLog[q] : LineOK(q, usageLog[q][i]))'
    BY <1>2, <1>8
  <2>2. \A q \in Runs : \A i, j \in DOMAIN usageLog'[q] :
          usageLog'[q][i].request = usageLog'[q][j].request => i = j
    BY <1>0, <1>2 DEF LogInv
  <2> QED BY <2>1, <2>2, <1>9, <1>10 DEF LogInv
<1>12. \A q \in Runs : Lost(q)' = Lost(q)
  BY <1>2, <1>3, <1>4, <1>5, <1>7 DEF Lost
<1>13. DropInv'
  BY <1>2, <1>12 DEF Tracked, DropInv
<1> QED BY <1>1, <1>11, <1>13 DEF Tracked

LEMMA InitTracked == Init => Tracked
<1> SUFFICES ASSUME Init PROVE Tracked
  OBVIOUS
<1>1. \A b \in Responses : body[b].at = "none"
  BY DEF Init, NoBody
<1>2. \A r \in Runs : DOMAIN usageLog[r] = {} /\ lock[r] = 0
  <2>1. DOMAIN <<>> = {}
    OBVIOUS
  <2> QED BY <2>1 DEF Init
<1>3. LogInv
  BY <1>1, <1>2 DEF Init, LogInv, Unlogged
<1>4. ASSUME NEW r \in Runs PROVE dropped[r].parse + dropped[r].noUsage = Cardinality(Lost(r))
  <2>1. Lost(r) = {}
    BY <1>1 DEF Lost
  <2>2. dropped[r].parse = 0 /\ dropped[r].noUsage = 0
    BY DEF Init, NoDrops
  <2> QED BY <2>1, <2>2, FS_EmptySet
<1> QED BY <1>3, <1>4, InitBase DEF Tracked, DropInv

\* The host writes no line (copyUsageToOut, finishAgentRun).
LEMMA HostWrites ==
  ASSUME HostNext PROVE \A c \in Responses : Unlogged(c)' <=> Unlogged(c)
<1>1. PICK r \in Runs : Spawn(r) \/ readUsageSnapshot(r) \/ copyUsageToOut(r) \/ finishAgentRun(r)
  BY DEF HostNext
<1>2. CASE Spawn(r) \/ readUsageSnapshot(r)
  BY <1>2 DEF Spawn, readUsageSnapshot, Unlogged
<1>3. CASE copyUsageToOut(r)
  <2>1. PICK fails \in BOOLEAN : Attempt(<<"copy", r>>, fails)
    BY <1>3 DEF copyUsageToOut
  <2>2. PICK F \in SUBSET {<<"copy", r>>} : failed' = failed \cup F
    <3>1. failed' = failed \cup {<<"copy", r>>} \/ failed' = failed \cup {}
      BY <2>1 DEF Attempt
    <3> QED BY <3>1
  <2>3. \A w \in F : w[1] = "copy"
    OBVIOUS
  <2> QED BY <2>2, <2>3, OtherWrites
<1>4. CASE finishAgentRun(r)
  <2>1. PICK F \in SUBSET LastWrites(r) : failed' = failed \cup F
    BY <1>4 DEF finishAgentRun
  <2>2. \A w \in F : w[1] # "line"
    BY DEF LastWrites
  <2> QED BY <2>1, <2>2, OtherWrites
<1> QED BY <1>1, <1>2, <1>3, <1>4

LEMMA TrackedStep ==
  ASSUME Tracked, [Next]_vars PROVE Tracked'
<1>0. Base
  BY DEF Tracked
<1>1. CASE \E b \in Responses : wrapResponseBody(b)
  BY <1>1, WrapLog, Zenon
<1>2. CASE \E b \in Responses : handleLine(b)
  BY <1>2, HandleLog, Zenon
<1>3. CASE \E b \in Responses : Recording(b) /\ \E m \in Models \cup {""}, c \in Counts, arr \in Arrivals : Adds(b, m, c, arr)
  BY <1>3, AddsLog, Zenon
<1>4. CASE \E b \in Responses : Recording(b) /\ \E kinds \in {{"parse"}, {"noUsage"}}, arr \in Arrivals : Drops(b, kinds, arr)
  BY <1>4, DropsLog, Zenon
<1>5. CASE \E b \in Responses : Recording(b) /\ Empties(b)
  BY <1>5, EmptiesLog, Zenon
<1>6. CASE \E b \in Responses : persistLocked(b)
  BY <1>6, PersistLog, Zenon
<1>7. CASE HostNext
  BY <1>7, HostKeeps, HostWrites, HostLog, Zenon
<1>8. CASE UNCHANGED vars
  <2>1. UNCHANGED <<vendor, body, sse, totals, dropped, lock, usageJSON, usageLog>>
    BY <1>8 DEF vars, proxyVars
  <2>2. \A c \in Responses : Unlogged(c)' <=> Unlogged(c)
    BY <1>8 DEF vars, Unlogged
  <2> QED BY <2>1, <2>2, HostLog, Zenon
<1> QED BY <1>0, <1>1, <1>2, <1>3, <1>4, <1>5, <1>6, <1>7, <1>8, StepCases, Zenon

LEMMA AlwaysTracked == Spec => []Tracked
<1>1. Tracked /\ [Next]_vars => Tracked'
  BY TrackedStep
<1> QED BY <1>1, InitTracked, PTL DEF Spec

LEMMA CountIsLogged ==
  ASSUME Tracked, NEW b \in Responses PROVE Count(b) \in {0, 1} /\ (Count(b) = 1 <=> Logged(b))
<1> DEFINE r == body[b].run
           I == {i \in DOMAIN usageLog[r] : usageLog[r][i].request = b}
<1>1. r \in Runs
  BY BodyAt DEF Tracked
<1>2. \A i, j \in I : i = j
  BY <1>1 DEF Tracked, LogInv
<1>3. Count(b) = Cardinality(I)
  BY DEF Count
<1>4. Logged(b) <=> I # {}
  BY DEF Logged
<1> HIDE DEF I
<1>5. CASE I = {}
  BY <1>3, <1>4, <1>5, FS_EmptySet
<1>6. CASE I # {}
  <2>1. PICK i : I = {i}
    BY <1>2, <1>6
  <2> QED BY <2>1, <1>3, <1>4, FS_Singleton
<1> QED BY <1>5, <1>6

\* Every response that carried anything is in the log once or among the drops once,
\* whatever the order in which streams are cut and closed (Add, Drop, persistLocked).
THEOREM CountedOnceHolds == Spec => []CountedOnce
<1>1. Tracked => CountedOnce
  <2> SUFFICES ASSUME Tracked PROVE CountedOnce
    OBVIOUS
  <2>1. \A b \in Responses : Count(b) <= 1
    BY CountIsLogged
  <2>2. ASSUME NEW r \in Runs
        PROVE  LET over == {b \in Of(r) : body[b].at = "closed" /\ body[b].arrived # "empty"}
                   kept == {b \in over : Count(b) = 1 \/ <<"line", b>> \in failed}
               IN  dropped[r].parse + dropped[r].noUsage = Cardinality(over \ kept)
    <3> DEFINE over == {b \in Of(r) : body[b].at = "closed" /\ body[b].arrived # "empty"}
               kept == {b \in over : Count(b) = 1 \/ <<"line", b>> \in failed}
    <3>1. over \ kept = Lost(r)
      BY CountIsLogged DEF Of, Lost, Unlogged
    <3> QED BY <3>1 DEF Tracked, DropInv
  <2> QED BY <2>1, <2>2 DEF CountedOnce
<1> QED BY <1>1, AlwaysTracked, PTL

\* A response that came to its end is charged what the vendor's last word was
\* (applyStart, applyDelta, applyEvent, flush).
THEOREM WholeIsExactHolds == Spec => []WholeIsExact
<1>1. Tracked => WholeIsExact
  BY DEF Tracked, LogInv, LineOK, WholeIsExact
<1> QED BY <1>1, AlwaysTracked, PTL

-------------------------------------------------------------------------------
(* Sums of counts *)

LEMMA TokensSum ==
  ASSUME NEW S, IsFiniteSet(S), NEW f \in [S -> Counts]
  PROVE  /\ SumTokens(f) \in Counts
         /\ \A k \in Fields : SumTokens(f)[k] = SumFunctionOnSet([x \in S |-> f[x][k]], S)
<1>1. ASSUME NEW k \in Fields
      PROVE  SumFunctionOnSet([x \in S |-> f[x][k]], S) \in Nat
  <2> DEFINE g == [x \in S |-> f[x][k]]
  <2>1. \A x \in S : g[x] \in Nat
    BY CountsShape
  <2> HIDE DEF g
  <2>2. SumFunctionOnSet(g, S) \in Nat
    BY <2>1, SumNat
  <2> QED BY <2>2 DEF g
<1>2. SumTokens(f) = [k \in Fields |-> SumFunctionOnSet([x \in S |-> f[x][k]], S)]
  BY CountsShape DEF SumTokens, SumFunction
<1> QED BY <1>1, <1>2, CountsShape

\* The lines of a log that are of model m, and the counts of each in field k.
OfModel(L, m) == {i \in DOMAIN L : L[i].model = m}
Column(L, k)  == [i \in DOMAIN L |-> L[i].tokens[k]]

LEMMA LineAt ==
  ASSUME NEW L \in Seq(LogLine), NEW i \in DOMAIN L
  PROVE  L[i].request \in Responses /\ L[i].model \in Models /\ L[i].tokens \in Counts
<1>1. L[i] \in LogLine
  OBVIOUS
<1> QED BY <1>1 DEF LogLine

LEMMA ColumnNat ==
  ASSUME NEW L \in Seq(LogLine), NEW k \in Fields
  PROVE  \A i \in DOMAIN L : Column(L, k)[i] \in Nat
BY LineAt, CountsShape DEF Column

LEMMA OfModelFinite ==
  ASSUME NEW L \in Seq(LogLine), NEW m PROVE IsFiniteSet(OfModel(L, m))
<1>1. DOMAIN L = 1..Len(L) /\ Len(L) \in Nat
  OBVIOUS
<1>2. IsFiniteSet(DOMAIN L)
  BY <1>1, FS_Interval
<1>3. OfModel(L, m) \subseteq DOMAIN L
  BY DEF OfModel
<1> QED BY <1>2, <1>3, FS_Subset

\* The tokens of a model in a log, as a sum over its lines.
LEMMA ReadIs ==
  ASSUME NEW L \in Seq(LogLine)
  PROVE  /\ readPerModelTokens(L) \in [Models -> Counts]
         /\ \A m \in Models : \A k \in Fields :
              readPerModelTokens(L)[m][k] = SumFunctionOnSet(Column(L, k), OfModel(L, m))
<1> DEFINE f(m) == [i \in OfModel(L, m) |-> L[i].tokens]
<1>1. ASSUME NEW m \in Models
      PROVE  /\ SumTokens(f(m)) \in Counts
             /\ \A k \in Fields : SumTokens(f(m))[k] = SumFunctionOnSet(Column(L, k), OfModel(L, m))
  <2>1. f(m) \in [OfModel(L, m) -> Counts]
    BY LineAt DEF OfModel
  <2>2. IsFiniteSet(OfModel(L, m))
    BY OfModelFinite
  <2>3. ASSUME NEW k \in Fields
        PROVE  SumFunctionOnSet([x \in OfModel(L, m) |-> f(m)[x][k]], OfModel(L, m))
                 = SumFunctionOnSet(Column(L, k), OfModel(L, m))
    <3> DEFINE g == [x \in OfModel(L, m) |-> f(m)[x][k]]
    <3>1. \A x \in OfModel(L, m) : g[x] = Column(L, k)[x] /\ Column(L, k)[x] \in Int
      BY ColumnNat DEF OfModel, Column
    <3> HIDE DEF g
    <3>2. SumFunctionOnSet(g, OfModel(L, m)) = SumFunctionOnSet(Column(L, k), OfModel(L, m))
      BY <3>1, <2>2, SumEqual
    <3> QED BY <3>2 DEF g
  <2> DEFINE F == f(m)
  <2> HIDE DEF F
  <2>4. SumTokens(F) \in Counts /\ \A k \in Fields : SumTokens(F)[k] = SumFunctionOnSet([x \in OfModel(L, m) |-> F[x][k]], OfModel(L, m))
    BY <2>1, <2>2, TokensSum DEF F
  <2> QED BY <2>3, <2>4 DEF F
<1>2. readPerModelTokens(L) = [m \in Models |-> SumTokens(f(m))]
  BY DEF readPerModelTokens, OfModel
<1> HIDE DEF f
<1> QED BY <1>1, <1>2

LEMMA ReadEmpty ==
  ASSUME NEW m \in Models, NEW k \in Fields PROVE readPerModelTokens(<<>>)[m][k] = 0
<1>1. <<>> \in Seq(LogLine) /\ OfModel(<<>>, m) = {}
  BY DEF OfModel
<1> QED BY <1>1, ReadIs, SumEmpty

LEMMA ReadAppend ==
  ASSUME NEW L \in Seq(LogLine), NEW l \in LogLine, NEW m \in Models, NEW k \in Fields
  PROVE  /\ readPerModelTokens(L)[m][k] \in Nat /\ l.tokens[k] \in Nat
         /\ l.model = m => readPerModelTokens(Append(L, l))[m][k] = readPerModelTokens(L)[m][k] + l.tokens[k]
         /\ l.model # m => readPerModelTokens(Append(L, l))[m][k] = readPerModelTokens(L)[m][k]
<1> DEFINE M == Append(L, l)
           n == Len(L) + 1
           S == OfModel(L, m)
<1>1. M \in Seq(LogLine)
  OBVIOUS
<1>2. /\ DOMAIN L = 1..(n - 1) /\ DOMAIN M = 1..n /\ n \in Nat \ {0}
      /\ M[n] = l /\ \A i \in 1..(n - 1) : M[i] = L[i]
  OBVIOUS
<1> HIDE DEF M, n
<1>3. n \in DOMAIN M /\ n \notin DOMAIN L /\ \A i \in DOMAIN L : i \in DOMAIN M /\ M[i] = L[i]
  BY <1>2
<1>4. \A i \in DOMAIN M : i = n \/ i \in DOMAIN L
  BY <1>2
<1>5. l.tokens[k] \in Nat /\ readPerModelTokens(L)[m][k] \in Nat
  <2>1. l.tokens \in Counts /\ readPerModelTokens(L)[m] \in Counts
    BY ReadIs DEF LogLine
  <2> QED BY <2>1, CountsShape
<1>6. IsFiniteSet(S) /\ S \subseteq DOMAIN L /\ n \notin S
  BY <1>3, OfModelFinite DEF OfModel
<1>7. SumFunctionOnSet(Column(M, k), S) = SumFunctionOnSet(Column(L, k), S)
  <2>1. \A x \in S : Column(L, k)[x] \in Int /\ Column(M, k)[x] = Column(L, k)[x]
    BY <1>3, <1>6, ColumnNat DEF Column
  <2> HIDE DEF S
  <2> QED BY <2>1, <1>6, SumEqual
<1>8. /\ readPerModelTokens(L)[m][k] = SumFunctionOnSet(Column(L, k), S)
      /\ readPerModelTokens(M)[m][k] = SumFunctionOnSet(Column(M, k), OfModel(M, m))
  BY <1>1, ReadIs
<1>9. CASE l.model = m
  <2>1. OfModel(M, m) = S \cup {n}
    BY <1>2, <1>3, <1>4, <1>9 DEF OfModel
  <2>2. Column(M, k)[n] = l.tokens[k]
    BY <1>2, <1>3 DEF Column
  <2>3. \A x \in S : Column(M, k)[x] \in Int
    BY <1>1, <1>3, <1>6, ColumnNat
  <2>4. SumFunctionOnSet(Column(M, k), S \cup {n}) = Column(M, k)[n] + SumFunctionOnSet(Column(M, k), S)
    <3> HIDE DEF S
    <3>1. Column(M, k)[n] \in Int
      BY <2>2, <1>5
    <3> QED BY <3>1, <2>3, <1>6, SumAdd
  <2> HIDE DEF S
  <2> QED BY <2>1, <2>2, <2>4, <1>5, <1>7, <1>8, <1>9 DEF M
<1>10. CASE l.model # m
  <2>1. OfModel(M, m) = S
    BY <1>2, <1>3, <1>4, <1>10 DEF OfModel
  <2> HIDE DEF S
  <2> QED BY <2>1, <1>5, <1>7, <1>8, <1>10 DEF M
<1> QED BY <1>9, <1>10

-------------------------------------------------------------------------------
(* Costs *)

Price(v, m) == LookupPricing(IF v = "anthropic" THEN AnthropicCatalog ELSE OpenAICatalog, m)

\* The counts that the price of the vendor applies to.
Bill(v, t) == IF v = "anthropic" THEN t ELSE [t EXCEPT !.input = @ - t.read]

PricesOf(c) == \A m \in DOMAIN c : c[m] \in Counts

LEMMA CatalogPrices ==
  ASSUME NEW entries, \A e \in entries : e[2] \in Counts PROVE PricesOf(Catalog(entries))
BY DEF PricesOf, Catalog

LEMMA TokensInCounts == \A i, o, c, r \in Nat : Tokens(i, o, c, r) \in Counts
BY TokensType

LEMMA PriceType == ASSUME NEW v, NEW m PROVE Price(v, m) \in Counts
<1>1. PricesOf(AnthropicCatalog)
  <2>1. \A e \in AnthropicModels : e[2] \in Counts
    <3>1. /\ Tokens(200, 1000, 250, 20) \in Counts /\ Tokens(400, 2000, 500, 20) \in Counts
          /\ Tokens(1000, 5000, 1250, 25) \in Counts /\ Tokens(100, 500, 125, 10) \in Counts
      BY TokensInCounts
    <3> QED BY <3>1 DEF AnthropicModels
  <2> QED BY <2>1, CatalogPrices DEF AnthropicCatalog
<1>2. PricesOf(OpenAICatalog)
  <2>1. \A e \in OpenAIModels : e[2] \in Counts
    <3>1. /\ Tokens(200, 1000, 0, 10) \in Counts /\ Tokens(1000, 5000, 0, 100) \in Counts
          /\ Tokens(200, 1000, 0, 20) \in Counts /\ Tokens(10, 50, 0, 1) \in Counts
          /\ Tokens(400, 2000, 0, 40) \in Counts /\ Tokens(200, 1200, 0, 20) \in Counts
          /\ Tokens(20, 120, 0, 2) \in Counts /\ Tokens(500, 3000, 0, 50) \in Counts
      BY TokensInCounts
    <3> QED BY <3>1 DEF OpenAIModels
  <2> QED BY <2>1, CatalogPrices DEF OpenAICatalog
<1> QED BY <1>1, <1>2, CountsShape DEF Price, LookupPricing, PricesOf

LEMMA ProductMonotone ==
  ASSUME NEW a \in Nat, NEW b \in Nat, NEW p \in Nat, a <= b
  PROVE  a * p \in Nat /\ a * p <= b * p
<1>1. a * p \in Nat /\ (b - a) * p \in Nat
  OBVIOUS
<1>2. b * p = a * p + (b - a) * p
  OBVIOUS
<1> QED BY <1>1, <1>2

LEMMA DotMonotone ==
  ASSUME NEW s \in Counts, NEW t \in Counts, NEW p \in Counts, \A k \in Fields : s[k] <= t[k]
  PROVE  Dot(s, p) \in Nat /\ Dot(s, p) <= Dot(t, p)
<1>1. \A k \in Fields : s[k] \in Nat /\ t[k] \in Nat /\ p[k] \in Nat
  BY CountsShape
<1>2. \A k \in Fields : s[k] * p[k] \in Nat /\ t[k] * p[k] \in Nat /\ s[k] * p[k] <= t[k] * p[k]
  BY <1>1, ProductMonotone
<1>3. /\ Dot(s, p) = s["input"] * p["input"] + s["output"] * p["output"]
                       + s["create"] * p["create"] + s["read"] * p["read"]
      /\ Dot(t, p) = t["input"] * p["input"] + t["output"] * p["output"]
                       + t["create"] * p["create"] + t["read"] * p["read"]
  BY DEF Dot
<1>4. "input" \in Fields /\ "output" \in Fields /\ "create" \in Fields /\ "read" \in Fields
  BY DEF Fields
<1> QED BY <1>2, <1>3, <1>4

LEMMA BillType ==
  ASSUME NEW v \in Vendors, NEW t \in Counts, Valid(v, t)
  PROVE  /\ Bill(v, t) \in Counts
         /\ \A m : CostUSD(v, m, t) = Dot(Bill(v, t), Price(v, m))
         /\ \A k \in Fields : Bill(v, t)[k] = IF v = "openai" /\ k = "input" THEN t.input - t.read ELSE t[k]
<1>1. "input" \in Fields /\ "read" \in Fields
  BY DEF Fields
<1>2. t.input \in Nat /\ t.read \in Nat
  BY <1>1, CountsShape
<1>3. v = "openai" => t.input - t.read \in Nat
  BY <1>2 DEF Valid
<1>4. \A m : CostUSD(v, m, t) = Dot(Bill(v, t), Price(v, m))
  BY DEF CostUSD, anthropicCostUSD, openaiCostUSD, Bill, Price
<1> QED BY <1>1, <1>3, <1>4, CountsShape DEF Bill, Vendors

\* What is within what has no smaller cost.
LEMMA CostWithin ==
  ASSUME NEW v \in Vendors, NEW m, NEW s \in Counts, NEW t \in Counts,
         Valid(v, s), Valid(v, t), Within(v, s, t)
  PROVE  CostUSD(v, m, s) \in Nat /\ CostUSD(v, m, s) <= CostUSD(v, m, t)
<1>1. \A k \in Fields : Bill(v, s)[k] <= Bill(v, t)[k]
  BY BillType DEF Within
<1> QED BY <1>1, BillType, PriceType, DotMonotone

LEMMA WithinItself == ASSUME NEW v, NEW s \in Counts PROVE Within(v, s, s)
<1>1. "input" \in Fields /\ "read" \in Fields
  BY DEF Fields
<1> QED BY <1>1, CountsShape DEF Within

LEMMA CostNat ==
  ASSUME NEW r, vendor[r] \in Vendors, NEW F, F.tokens \in [Models -> Counts],
         \A m \in Models : Valid(vendor[r], F.tokens[m])
  PROVE  /\ \A m \in Models : CostUSD(vendor[r], m, F.tokens[m]) \in Nat
         /\ Cost(r, F) = SumFunctionOnSet(modelCostUSD(r, F), Models) /\ Cost(r, F) \in Nat
<1>1. \A m \in Models : CostUSD(vendor[r], m, F.tokens[m]) \in Nat
  BY CostWithin, WithinItself
<1>2. Cost(r, F) = SumFunctionOnSet(modelCostUSD(r, F), Models)
  BY DEF Cost, SumFunction, modelCostUSD
<1>3. \A m \in Models : modelCostUSD(r, F)[m] \in Nat
  BY <1>1 DEF modelCostUSD
<1> QED BY <1>1, <1>2, <1>3, SumNat, ModelsAssumption

LEMMA CostMonotone ==
  ASSUME NEW r, vendor[r] \in Vendors,
         NEW F, F.tokens \in [Models -> Counts], NEW G, G.tokens \in [Models -> Counts],
         \A m \in Models : /\ Valid(vendor[r], F.tokens[m]) /\ Valid(vendor[r], G.tokens[m])
                           /\ Within(vendor[r], F.tokens[m], G.tokens[m])
  PROVE  Cost(r, F) <= Cost(r, G)
<1>1. \A m \in Models :
        /\ CostUSD(vendor[r], m, F.tokens[m]) \in Nat /\ CostUSD(vendor[r], m, G.tokens[m]) \in Nat
        /\ CostUSD(vendor[r], m, F.tokens[m]) <= CostUSD(vendor[r], m, G.tokens[m])
  BY CostWithin, CostNat
<1>2. \A m \in Models : /\ modelCostUSD(r, F)[m] \in Int /\ modelCostUSD(r, G)[m] \in Int
                        /\ modelCostUSD(r, F)[m] <= modelCostUSD(r, G)[m]
  BY <1>1 DEF modelCostUSD
<1>3. SumFunctionOnSet(modelCostUSD(r, F), Models) <= SumFunctionOnSet(modelCostUSD(r, G), Models)
  BY <1>2, SumMonotone, ModelsAssumption
<1> QED BY <1>3, CostNat

-------------------------------------------------------------------------------
(* What the files of the tracker hold *)

Snapshot(r)  == [tokens |-> totals[r], dropped |-> dropped[r]]
AllLogged(r) == \A b \in Of(r) : <<"line", b>> \notin failed

\* usage.json is never ahead of the tracker.
SpendInv ==
  \A r \in Runs : /\ \A m \in Models : Within(vendor[r], usageJSON[r].tokens[m], totals[r][m])
                  /\ AtMost(usageJSON[r].dropped, dropped[r])

SnapshotInv == \A r \in Runs : lock[r] = 0 /\ <<"usage", r>> \notin failed => usageJSON[r] = Snapshot(r)

\* The log adds up to the totals, from the moment that the line is appended.
LogSumInv ==
  \A r \in Runs : AllLogged(r) => \A m \in Models : \A k \in Fields :
    readPerModelTokens(usageLog[r])[m][k] = normalizeTokens(vendor[r], totals[r][m])[k]

Written == Tracked /\ SpendInv /\ SnapshotInv /\ LogSumInv

LEMMA FailedGrows == ASSUME [Next]_vars PROVE failed \subseteq failed'
<1>1. ASSUME NEW b \in Responses, NEW r \in Runs, NEW drops, WriteUsageAtomic(r, drops)
      PROVE  failed \subseteq failed'
  BY <1>1 DEF WriteUsageAtomic, Attempt
<1>2. ASSUME NEW r, NEW line, NEW fails, appendRequestLocked(r, line, fails)
      PROVE  failed \subseteq failed'
  BY <1>2 DEF appendRequestLocked, Attempt
<1>3. ASSUME NEW b \in Responses, NEW m, NEW c, Add(b, m, c) PROVE failed \subseteq failed'
  BY <1>2, <1>3 DEF Add
<1>4. ASSUME NEW b \in Responses, NEW kinds, Drop(b, kinds) PROVE failed \subseteq failed'
  BY <1>4 DEF Drop, WriteUsageAtomic, Attempt
<1>5. CASE \E b \in Responses : wrapResponseBody(b) \/ handleLine(b)
  BY <1>5 DEF wrapResponseBody, handleLine
<1>6. CASE \E b \in Responses : flush(b)
  BY <1>3, <1>4, <1>6 DEF flush, AddDroppedNoUsageBlock
<1>7. CASE \E b \in Responses : closeJSON(b)
  BY <1>3, <1>4, <1>7 DEF closeJSON, AddDroppedNoUsageBlock, AddDroppedParseError
<1>8. CASE \E b \in Responses : persistLocked(b)
  BY <1>8 DEF persistLocked, WriteUsageAtomic, Attempt
<1>9. CASE HostNext
  BY <1>9 DEF HostNext, Spawn, readUsageSnapshot, copyUsageToOut, finishAgentRun, Attempt
<1>10. CASE UNCHANGED vars
  BY <1>10 DEF vars
<1> QED BY <1>5, <1>6, <1>7, <1>8, <1>9, <1>10 DEF Next, HostNext

\* A response stays with its run.
LEMMA BodyStays ==
  ASSUME Base, [Next]_vars, NEW c \in Responses, body[c].at # "none"
  PROVE  body'[c].at # "none" /\ body'[c].run = body[c].run
<1>1. CASE \E b \in Responses : wrapResponseBody(b)
  <2>1. PICK b \in Responses : wrapResponseBody(b)
    BY <1>1
  <2>2. b # c
    BY <2>1 DEF wrapResponseBody
  <2>3. body \in [Responses -> Bodies]
    BY DEF Base, ProxyTypes
  <2>4. body'[c] = body[c]
    BY <2>1, <2>2, <2>3 DEF wrapResponseBody
  <2> QED BY <2>4
<1>2. CASE \E b \in Responses : handleLine(b)
  <2>1. PICK b \in Responses : handleLine(b)
    BY <1>2
  <2>2. body \in [Responses -> Bodies] /\ body[c] \in Bodies
    BY DEF Base, ProxyTypes
  <2>3. PICK arr : body' = [body EXCEPT ![b].arrived = arr]
    BY <2>1, <2>2 DEF handleLine
  <2> QED BY <2>2, <2>3 DEF Bodies
<1>3. ASSUME NEW b \in Responses, NEW at \in {"adding", "closed"}, NEW arr \in Arrivals, Close(b, at, arr)
      PROVE  body'[c].at # "none" /\ body'[c].run = body[c].run
  <2>1. body'[b].at = at /\ body'[c].run = body[c].run /\ (c # b => body'[c] = body[c])
    BY <1>3, CloseBody
  <2> QED BY <2>1
<1>4. CASE \E b \in Responses : Recording(b) /\ \E m \in Models \cup {""}, d \in Counts, arr \in Arrivals : Adds(b, m, d, arr)
  BY <1>3, <1>4 DEF Adds
<1>5. CASE \E b \in Responses : Recording(b) /\ \E kinds \in {{"parse"}, {"noUsage"}}, arr \in Arrivals : Drops(b, kinds, arr)
  BY <1>3, <1>5 DEF Drops
<1>6. CASE \E b \in Responses : Recording(b) /\ Empties(b)
  BY <1>3, <1>6 DEF Empties, Arrivals
<1>7. CASE \E b \in Responses : persistLocked(b)
  BY <1>3, <1>7, BodyAt DEF persistLocked
<1>8. CASE HostNext
  <2>1. body' = body
    BY <1>8, HostKeeps
  <2> QED BY <2>1
<1>9. CASE UNCHANGED vars
  BY <1>9 DEF vars, proxyVars
<1> QED BY <1>1, <1>2, <1>4, <1>5, <1>6, <1>7, <1>8, <1>9, StepCases, Zenon

LEMMA LoggedBefore ==
  ASSUME Base, [Next]_vars, NEW r \in Runs, AllLogged(r)' PROVE AllLogged(r)
<1> SUFFICES ASSUME NEW b \in Of(r) PROVE <<"line", b>> \notin failed
  BY DEF AllLogged
<1>1. b \in Of(r)'
  BY BodyStays DEF Of
<1>2. <<"line", b>> \notin failed'
  BY <1>1 DEF AllLogged
<1> QED BY <1>2, FailedGrows

\* What a step does to usage.json.
LEMMA JsonStep ==
  ASSUME Base, [Next]_vars, NEW r \in Runs
  PROVE  \/ usageJSON'[r] = usageJSON[r]
         \/ /\ usageJSON'[r] = [tokens |-> totals[r], dropped |-> dropped'[r]]
            /\ AtMost(dropped[r], dropped'[r])
<1>t. usageJSON \in [Runs -> Files] /\ dropped \in [Runs -> DropCounts]
  BY DEF Base, ProxyTypes
<1>0. AtMost(dropped[r], dropped[r])
  <2>1. dropped[r] \in DropCounts
    BY <1>t
  <2> QED BY <2>1 DEF AtMost, DropCounts
<1>1. CASE \E b \in Responses : wrapResponseBody(b)
  BY <1>1 DEF wrapResponseBody
<1>2. CASE \E b \in Responses : handleLine(b)
  BY <1>2 DEF handleLine
<1>3. CASE \E b \in Responses : Recording(b) /\ \E m \in Models \cup {""}, c \in Counts, arr \in Arrivals : Adds(b, m, c, arr)
  <2>1. usageJSON' = usageJSON
    BY <1>3, AddsEffect
  <2> QED BY <2>1
<1>4. CASE \E b \in Responses : Recording(b) /\ \E kinds \in {{"parse"}, {"noUsage"}}, arr \in Arrivals : Drops(b, kinds, arr)
  <2>1. PICK b \in Responses, kinds \in {{"parse"}, {"noUsage"}}, arr \in Arrivals : Drops(b, kinds, arr)
    BY <1>4
  <2>2. PICK q \in Runs : q = body[b].run
    BY BodyAt
  <2>3. WriteUsageAtomic(q, dropped'[q]) /\ AtMost(dropped[q], dropped'[q])
    BY <2>1, <2>2, DropsEffect
  <2>4. \/ usageJSON' = usageJSON
        \/ usageJSON' = [usageJSON EXCEPT ![q] = [tokens |-> totals[q], dropped |-> dropped'[q]]]
    BY <2>3, WriteEffect
  <2> QED BY <2>3, <2>4, <1>t
<1>5. CASE \E b \in Responses : Recording(b) /\ Empties(b)
  BY <1>5 DEF Empties
<1>6. CASE \E b \in Responses : persistLocked(b)
  <2>1. PICK b \in Responses : persistLocked(b)
    BY <1>6
  <2>2. PICK q \in Runs : q = body[b].run
    BY BodyAt
  <2>3. WriteUsageAtomic(q, dropped[q]) /\ dropped' = dropped
    BY <2>1, <2>2 DEF persistLocked
  <2>4. \/ usageJSON' = usageJSON
        \/ usageJSON' = [usageJSON EXCEPT ![q] = [tokens |-> totals[q], dropped |-> dropped[q]]]
    BY <2>3, WriteEffect
  <2> QED BY <2>3, <2>4, <1>0, <1>t
<1>7. CASE HostNext
  <2>1. usageJSON' = usageJSON
    BY <1>7, HostKeeps
  <2> QED BY <2>1
<1>8. CASE UNCHANGED vars
  BY <1>8 DEF vars, proxyVars
<1> QED BY <1>1, <1>2, <1>3, <1>4, <1>5, <1>6, <1>7, <1>8, StepCases, Zenon

\* What a step does to the totals of the tracker: nothing, or what Add does.
LEMMA TotalsStep ==
  ASSUME Base, [Next]_vars
  PROVE  \/ UNCHANGED <<totals, usageLog>>
         \/ \E b \in Responses : Recording(b) /\ \E m \in Models \cup {""}, c \in Counts, arr \in Arrivals : Adds(b, m, c, arr)
<1>1. CASE \E b \in Responses : wrapResponseBody(b) \/ handleLine(b) \/ persistLocked(b) \/ Empties(b)
  BY <1>1 DEF wrapResponseBody, handleLine, persistLocked, Empties
<1>2. CASE \E b \in Responses : Recording(b) /\ \E kinds \in {{"parse"}, {"noUsage"}}, arr \in Arrivals : Drops(b, kinds, arr)
  BY <1>2 DEF Drops, Drop
<1>3. CASE HostNext
  BY <1>3, HostKeeps
<1>4. CASE UNCHANGED vars
  BY <1>4 DEF vars, proxyVars
<1> QED BY <1>1, <1>2, <1>3, <1>4, StepCases, Zenon

LEMMA DroppedStep ==
  ASSUME Base, [Next]_vars, NEW r \in Runs PROVE AtMost(dropped[r], dropped'[r])
<1>t. dropped \in [Runs -> DropCounts]
  BY DEF Base, ProxyTypes
<1>0. AtMost(dropped[r], dropped[r])
  <2>1. dropped[r] \in DropCounts
    BY <1>t
  <2> QED BY <2>1 DEF AtMost, DropCounts
<1>1. CASE \E b \in Responses : wrapResponseBody(b) \/ handleLine(b) \/ persistLocked(b) \/ Empties(b)
  <2>1. dropped' = dropped
    BY <1>1 DEF wrapResponseBody, handleLine, persistLocked, Empties
  <2> QED BY <2>1, <1>0
<1>2. CASE \E b \in Responses : Recording(b) /\ \E m \in Models \cup {""}, c \in Counts, arr \in Arrivals : Adds(b, m, c, arr)
  <2>1. dropped' = dropped
    BY <1>2, AddsEffect
  <2> QED BY <2>1, <1>0
<1>3. CASE \E b \in Responses : Recording(b) /\ \E kinds \in {{"parse"}, {"noUsage"}}, arr \in Arrivals : Drops(b, kinds, arr)
  <2>1. PICK b \in Responses, kinds \in {{"parse"}, {"noUsage"}}, arr \in Arrivals : Drops(b, kinds, arr)
    BY <1>3
  <2>2. PICK q \in Runs : q = body[b].run
    BY BodyAt
  <2>3. dropped' = [dropped EXCEPT ![q] = dropped'[q]] /\ AtMost(dropped[q], dropped'[q])
    BY <2>1, <2>2, DropsEffect
  <2> QED BY <2>3, <1>0, <1>t
<1>4. CASE HostNext
  <2>1. dropped' = dropped
    BY <1>4, HostKeeps
  <2> QED BY <2>1, <1>0
<1>5. CASE UNCHANGED vars
  <2>1. dropped' = dropped
    BY <1>5 DEF vars, proxyVars
  <2> QED BY <2>1, <1>0
<1> QED BY <1>1, <1>2, <1>3, <1>4, <1>5, StepCases, Zenon

\* The totals only grow.
LEMMA TotalsGrow ==
  ASSUME Base, [Next]_vars, NEW r \in Runs, NEW m \in Models, NEW s \in Counts, Within(vendor[r], s, totals[r][m])
  PROVE  Within(vendor[r], s, totals'[r][m])
<1>1. CASE UNCHANGED <<totals, usageLog>>
  BY <1>1
<1>2. CASE \E b \in Responses : Recording(b) /\ \E n \in Models \cup {""}, c \in Counts, arr \in Arrivals : Adds(b, n, c, arr)
  <2>1. PICK b \in Responses, n \in Models \cup {""}, c \in Counts, arr \in Arrivals : Adds(b, n, c, arr)
    BY <1>2
  <2>2. PICK q \in Runs : q = body[b].run
    BY BodyAt
  <2>3. PICK k \in Models : k = Named(n)
    BY <2>1, AddsEffect
  <2>4. totals' = [totals EXCEPT ![q] = [totals[q] EXCEPT ![k] = combineCounts(totals[q][k], c)]]
    <3>1. totals' = [totals EXCEPT ![body[b].run] =
            [totals[body[b].run] EXCEPT ![Named(n)] = combineCounts(totals[body[b].run][Named(n)], c)]]
      BY <2>1, AddsEffect
    <3> QED BY <3>1, <2>2, <2>3
  <2>5. totals \in [Runs -> [Models -> Counts]] /\ totals[r][m] \in Counts
    BY DEF Base, ProxyTypes
  <2>6. CASE r = q /\ m = k
    <3>1. totals'[r][m] = combineCounts(totals[r][m], c) /\ Valid(vendor[r], c)
      BY <2>1, <2>2, <2>4, <2>5, <2>6 DEF Adds
    <3> QED BY <3>1, <2>5, WithinSum
  <2>7. CASE ~(r = q /\ m = k)
    <3>1. totals'[r][m] = totals[r][m]
      BY <2>4, <2>5, <2>7
    <3> QED BY <3>1
  <2> QED BY <2>6, <2>7
<1> QED BY <1>1, <1>2, TotalsStep, Zenon

LEMMA VendorStays == ASSUME Base, [Next]_vars PROVE vendor' = vendor
<1>1. CASE \E b \in Responses : wrapResponseBody(b) \/ handleLine(b) \/ persistLocked(b) \/ Empties(b)
  BY <1>1 DEF wrapResponseBody, handleLine, persistLocked, Empties
<1>2. CASE \E b \in Responses : Recording(b) /\ \E kinds \in {{"parse"}, {"noUsage"}}, arr \in Arrivals : Drops(b, kinds, arr)
  BY <1>2 DEF Drops, Drop
<1>3. CASE \E b \in Responses : Recording(b) /\ \E m \in Models \cup {""}, c \in Counts, arr \in Arrivals : Adds(b, m, c, arr)
  BY <1>3 DEF Adds, Add
<1>4. CASE HostNext
  BY <1>4, HostKeeps
<1>5. CASE UNCHANGED vars
  BY <1>5 DEF vars
<1> QED BY <1>1, <1>2, <1>3, <1>4, <1>5, StepCases, Zenon

LEMMA SpendStep ==
  ASSUME Base, SpendInv, [Next]_vars PROVE SpendInv'
<1> SUFFICES ASSUME NEW r \in Runs
             PROVE  /\ \A m \in Models : Within(vendor[r], usageJSON'[r].tokens[m], totals'[r][m])
                    /\ AtMost(usageJSON'[r].dropped, dropped'[r])
  BY VendorStays DEF SpendInv
<1>0. /\ \A m \in Models : Within(vendor[r], usageJSON[r].tokens[m], totals[r][m])
      /\ AtMost(usageJSON[r].dropped, dropped[r])
  BY DEF SpendInv
<1>1. /\ usageJSON[r] \in Files /\ usageJSON[r].tokens \in [Models -> Counts] /\ totals[r] \in [Models -> Counts]
      /\ dropped[r] \in DropCounts /\ usageJSON[r].dropped \in DropCounts
  <2>1. usageJSON[r] \in Files
    BY DEF Base, ProxyTypes
  <2> QED BY <2>1 DEF Base, ProxyTypes, Files
<1>2. dropped'[r] \in DropCounts
  BY BaseStep DEF Base, ProxyTypes
<1>3. AtMost(dropped[r], dropped'[r])
  BY DroppedStep
<1>4. CASE usageJSON'[r] = usageJSON[r]
  <2>1. \A m \in Models : Within(vendor[r], usageJSON[r].tokens[m], totals'[r][m])
    BY <1>0, <1>1, TotalsGrow
  <2>2. AtMost(usageJSON[r].dropped, dropped'[r])
    BY <1>0, <1>1, <1>2, <1>3 DEF AtMost, DropCounts
  <2> QED BY <2>1, <2>2, <1>4
<1>5. CASE usageJSON'[r] = [tokens |-> totals[r], dropped |-> dropped'[r]]
  <2>1. usageJSON'[r].tokens = totals[r] /\ usageJSON'[r].dropped = dropped'[r]
    BY <1>5
  <2>2. \A m \in Models : Within(vendor[r], totals[r][m], totals'[r][m])
    BY <1>1, TotalsGrow, WithinItself
  <2>3. AtMost(dropped'[r], dropped'[r])
    BY <1>2 DEF AtMost, DropCounts
  <2> QED BY <2>1, <2>2, <2>3
<1> QED BY <1>4, <1>5, JsonStep

\* usage.json is the snapshot of a tracker at rest whose writes did not fail.
LEMMA SnapshotStep ==
  ASSUME Base, SnapshotInv, [Next]_vars PROVE SnapshotInv'
<1> SUFFICES ASSUME NEW r \in Runs, lock'[r] = 0, <<"usage", r>> \notin failed'
             PROVE  usageJSON'[r] = [tokens |-> totals'[r], dropped |-> dropped'[r]]
  BY DEF SnapshotInv, Snapshot
<1>0. <<"usage", r>> \notin failed
  BY FailedGrows
<1>t. /\ lock \in [Runs -> Responses \cup {0}] /\ usageJSON \in [Runs -> Files]
      /\ totals \in [Runs -> [Models -> Counts]] /\ dropped \in [Runs -> DropCounts]
  BY DEF Base, ProxyTypes
<1>k. ASSUME UNCHANGED <<lock, usageJSON, totals, dropped>> PROVE usageJSON'[r] = [tokens |-> totals'[r], dropped |-> dropped'[r]]
  BY <1>0, <1>k DEF SnapshotInv, Snapshot
<1>1. CASE \E b \in Responses : wrapResponseBody(b)
  BY <1>1, <1>k DEF wrapResponseBody
<1>2. CASE \E b \in Responses : handleLine(b)
  BY <1>2, <1>k DEF handleLine
<1>3. CASE \E b \in Responses : Recording(b) /\ \E m \in Models \cup {""}, c \in Counts, arr \in Arrivals : Adds(b, m, c, arr)
  <2>1. PICK b \in Responses, m \in Models \cup {""}, c \in Counts, arr \in Arrivals : Adds(b, m, c, arr)
    BY <1>3
  <2>2. PICK q \in Runs : q = body[b].run
    BY BodyAt
  <2>3. lock' = [lock EXCEPT ![q] = b] /\ b # 0
    <3>1. lock' = [lock EXCEPT ![body[b].run] = b]
      BY <2>1, AddsEffect
    <3>2. b # 0
      <4>1. 0 \notin Responses /\ b \in Responses
        BY LockType
      <4> QED BY <4>1
    <3> QED BY <3>1, <3>2, <2>2
  <2>4. q # r /\ lock[r] = 0
    BY <2>3, <1>t
  <2>5. UNCHANGED <<dropped, usageJSON>>
    BY <2>1 DEF Adds, Add
  <2>6. PICK T : totals' = [totals EXCEPT ![q] = T]
    <3>1. PICK T : totals' = [totals EXCEPT ![body[b].run] = T]
      BY <2>1, AddsEffect
    <3> QED BY <3>1, <2>2
  <2>7. totals'[r] = totals[r]
    BY <2>4, <2>6, <1>t
  <2> QED BY <2>4, <2>5, <2>7, <1>0 DEF SnapshotInv, Snapshot
<1>4. CASE \E b \in Responses : Recording(b) /\ \E kinds \in {{"parse"}, {"noUsage"}}, arr \in Arrivals : Drops(b, kinds, arr)
  <2>1. PICK b \in Responses, kinds \in {{"parse"}, {"noUsage"}}, arr \in Arrivals : Drops(b, kinds, arr)
    BY <1>4
  <2>2. PICK q \in Runs : q = body[b].run
    BY BodyAt
  <2>3. dropped' = [dropped EXCEPT ![q] = dropped'[q]] /\ WriteUsageAtomic(q, dropped'[q])
    BY <2>1, <2>2, DropsEffect
  <2>4. UNCHANGED <<lock, totals>>
    BY <2>1 DEF Drops, Drop
  <2>5. \/ usageJSON' = usageJSON /\ failed' = failed \cup {<<"usage", q>>}
        \/ usageJSON' = [usageJSON EXCEPT ![q] = [tokens |-> totals[q], dropped |-> dropped'[q]]]
    BY <2>3, WriteEffect
  <2>6. CASE q = r
    <3>1. usageJSON' = [usageJSON EXCEPT ![r] = [tokens |-> totals[r], dropped |-> dropped'[r]]]
      BY <2>5, <2>6
    <3> QED BY <3>1, <2>4, <1>t
  <2>7. CASE q # r
    <3>1. usageJSON'[r] = usageJSON[r] /\ dropped'[r] = dropped[r]
      BY <2>3, <2>5, <2>7, <1>t
    <3> QED BY <3>1, <2>4, <1>0 DEF SnapshotInv, Snapshot
  <2> QED BY <2>6, <2>7
<1>5. CASE \E b \in Responses : Recording(b) /\ Empties(b)
  BY <1>5, <1>k DEF Empties
<1>6. CASE \E b \in Responses : persistLocked(b)
  <2>1. PICK b \in Responses : persistLocked(b)
    BY <1>6
  <2>2. PICK q \in Runs : q = body[b].run
    BY BodyAt
  <2>3. WriteUsageAtomic(q, dropped[q]) /\ UNCHANGED <<dropped, totals>> /\ lock' = [lock EXCEPT ![q] = 0]
    BY <2>1, <2>2 DEF persistLocked
  <2>4. \/ usageJSON' = usageJSON /\ failed' = failed \cup {<<"usage", q>>}
        \/ usageJSON' = [usageJSON EXCEPT ![q] = [tokens |-> totals[q], dropped |-> dropped[q]]]
    BY <2>3, WriteEffect
  <2>5. CASE q = r
    <3>1. usageJSON' = [usageJSON EXCEPT ![r] = [tokens |-> totals[r], dropped |-> dropped[r]]]
      BY <2>4, <2>5
    <3> QED BY <3>1, <2>3, <1>t
  <2>6. CASE q # r
    <3>1. usageJSON'[r] = usageJSON[r] /\ lock[r] = 0
      BY <2>3, <2>4, <2>6, <1>t
    <3> QED BY <3>1, <2>3, <1>0 DEF SnapshotInv, Snapshot
  <2> QED BY <2>5, <2>6
<1>7. CASE HostNext
  BY <1>7, <1>k, HostKeeps
<1>8. CASE UNCHANGED vars
  BY <1>8, <1>k DEF vars, proxyVars
<1> QED BY <1>1, <1>2, <1>3, <1>4, <1>5, <1>6, <1>7, <1>8, StepCases, Zenon

\* The log adds up to the totals.
LEMMA LogSumStep ==
  ASSUME Base, LogSumInv, [Next]_vars PROVE LogSumInv'
<1> SUFFICES ASSUME NEW r \in Runs, AllLogged(r)', NEW m \in Models, NEW k \in Fields
             PROVE  readPerModelTokens(usageLog'[r])[m][k] = normalizeTokens(vendor[r], totals'[r][m])[k]
  BY VendorStays DEF LogSumInv
<1>0. readPerModelTokens(usageLog[r])[m][k] = normalizeTokens(vendor[r], totals[r][m])[k]
  BY LoggedBefore DEF LogSumInv
<1>t. /\ usageLog \in [Runs -> Seq(LogLine)] /\ totals \in [Runs -> [Models -> Counts]]
      /\ totals[r][m] \in Counts
  BY DEF Base, ProxyTypes
<1>1. CASE UNCHANGED <<totals, usageLog>>
  BY <1>0, <1>1
<1>2. CASE \E b \in Responses : Recording(b) /\ \E n \in Models \cup {""}, c \in Counts, arr \in Arrivals : Adds(b, n, c, arr)
  <2>1. PICK b \in Responses, n \in Models \cup {""}, c \in Counts, arr \in Arrivals : Adds(b, n, c, arr)
    BY <1>2
  <2>2. PICK q \in Runs : q = body[b].run
    BY BodyAt
  <2>3. PICK j \in Models : j = Named(n)
    BY <2>1, AddsEffect
  <2>l. PICK l \in LogLine : l = LineFor(b, n, c)
    BY <2>1, AddsEffect
  <2>4. totals' = [totals EXCEPT ![q] = [totals[q] EXCEPT ![j] = combineCounts(totals[q][j], c)]]
    <3>1. totals' = [totals EXCEPT ![body[b].run] =
            [totals[body[b].run] EXCEPT ![Named(n)] = combineCounts(totals[body[b].run][Named(n)], c)]]
      BY <2>1, AddsEffect
    <3> QED BY <3>1, <2>2, <2>3
  <2>5. \/ usageLog' = usageLog /\ failed' = failed \cup {<<"line", b>>}
        \/ usageLog' = [usageLog EXCEPT ![q] = Append(usageLog[q], l)]
    <3>1. \/ usageLog' = usageLog /\ failed' = failed \cup {<<"line", b>>}
          \/ usageLog' = [usageLog EXCEPT ![body[b].run] = Append(usageLog[body[b].run], LineFor(b, n, c))]
      BY <2>1, AddsEffect
    <3> QED BY <3>1, <2>2, <2>l
  <2>6. CASE q # r
    <3>1. totals'[r] = totals[r] /\ usageLog'[r] = usageLog[r]
      BY <2>4, <2>5, <2>6, <1>t
    <3> QED BY <3>1, <1>0
  <2>7. CASE q = r
    <3>1. Close(b, "adding", arr)
      BY <2>1 DEF Adds
    <3>2. body'[b].at = "adding" /\ body'[b].run = r
      BY <3>1, <2>2, <2>7, CloseBody
    <3>3. <<"line", b>> \notin failed'
      BY <3>2 DEF AllLogged, Of
    <3>4. usageLog'[r] = Append(usageLog[r], l)
      BY <3>3, <2>5, <2>7, <1>t
    <3>5. l.model = j /\ l.tokens = normalizeTokens(vendor[r], c)
      BY <2>2, <2>3, <2>7, <2>l DEF LineFor
    <3>6. /\ l.model = m => readPerModelTokens(usageLog'[r])[m][k] = readPerModelTokens(usageLog[r])[m][k] + l.tokens[k]
          /\ l.model # m => readPerModelTokens(usageLog'[r])[m][k] = readPerModelTokens(usageLog[r])[m][k]
      <4>1. usageLog[r] \in Seq(LogLine)
        BY <1>t
      <4>2. /\ l.model = m => readPerModelTokens(Append(usageLog[r], l))[m][k] = readPerModelTokens(usageLog[r])[m][k] + l.tokens[k]
            /\ l.model # m => readPerModelTokens(Append(usageLog[r], l))[m][k] = readPerModelTokens(usageLog[r])[m][k]
        BY <4>1, ReadAppend
      <4> QED BY <4>2, <3>4
    <3>7. CASE j = m
      <4>1. totals'[r][m] = combineCounts(totals[r][m], c)
        BY <2>4, <2>7, <3>7, <1>t
      <4> DEFINE t == totals[r][m]
      <4>2. normalizeTokens(vendor[r], combineCounts(t, c))[k]
              = normalizeTokens(vendor[r], t)[k] + normalizeTokens(vendor[r], c)[k]
        <5>1. t \in Counts /\ c \in Counts
          BY <1>t
        <5> HIDE DEF t
        <5> QED BY <5>1, NormalizeSum
      <4> HIDE DEF t
      <4>3. readPerModelTokens(usageLog'[r])[m][k] = normalizeTokens(vendor[r], t)[k] + normalizeTokens(vendor[r], c)[k]
        BY <3>5, <3>6, <3>7, <1>0 DEF t
      <4> QED BY <4>1, <4>2, <4>3 DEF t
    <3>8. CASE j # m
      <4>1. totals'[r][m] = totals[r][m]
        BY <2>4, <2>7, <3>8, <1>t
      <4>2. readPerModelTokens(usageLog'[r])[m][k] = readPerModelTokens(usageLog[r])[m][k]
        BY <3>5, <3>6, <3>8
      <4> QED BY <4>1, <4>2, <1>0
    <3> QED BY <3>7, <3>8
  <2> QED BY <2>6, <2>7
<1> QED BY <1>1, <1>2, TotalsStep, Zenon

LEMMA InitWritten == Init => Written
<1> SUFFICES ASSUME Init PROVE Written
  OBVIOUS
<1>1. \A r \in Runs : /\ usageJSON[r] = [tokens |-> totals[r], dropped |-> dropped[r]]
                      /\ totals[r] = NoTokens /\ dropped[r] = NoDrops /\ usageLog[r] = <<>>
  BY DEF Init, NoFile
<1>2. \A r \in Runs : \A m \in Models : Within(vendor[r], totals[r][m], totals[r][m])
  BY <1>1, NoTokensType, WithinItself
<1>3. SpendInv
  <2>1. AtMost(NoDrops, NoDrops)
    BY DEF AtMost, NoDrops
  <2>2. \A r \in Runs : usageJSON[r].tokens = totals[r] /\ usageJSON[r].dropped = NoDrops
    <3>1. NoFile.tokens = NoTokens /\ NoFile.dropped = NoDrops
      BY DEF NoFile
    <3>2. \A r \in Runs : usageJSON[r] = NoFile /\ totals[r] = NoTokens
      BY DEF Init
    <3> QED BY <3>1, <3>2
  <2> QED BY <1>1, <1>2, <2>1, <2>2 DEF SpendInv
<1>4. SnapshotInv
  BY <1>1 DEF SnapshotInv, Snapshot
<1>5. LogSumInv
  <2>1. ASSUME NEW r \in Runs, NEW m \in Models, NEW k \in Fields
        PROVE  readPerModelTokens(usageLog[r])[m][k] = normalizeTokens(vendor[r], totals[r][m])[k]
    <3>1. totals[r][m] = Zero /\ Zero \in Counts /\ Zero[k] = 0
      BY <1>1, CountsShape DEF NoTokens
    <3>2. \A v : normalizeTokens(v, Zero)[k] = 0
      BY <3>1, NormalizeType
    <3>3. readPerModelTokens(usageLog[r])[m][k] = 0
      BY <1>1, ReadEmpty
    <3> QED BY <3>1, <3>2, <3>3
  <2> QED BY <2>1 DEF LogSumInv
<1> QED BY <1>3, <1>4, <1>5, InitTracked DEF Written

LEMMA WrittenStep == ASSUME Written, [Next]_vars PROVE Written'
<1>1. Tracked /\ Base /\ SpendInv /\ SnapshotInv /\ LogSumInv
  BY DEF Written, Tracked
<1>2. Tracked'
  BY <1>1, TrackedStep
<1>3. SpendInv' /\ SnapshotInv' /\ LogSumInv'
  BY <1>1, SpendStep, SnapshotStep, LogSumStep, Zenon
<1> QED BY <1>2, <1>3 DEF Written

LEMMA AlwaysWritten == Spec => []Written
<1>1. Written /\ [Next]_vars => Written'
  BY WrittenStep
<1> QED BY <1>1, InitWritten, PTL DEF Spec

\* A tracker at rest has written all that it knows, and its log adds up to it.
LEMMA RestIsWrittenHolds == Written => RestIsWritten
<1> SUFFICES ASSUME Written, NEW r \in Runs, lock[r] = 0
             PROVE  /\ <<"usage", r>> \notin failed => usageJSON[r] = [tokens |-> totals[r], dropped |-> dropped[r]]
                    /\ AllLogged(r) => readPerModelTokens(usageLog[r]) = [m \in Models |-> normalizeTokens(vendor[r], totals[r][m])]
  BY DEF RestIsWritten, AllLogged
<1>1. <<"usage", r>> \notin failed => usageJSON[r] = [tokens |-> totals[r], dropped |-> dropped[r]]
  BY DEF Written, SnapshotInv, Snapshot
<1>2. ASSUME AllLogged(r)
      PROVE  readPerModelTokens(usageLog[r]) = [m \in Models |-> normalizeTokens(vendor[r], totals[r][m])]
  <2>1. usageLog[r] \in Seq(LogLine) /\ totals[r] \in [Models -> Counts]
    BY DEF Written, Tracked, Base, ProxyTypes
  <2>2. readPerModelTokens(usageLog[r]) \in [Models -> Counts]
    BY <2>1, ReadIs
  <2>3. ASSUME NEW m \in Models PROVE readPerModelTokens(usageLog[r])[m] = normalizeTokens(vendor[r], totals[r][m])
    <3>1. \A k \in Fields : readPerModelTokens(usageLog[r])[m][k] = normalizeTokens(vendor[r], totals[r][m])[k]
      BY <1>2 DEF Written, LogSumInv
    <3>2. totals[r][m] \in Counts
      BY <2>1
    <3>3. normalizeTokens(vendor[r], totals[r][m]) \in Counts
      BY <3>2, NormalizeType
    <3> QED BY <3>1, <3>3, <2>2, CountsExt
  <2> QED BY <2>2, <2>3
<1> QED BY <1>1, <1>2

LEMMA SpendRises ==
  ASSUME Written, [Next]_vars, NEW r \in Runs
  PROVE  /\ Cost(r, usageJSON[r]) <= Cost(r, usageJSON'[r])
         /\ AtMost(usageJSON[r].dropped, usageJSON'[r].dropped)
<1>0. Base /\ SpendInv
  BY DEF Written, Tracked
<1>1. /\ usageJSON[r].tokens \in [Models -> Counts] /\ totals[r] \in [Models -> Counts]
      /\ usageJSON[r].dropped \in DropCounts /\ dropped[r] \in DropCounts /\ vendor[r] \in Vendors
  <2>1. usageJSON[r] \in Files
    BY <1>0 DEF Base, ProxyTypes
  <2> QED BY <2>1, <1>0 DEF Base, ProxyTypes, Files
<1>2. dropped'[r] \in DropCounts
  BY <1>0, BaseStep DEF Base, ProxyTypes
<1>3. \A m \in Models : Valid(vendor[r], totals[r][m]) /\ Valid(vendor[r], usageJSON[r].tokens[m])
  BY <1>0 DEF Base, PriceInv
<1>4. CASE usageJSON'[r] = usageJSON[r]
  <2>1. Cost(r, usageJSON[r]) \in Nat
    BY <1>1, <1>3, CostNat
  <2>2. AtMost(usageJSON[r].dropped, usageJSON[r].dropped)
    BY <1>1 DEF AtMost, DropCounts
  <2> QED BY <1>4, <2>1, <2>2
<1>5. CASE usageJSON'[r] = [tokens |-> totals[r], dropped |-> dropped'[r]] /\ AtMost(dropped[r], dropped'[r])
  <2> DEFINE F == usageJSON[r]
             G == usageJSON'[r]
  <2>1. G.tokens = totals[r] /\ G.dropped = dropped'[r]
    BY <1>5
  <2>2. \A m \in Models : Within(vendor[r], F.tokens[m], G.tokens[m])
    BY <1>0, <2>1 DEF SpendInv
  <2> HIDE DEF G
  <2>3. Cost(r, F) <= Cost(r, G)
    BY <1>1, <1>3, <2>1, <2>2, CostMonotone
  <2>4. AtMost(F.dropped, dropped[r])
    BY <1>0 DEF SpendInv
  <2>5. AtMost(F.dropped, G.dropped)
    BY <1>1, <1>2, <1>5, <2>1, <2>4 DEF AtMost, DropCounts
  <2> QED BY <2>3, <2>5 DEF G
<1> QED BY <1>0, <1>4, <1>5, JsonStep

\* What usage.json says was spent never falls, and neither do its drops (persistLocked,
\* WriteUsageAtomic).
THEOREM SpendNeverFallsHolds == Spec => SpendNeverFalls
<1> DEFINE Rises == \A r \in Runs : usageJSON'[r] # usageJSON[r] =>
                       /\ Cost(r, usageJSON[r]) <= Cost(r, usageJSON'[r])
                       /\ AtMost(usageJSON[r].dropped, usageJSON'[r].dropped)
<1>1. Written /\ [Next]_vars => [Rises]_vars
  BY SpendRises
<1> HIDE DEF Rises
<1>2. [][Rises]_vars => SpendNeverFalls
  BY DEF SpendNeverFalls, Rises
<1> QED BY <1>1, <1>2, AlwaysWritten, PTL DEF Spec

-------------------------------------------------------------------------------
(* The transcript *)

\* The responses of r whose last word the agent saw.
Seen(r) == {b \in Of(r) : body[b].sse /\ body[b].arrived = "whole"}

Entry(b, at, stop, n, agent) == [request |-> b, at |-> at, stop |-> stop, output |-> n, agent |-> agent]

\* The two entries of a response that have a stop reason.
Early(b) == Entry(b, 2, TRUE, 1, "")
Late(b)  == Entry(b, 3, TRUE, body[b].usage.output, body[b].agent)

\* The entries with a stop reason are those of the responses that the agent saw whole.
LEMMA TranscriptIs ==
  ASSUME NEW r, NEW e
  PROVE  e \in parseTranscriptJSONL(Transcript(r)) <=> \E b \in Seen(r) : e \in {Early(b), Late(b)}
<1> DEFINE T(b) == IF body[b].arrived = "whole" /\ body[b].sse
                   THEN {Entry(b, 1, FALSE, 1, ""), Entry(b, 2, TRUE, 1, ""),
                         Entry(b, 3, TRUE, body[b].usage.output, body[b].agent)}
                   ELSE {Entry(b, 1, FALSE, 1, "")}
<1>1. Transcript(r) = UNION {T(b) : b \in Of(r)}
  BY DEF Transcript, Entry
<1>2. \A b : \A x \in T(b) : x.stop <=>
        body[b].arrived = "whole" /\ body[b].sse /\ x \in {Early(b), Late(b)}
  <2> SUFFICES ASSUME NEW b, NEW x \in T(b)
               PROVE  x.stop <=> body[b].arrived = "whole" /\ body[b].sse /\ x \in {Early(b), Late(b)}
    OBVIOUS
  <2>1. Entry(b, 1, FALSE, 1, "").stop = FALSE /\ Early(b).stop = TRUE /\ Late(b).stop = TRUE
    BY DEF Entry, Early, Late
  <2>2. CASE body[b].arrived = "whole" /\ body[b].sse
    <3>1. x \in {Entry(b, 1, FALSE, 1, ""), Early(b), Late(b)}
      BY <2>2 DEF Early, Late
    <3> QED BY <2>1, <2>2, <3>1
  <2>3. CASE ~(body[b].arrived = "whole" /\ body[b].sse)
    BY <2>1, <2>3
  <2> QED BY <2>2, <2>3
<1>3. \A b : body[b].arrived = "whole" /\ body[b].sse => {Early(b), Late(b)} \subseteq T(b)
  BY DEF Early, Late
<1> HIDE DEF T
<1>4. e \in Transcript(r) <=> \E b \in Of(r) : e \in T(b)
  BY <1>1
<1> QED BY <1>2, <1>3, <1>4 DEF parseTranscriptJSONL, Seen

\* Whose the records are: of responses that the agent saw, with their name or none; all of
\* them with their name, but for those of one token.
Theirs(r, A) ==
  \A a \in A : a.request \in Seen(r) /\ (a.agent = "" \/ a.agent = body[a.request].agent)
AllTheirs(r, A) ==
  \A b \in Seen(r) : body[b].usage.output > 1 =>
    /\ \E a \in A : a.request = b
    /\ \A a \in A : a.request = b => a.agent = body[b].agent

LEMMA DistillIs ==
  ASSUME Base, NEW r \in Runs, NEW read \in SUBSET Transcript(r)
  PROVE  /\ \A a \in distillAttribution(read) : \E b \in Seen(r) :
              a = [request |-> b, agent |-> ""] \/ a = [request |-> b, agent |-> body[b].agent]
         /\ Theirs(r, distillAttribution(read))
         /\ read = Transcript(r) => AllTheirs(r, distillAttribution(read))
<1> DEFINE P == parseTranscriptJSONL(read)
           Kept(e) == \A other \in P : other.request = e.request => keeps(e, other)
           Who(e) == [request |-> e.request, agent |-> e.agent]
           A == distillAttribution(read)
<1>1. \A e \in P : \E b \in Seen(r) : e = Early(b) \/ e = Late(b)
  <2>1. P \subseteq parseTranscriptJSONL(Transcript(r))
    BY DEF parseTranscriptJSONL
  <2> QED BY <2>1, TranscriptIs
<1>2. \A b : /\ Early(b).request = b /\ Early(b).output = 1 /\ Early(b).agent = "" /\ Early(b).at = 2
             /\ Late(b).request = b /\ Late(b).output = body[b].usage.output /\ Late(b).agent = body[b].agent
             /\ Late(b).at = 3
  BY DEF Early, Late, Entry
<1>3. A = {Who(e) : e \in {e \in P : Kept(e)}}
  BY DEF distillAttribution
<1> HIDE DEF A, P
<1>4. \A a : a \in A <=> \E e \in P : Kept(e) /\ a = Who(e)
  BY <1>3
<1>5. \A a \in A : \E b \in Seen(r) : a = Who(Early(b)) \/ a = Who(Late(b))
  BY <1>1, <1>4
<1>6. \A b : Who(Early(b)) = [request |-> b, agent |-> ""] /\ Who(Late(b)) = [request |-> b, agent |-> body[b].agent]
  BY <1>2
<1>7. \A a \in A : \E b \in Seen(r) :
        a = [request |-> b, agent |-> ""] \/ a = [request |-> b, agent |-> body[b].agent]
  <2> SUFFICES ASSUME NEW a \in A
               PROVE  \E b \in Seen(r) : a = [request |-> b, agent |-> ""] \/ a = [request |-> b, agent |-> body[b].agent]
    OBVIOUS
  <2>1. PICK b \in Seen(r) : a = Who(Early(b)) \/ a = Who(Late(b))
    BY <1>5
  <2>2. a = [request |-> b, agent |-> ""] \/ a = [request |-> b, agent |-> body[b].agent]
    BY <1>6, <2>1
  <2> QED BY <2>2
<1>8. Theirs(r, A)
  <2> SUFFICES ASSUME NEW a \in A
               PROVE  a.request \in Seen(r) /\ (a.agent = "" \/ a.agent = body[a.request].agent)
    BY DEF Theirs
  <2>1. PICK b \in Seen(r) : a = [request |-> b, agent |-> ""] \/ a = [request |-> b, agent |-> body[b].agent]
    BY <1>7
  <2>2. PICK name : a = [request |-> b, agent |-> name] /\ (name = "" \/ name = body[b].agent)
    BY <2>1
  <2>3. a.request = b /\ a.agent = name
    BY <2>2
  <2> QED BY <2>2, <2>3
<1>9. ASSUME read = Transcript(r), NEW b \in Seen(r), body[b].usage.output > 1
      PROVE  /\ \E a \in A : a.request = b
             /\ \A a \in A : a.request = b => a.agent = body[b].agent
  <2>0. body[b].usage.output \in Nat
    <3>1. b \in Responses /\ body[b].sse /\ body[b].at # "none"
      BY DEF Seen, Of
    <3>2. body[b].usage \in Counts
      BY <3>1 DEF Base, StreamInv, AnswerOK
    <3>3. "output" \in Fields
      BY DEF Fields
    <3> QED BY <3>2, <3>3, CountsShape
  <2>1. Early(b) \in P /\ Late(b) \in P
    BY <1>9, TranscriptIs DEF P
  <2>2. \A e \in P : e.request = b => e = Early(b) \/ e = Late(b)
    <3> SUFFICES ASSUME NEW e \in P, e.request = b PROVE e = Early(b) \/ e = Late(b)
      OBVIOUS
    <3>1. PICK c \in Seen(r) : e = Early(c) \/ e = Late(c)
      BY <1>1
    <3>2. e.request = c
      BY <1>2, <3>1
    <3> QED BY <3>1, <3>2
  <2>3. keeps(Late(b), Early(b)) /\ keeps(Late(b), Late(b)) /\ ~keeps(Early(b), Late(b))
    <3>1. PICK n \in Nat : n = body[b].usage.output /\ n > 1
      BY <1>9, <2>0
    <3>2. Early(b).output = 1 /\ Early(b).at = 2 /\ Late(b).output = n /\ Late(b).at = 3
      BY <1>2, <3>1
    <3> QED BY <3>1, <3>2 DEF keeps
  <2>4. Kept(Late(b)) /\ ~Kept(Early(b))
    BY <1>2, <2>1, <2>2, <2>3
  <2>5. Who(Late(b)) \in A
    BY <1>4, <2>1, <2>4
  <2>6. ASSUME NEW a \in A, a.request = b PROVE a.agent = body[b].agent
    <3>1. PICK e \in P : Kept(e) /\ a = Who(e)
      BY <1>4
    <3>2. e.request = b /\ a.agent = e.agent
      BY <2>6, <3>1
    <3>3. e = Late(b)
      BY <2>2, <2>4, <3>1, <3>2
    <3> QED BY <1>2, <3>2, <3>3
  <2>7. Who(Late(b)).request = b
    BY <1>2
  <2> QED BY <2>5, <2>6, <2>7
<1>10. read = Transcript(r) => AllTheirs(r, A)
  BY <1>9 DEF AllTheirs
<1> QED BY <1>7, <1>8, <1>10 DEF A

-------------------------------------------------------------------------------
(* The host *)

Phases      == {"none", "running", "usage.json", "log", "finish", "done"}
Authors     == SUBSET [request : Responses, agent : AgentNames]
ResultsType == [written : BOOLEAN, total : Nat, tokens : [Models -> Counts], children : SUBSET Runs]
OutType     == [usageJSON : Files, usageLog : Seq(LogLine), attribution : Authors, results : ResultsType]

HostTypes ==
  /\ host \in [Runs -> Phases] /\ own \in [Runs -> Nat] /\ out \in [Runs -> OutType]
  /\ found \in [Runs -> SUBSET Runs]
  /\ \A r \in Runs : \A m \in Models : Valid(vendor[r], out[r].usageJSON.tokens[m])

LEMMA OutAt ==
  ASSUME HostTypes, NEW r \in Runs
  PROVE  /\ out[r] \in OutType /\ host[r] \in Phases /\ own[r] \in Nat /\ found[r] \in SUBSET Runs
         /\ out[r].usageJSON \in Files /\ out[r].usageJSON.tokens \in [Models -> Counts]
         /\ out[r].usageLog \in Seq(LogLine) /\ out[r].attribution \in Authors
         /\ out[r].results \in ResultsType /\ out[r].results.written \in BOOLEAN
         /\ out[r].results.total \in Nat /\ out[r].results.tokens \in [Models -> Counts]
         /\ out[r].results.children \in SUBSET Runs
<1>1. out[r] \in OutType
  BY DEF HostTypes
<1>2. out[r].usageJSON \in Files /\ out[r].results \in ResultsType
  BY <1>1 DEF OutType
<1> QED BY <1>1, <1>2 DEF OutType, ResultsType, Files, HostTypes

LEMMA RunsFinite == IsFiniteSet(Runs) /\ \A S \in SUBSET Runs : IsFiniteSet(S)
<1>1. IsFiniteSet(Runs)
  BY RunsAssumption, FS_Interval DEF Runs
<1> QED BY <1>1, FS_Subset

LEMMA PointwiseType ==
  ASSUME NEW A \in [Models -> Counts], NEW B \in [Models -> Counts]
  PROVE  /\ addPerModelTokens(A, B) \in [Models -> Counts]
         /\ \A m \in Models : \A k \in Fields : addPerModelTokens(A, B)[m][k] = A[m][k] + B[m][k]
<1>1. addPerModelTokens(A, B) = [m \in Models |-> combineCounts(A[m], B[m])]
  BY DEF addPerModelTokens, Pointwise
<1>2. \A m \in Models : /\ combineCounts(A[m], B[m]) \in Counts
                        /\ \A k \in Fields : combineCounts(A[m], B[m])[k] = A[m][k] + B[m][k]
  BY CombineType
<1> QED BY <1>1, <1>2

\* The sums over some children (sumChildResults, sumChildPerModelTokens).
LEMMA ChildSums ==
  ASSUME HostTypes, NEW K \in SUBSET Runs
  PROVE  /\ IsFiniteSet(K)
         /\ childTotal(K) = SumFunctionOnSet([c \in K |-> out[c].results.total], K)
         /\ childTotal(K) \in Nat
         /\ sumChildPerModelTokens(K) \in [Models -> Counts]
         /\ \A m \in Models : \A k \in Fields :
              sumChildPerModelTokens(K)[m][k] = SumFunctionOnSet([c \in K |-> out[c].results.tokens[m][k]], K)
<1> DEFINE f == [c \in K |-> out[c].results.total]
           T(m) == [c \in K |-> out[c].results.tokens[m]]
<1>2. IsFiniteSet(K)
  BY RunsFinite
<1>3. \A c \in K : out[c].results.total \in Nat /\ out[c].results.tokens \in [Models -> Counts]
  BY OutAt
<1>4. childTotal(K) = SumFunctionOnSet(f, K)
  BY DEF childTotal, SumFunction
<1>5. SumFunctionOnSet(f, K) \in Nat
  <2>1. \A c \in K : f[c] \in Nat
    BY <1>3
  <2> HIDE DEF f
  <2> QED BY <2>1, <1>2, SumNat
<1>6. ASSUME NEW m \in Models
      PROVE  /\ SumTokens(T(m)) \in Counts
             /\ \A k \in Fields : SumTokens(T(m))[k] = SumFunctionOnSet([c \in K |-> out[c].results.tokens[m][k]], K)
  <2> DEFINE F == T(m)
  <2>1. F \in [K -> Counts]
    BY <1>3
  <2>2. \A k \in Fields : [x \in K |-> F[x][k]] = [c \in K |-> out[c].results.tokens[m][k]]
    OBVIOUS
  <2> HIDE DEF F
  <2>3. SumTokens(F) \in Counts /\ \A k \in Fields : SumTokens(F)[k] = SumFunctionOnSet([x \in K |-> F[x][k]], K)
    BY <2>1, <1>2, TokensSum
  <2>4. \A k \in Fields : SumTokens(F)[k] = SumFunctionOnSet([c \in K |-> out[c].results.tokens[m][k]], K)
    BY <2>2, <2>3
  <2> QED BY <2>3, <2>4 DEF F
<1>7. sumChildPerModelTokens(K) = [m \in Models |-> SumTokens(T(m))]
  BY DEF sumChildPerModelTokens
<1> HIDE DEF T
<1> QED BY <1>2, <1>4, <1>5, <1>6, <1>7

LEMMA ResultsIs ==
  ASSUME HostTypes, NEW r \in Runs, NEW names \in SUBSET Runs, NEW counted \in SUBSET Runs
  PROVE  LET R == writeResults(r, names, counted)
         IN  /\ R \in ResultsType /\ R.written /\ R.children = names
             /\ R.total = own[r] + childTotal(names)
             /\ R.tokens = addPerModelTokens(readPerModelTokens(out[r].usageLog), sumChildPerModelTokens(counted))
<1> DEFINE R == writeResults(r, names, counted)
           c == own[r] + childTotal(names)
           t == addPerModelTokens(readPerModelTokens(out[r].usageLog), sumChildPerModelTokens(counted))
<1>1. c \in Nat
  <2>1. own[r] \in Nat /\ childTotal(names) \in Nat
    BY ChildSums, OutAt
  <2> QED BY <2>1
<1>2. t \in [Models -> Counts]
  BY ChildSums, OutAt, ReadIs, PointwiseType
<1>3. R = [written |-> TRUE, children |-> names, total |-> c, tokens |-> t]
  BY DEF writeResults
<1> HIDE DEF R, c, t
<1>4. R \in ResultsType /\ R.written /\ R.children = names /\ R.total = c /\ R.tokens = t
  BY <1>1, <1>2, <1>3 DEF ResultsType
<1> QED BY <1>4 DEF R, c, t

LEMMA DistillType ==
  ASSUME Base, NEW r \in Runs, NEW read \in SUBSET Transcript(r) PROVE distillAttribution(read) \in Authors
<1>1. \A b \in Seen(r) : b \in Responses /\ body[b].agent \in AgentNames /\ "" \in AgentNames
  <2>1. \A b \in Seen(r) : b \in Responses
    BY DEF Seen, Of
  <2>2. \A b \in Responses : body[b] \in Bodies
    BY DEF Base, ProxyTypes
  <2> QED BY <2>1, <2>2 DEF Bodies, AgentNames
<1> HIDE DEF AgentNames
<1> DEFINE A == distillAttribution(read)
<1>2. \A a \in A : \E b \in Seen(r) :
        a = [request |-> b, agent |-> ""] \/ a = [request |-> b, agent |-> body[b].agent]
  BY DistillIs
<1> HIDE DEF A
<1>3. ASSUME NEW a \in A PROVE a \in [request : Responses, agent : AgentNames]
  <2>1. PICK b \in Seen(r) : a = [request |-> b, agent |-> ""] \/ a = [request |-> b, agent |-> body[b].agent]
    BY <1>2
  <2>2. PICK name : a = [request |-> b, agent |-> name] /\ (name = "" \/ name = body[b].agent)
    BY <2>1
  <2>3. b \in Responses /\ name \in AgentNames
    BY <1>1, <2>2
  <2> QED BY <2>2, <2>3
<1>4. A \in Authors
  BY <1>3 DEF Authors
<1> QED BY <1>4 DEF A

\* What a step does to the host's side of the run r.
Stays(r)  == host'[r] = host[r] /\ own'[r] = own[r] /\ found'[r] = found[r] /\ out'[r] = out[r]
Moves(r, from, to) == host[r] = from /\ host'[r] = to

CopiesJSON(r) ==
  /\ Moves(r, "usage.json", "log") /\ own'[r] = own[r] /\ found'[r] = found[r]
  /\ \/ out'[r] = out[r] /\ <<"copy", r>> \in failed'
     \/ out'[r] = [out[r] EXCEPT !.usageJSON = usageJSON[r]]
CopiesLog(r) ==
  /\ Moves(r, "log", "finish") /\ own'[r] = own[r] /\ found'[r] = HaveResults(r)
  /\ \/ out'[r] = out[r] /\ <<"copy", r>> \in failed'
     \/ out'[r] = [out[r] EXCEPT !.usageLog = usageLog[r]]

\* The names that a run may end with, A: none but on Anthropic, and all of them that a
\* transcript read in full has, or some were lost.
MayAttribute(r, A) ==
  IF vendor[r] # "anthropic" THEN A = {}
  ELSE \E read \in SUBSET Transcript(r) :
         A = distillAttribution(read) /\ (read = Transcript(r) \/ <<"attribution", r>> \in failed')
Finishes(r) ==
  /\ Moves(r, "finish", "done") /\ own'[r] = own[r]
  /\ \E counted \in SUBSET HaveResults(r) : \E names \in SUBSET counted :
       /\ found[r] \subseteq names /\ found'[r] = counted
       /\ \E A : MayAttribute(r, A) /\ \E res \in {NoResults, writeResults(r, names, counted)} :
            out'[r] = [out[r] EXCEPT !.attribution = A, !.results = res]
HostMoves(r) ==
  \/ Moves(r, "none", "running") /\ own'[r] = own[r] /\ found'[r] = found[r] /\ out'[r] = out[r]
  \/ Moves(r, "running", "usage.json") /\ own'[r] = Cost(r, usageJSON[r]) /\ found'[r] = found[r] /\ out'[r] = out[r]
  \/ CopiesJSON(r) \/ CopiesLog(r) \/ Finishes(r)

\* The proxies leave the host's side alone.
LEMMA ProxyKeeps == ASSUME [Next]_vars, ~HostNext PROVE UNCHANGED <<host, own, found, out>>
<1>1. CASE \E b \in Responses : wrapResponseBody(b) \/ handleLine(b)
  BY <1>1 DEF wrapResponseBody, handleLine, hostVars
<1>2. CASE \E b \in Responses : flush(b)
  BY <1>2 DEF flush, AddDroppedNoUsageBlock, Add, Drop, hostVars
<1>3. CASE \E b \in Responses : closeJSON(b)
  BY <1>3 DEF closeJSON, AddDroppedNoUsageBlock, AddDroppedParseError, Add, Drop, hostVars
<1>4. CASE \E b \in Responses : persistLocked(b)
  BY <1>4 DEF persistLocked, hostVars
<1>5. CASE UNCHANGED vars
  BY <1>5 DEF vars, hostVars
<1> QED BY <1>1, <1>2, <1>3, <1>4, <1>5 DEF Next, HostNext

\* A step of the host is one of r or leaves r alone, and leaves the files of the proxy alone.
SidesAre ==
  /\ host' = [r \in Runs |-> host'[r]] /\ own' = [r \in Runs |-> own'[r]]
  /\ found' = [r \in Runs |-> found'[r]] /\ out' = [r \in Runs |-> out'[r]]

LEMMA HostSteps ==
  ASSUME HostTypes, [Next]_vars
  PROVE  /\ \A r \in Runs : Stays(r) \/ (HostNext /\ HostMoves(r))
         /\ SidesAre
<1>0. /\ host \in [Runs -> Phases] /\ own \in [Runs -> Nat] /\ out \in [Runs -> OutType]
      /\ found \in [Runs -> SUBSET Runs]
  BY DEF HostTypes
<1>1. CASE ~HostNext
  <2>1. UNCHANGED <<host, own, found, out>>
    BY <1>1, ProxyKeeps
  <2> QED BY <1>0, <2>1 DEF Stays, SidesAre
<1>2. CASE HostNext
  <2>1. PICK q \in Runs : Spawn(q) \/ readUsageSnapshot(q) \/ copyUsageToOut(q) \/ finishAgentRun(q)
    BY <1>2 DEF HostNext
  <2>2. CASE Spawn(q)
    <3>1. /\ host[q] = "none" /\ host' = [host EXCEPT ![q] = "running"]
          /\ own' = own /\ found' = found /\ out' = out
      BY <2>2 DEF Spawn, HostStep
    <3> QED BY <1>0, <1>2, <3>1 DEF Stays, HostMoves, Moves, SidesAre
  <2>3. CASE readUsageSnapshot(q)
    <3> DEFINE c == Cost(q, usageJSON[q])
    <3>1. /\ host[q] = "running" /\ host' = [host EXCEPT ![q] = "usage.json"]
          /\ own' = [own EXCEPT ![q] = c] /\ found' = found /\ out' = out
      BY <2>3 DEF readUsageSnapshot, HostStep
    <3> HIDE DEF c
    <3>2. own'[q] = c /\ host'[q] = "usage.json" /\ found'[q] = found[q] /\ out'[q] = out[q]
      BY <1>0, <3>1
    <3>3. HostMoves(q)
      BY <3>1, <3>2 DEF HostMoves, Moves, c
    <3>4. \A r \in Runs : r # q => Stays(r)
      BY <1>0, <3>1 DEF Stays
    <3>5. SidesAre
      BY <1>0, <3>1 DEF SidesAre
    <3> QED BY <1>2, <3>3, <3>4, <3>5
  <2>4. CASE copyUsageToOut(q)
    <3> DEFINE H == HaveResults(q)
    <3>1. PICK fails \in BOOLEAN :
            /\ Attempt(<<"copy", q>>, fails)
            /\ \/ /\ HostStep(q, "usage.json", "log")
                  /\ out' = IF fails THEN out ELSE [out EXCEPT ![q].usageJSON = usageJSON[q]]
                  /\ found' = found
               \/ /\ HostStep(q, "log", "finish")
                  /\ out' = IF fails THEN out ELSE [out EXCEPT ![q].usageLog = usageLog[q]]
                  /\ found' = [found EXCEPT ![q] = H]
      BY <2>4 DEF copyUsageToOut, CopyStep
    <3>2. own' = own
      BY <2>4 DEF copyUsageToOut
    <3>3. fails => <<"copy", q>> \in failed'
      BY <3>1 DEF Attempt
    <3> HIDE DEF H
    <3>4. CopiesJSON(q) \/ CopiesLog(q)
      BY <1>0, <3>1, <3>2, <3>3 DEF CopiesJSON, CopiesLog, Moves, HostStep, H
    <3>5. \A r \in Runs : r # q => Stays(r)
      BY <1>0, <3>1, <3>2 DEF Stays, HostStep
    <3>6. SidesAre
      BY <1>0, <3>1, <3>2 DEF HostStep, SidesAre
    <3> QED BY <1>2, <3>4, <3>5, <3>6 DEF HostMoves
  <2>5. CASE finishAgentRun(q)
    <3>a. PICK lost \in SUBSET LastWrites(q) :
            /\ failed' = failed \cup lost
            /\ \E read \in (IF <<"attribution", q>> \in lost THEN SUBSET Transcript(q) ELSE {Transcript(q)}) :
               \E counted \in SUBSET HaveResults(q) : \E names \in SUBSET counted :
                 /\ found[q] \subseteq names /\ found' = [found EXCEPT ![q] = counted]
                 /\ out' = [out EXCEPT
                      ![q].attribution = IF vendor[q] = "anthropic" THEN distillAttribution(read) ELSE {},
                      ![q].results = IF <<"results", q>> \in lost THEN NoResults ELSE writeResults(q, names, counted)]
      BY <2>5 DEF finishAgentRun
    <3>b. PICK read \in (IF <<"attribution", q>> \in lost THEN SUBSET Transcript(q) ELSE {Transcript(q)}),
               counted \in SUBSET HaveResults(q) : \E names \in SUBSET counted :
                 /\ found[q] \subseteq names /\ found' = [found EXCEPT ![q] = counted]
                 /\ out' = [out EXCEPT
                      ![q].attribution = IF vendor[q] = "anthropic" THEN distillAttribution(read) ELSE {},
                      ![q].results = IF <<"results", q>> \in lost THEN NoResults ELSE writeResults(q, names, counted)]
      BY <3>a
    <3>1. PICK names \in SUBSET counted :
            /\ found[q] \subseteq names
            /\ found' = [found EXCEPT ![q] = counted]
            /\ out' = [out EXCEPT
                 ![q].attribution = IF vendor[q] = "anthropic" THEN distillAttribution(read) ELSE {},
                 ![q].results = IF <<"results", q>> \in lost THEN NoResults ELSE writeResults(q, names, counted)]
      BY <3>b
    <3>2. host[q] = "finish" /\ host' = [host EXCEPT ![q] = "done"] /\ own' = own
      BY <2>5 DEF finishAgentRun, HostStep
    <3>3. PICK A : A = IF vendor[q] = "anthropic" THEN distillAttribution(read) ELSE {}
      OBVIOUS
    <3>4. PICK res : res = IF <<"results", q>> \in lost THEN NoResults ELSE writeResults(q, names, counted)
      OBVIOUS
    <3>5. out' = [out EXCEPT ![q].attribution = A, ![q].results = res]
      BY <3>1, <3>3, <3>4
    <3>6. MayAttribute(q, A)
      <4>1. read \in SUBSET Transcript(q) /\ (read = Transcript(q) \/ <<"attribution", q>> \in failed')
        BY <3>a, <3>b
      <4> QED BY <3>3, <4>1 DEF MayAttribute
    <3>7. res \in {NoResults, writeResults(q, names, counted)}
      BY <3>4
    <3>8. out'[q] = [out[q] EXCEPT !.attribution = A, !.results = res]
      BY <1>0, <3>5
    <3>9. found'[q] = counted
      BY <1>0, <3>1
    <3>10. Finishes(q)
      <4>1. Moves(q, "finish", "done") /\ own'[q] = own[q]
        BY <1>0, <3>2 DEF Moves
      <4>2. \E o \in {NoResults, writeResults(q, names, counted)} :
              out'[q] = [out[q] EXCEPT !.attribution = A, !.results = o]
        BY <3>7, <3>8
      <4>3. \E B : MayAttribute(q, B) /\ \E o \in {NoResults, writeResults(q, names, counted)} :
              out'[q] = [out[q] EXCEPT !.attribution = B, !.results = o]
        BY <3>6, <4>2, Zenon
      <4>4. found[q] \subseteq names /\ found'[q] = counted
        BY <3>1, <3>9
      <4> HIDE DEF Moves
      <4> QED BY <4>1, <4>3, <4>4, Zenon DEF Finishes
    <3>11. \A r \in Runs : r # q => Stays(r)
      BY <1>0, <3>1, <3>2, <3>5 DEF Stays
    <3>12. SidesAre
      BY <1>0, <3>1, <3>2, <3>5 DEF SidesAre
    <3> QED BY <1>2, <3>10, <3>11, <3>12 DEF HostMoves
  <2> QED BY <2>1, <2>2, <2>3, <2>4, <2>5
<1> QED BY <1>1, <1>2

LEMMA OutWithJSON ==
  ASSUME NEW o \in OutType, NEW F \in Files, NEW n, n = [o EXCEPT !.usageJSON = F]
  PROVE  /\ n \in OutType /\ n.usageJSON = F /\ n.usageLog = o.usageLog
         /\ n.attribution = o.attribution /\ n.results = o.results
BY DEF OutType

LEMMA OutWithLog ==
  ASSUME NEW o \in OutType, NEW L \in Seq(LogLine), NEW n, n = [o EXCEPT !.usageLog = L]
  PROVE  /\ n \in OutType /\ n.usageLog = L /\ n.usageJSON = o.usageJSON
         /\ n.attribution = o.attribution /\ n.results = o.results
BY DEF OutType

LEMMA NoOutType ==
  /\ NoResults \in ResultsType /\ NoFile \in Files /\ NoOut \in OutType
  /\ NoOut.usageJSON = NoFile /\ NoOut.usageLog = <<>> /\ NoOut.attribution = {} /\ NoOut.results = NoResults
  /\ NoResults.written = FALSE /\ NoFile.tokens = NoTokens
<1>1. NoResults \in ResultsType /\ NoResults.written = FALSE
  BY NoTokensType DEF NoResults, ResultsType
<1>2. NoFile \in Files /\ NoFile.tokens = NoTokens
  BY NoTokensType DEF NoFile, Files, NoDrops, DropCounts
<1>3. {} \in Authors
  BY DEF Authors
<1>4. <<>> \in Seq(LogLine)
  OBVIOUS
<1> HIDE DEF Authors
<1>5. NoOut \in OutType /\ NoOut.usageJSON = NoFile /\ NoOut.usageLog = <<>> /\ NoOut.attribution = {} /\ NoOut.results = NoResults
  BY <1>1, <1>2, <1>3, <1>4 DEF NoOut, OutType
<1> QED BY <1>1, <1>2, <1>5

LEMMA InitHostTypes == Init => HostTypes
<1> SUFFICES ASSUME Init PROVE HostTypes
  OBVIOUS
<1>1. host \in [Runs -> Phases] /\ own \in [Runs -> Nat] /\ found \in [Runs -> SUBSET Runs]
  BY DEF Init, Phases
<1>2. out = [r \in Runs |-> NoOut]
  BY DEF Init
<1>3. out \in [Runs -> OutType]
  BY <1>2, NoOutType
<1>4. \A r \in Runs : \A m \in Models : Valid(vendor[r], out[r].usageJSON.tokens[m])
  BY <1>2, NoOutType, NoTokensType
<1> QED BY <1>1, <1>3, <1>4 DEF HostTypes

\* What the end of a run puts in its /out.
LEMMA FinishIs ==
  ASSUME Base, HostTypes, NEW r \in Runs, Finishes(r)
  PROVE  /\ out'[r] \in OutType
         /\ out'[r].usageJSON = out[r].usageJSON /\ out'[r].usageLog = out[r].usageLog
         /\ MayAttribute(r, out'[r].attribution)
         /\ \E counted \in SUBSET HaveResults(r) : \E names \in SUBSET counted :
              /\ found[r] \subseteq names /\ found'[r] = counted
              /\ out'[r].results = NoResults \/ out'[r].results = writeResults(r, names, counted)
<1>1. PICK counted \in SUBSET HaveResults(r) : \E names \in SUBSET counted :
        /\ found[r] \subseteq names /\ found'[r] = counted
        /\ \E A : MayAttribute(r, A) /\ \E res \in {NoResults, writeResults(r, names, counted)} :
             out'[r] = [out[r] EXCEPT !.attribution = A, !.results = res]
  BY DEF Finishes
<1>2. PICK names \in SUBSET counted :
        /\ found[r] \subseteq names /\ found'[r] = counted
        /\ \E A : MayAttribute(r, A) /\ \E res \in {NoResults, writeResults(r, names, counted)} :
             out'[r] = [out[r] EXCEPT !.attribution = A, !.results = res]
  BY <1>1
<1>3. PICK A : MayAttribute(r, A) /\ \E res \in {NoResults, writeResults(r, names, counted)} :
                 out'[r] = [out[r] EXCEPT !.attribution = A, !.results = res]
  BY <1>2
<1>4. PICK res \in {NoResults, writeResults(r, names, counted)} :
        out'[r] = [out[r] EXCEPT !.attribution = A, !.results = res]
  BY <1>3
<1>5. A \in Authors
  <2>1. CASE vendor[r] # "anthropic"
    <3>1. A = {}
      BY <1>3, <2>1 DEF MayAttribute
    <3> QED BY <3>1 DEF Authors
  <2>2. CASE vendor[r] = "anthropic"
    <3>1. PICK read \in SUBSET Transcript(r) : A = distillAttribution(read)
      BY <1>3, <2>2 DEF MayAttribute
    <3> QED BY <3>1, DistillType
  <2> QED BY <2>1, <2>2
<1>6. counted \in SUBSET Runs /\ names \in SUBSET Runs
  BY DEF HaveResults
<1>7. res \in ResultsType
  BY <1>4, <1>6, NoOutType, ResultsIs
<1>8. out[r] \in OutType
  BY OutAt
<1>9. /\ out'[r] \in OutType /\ out'[r].usageJSON = out[r].usageJSON /\ out'[r].usageLog = out[r].usageLog
      /\ out'[r].attribution = A /\ out'[r].results = res
  BY <1>4, <1>5, <1>7, <1>8 DEF OutType
<1>10. MayAttribute(r, out'[r].attribution)
  BY <1>3, <1>9
<1>11. out'[r].results = NoResults \/ out'[r].results = writeResults(r, names, counted)
  BY <1>4, <1>9
<1> QED BY <1>2, <1>9, <1>10, <1>11

LEMMA HostTypesStep ==
  ASSUME Base, HostTypes, [Next]_vars PROVE HostTypes'
<1>0. vendor' = vendor
  BY VendorStays
<1>1. ASSUME NEW r \in Runs
      PROVE  /\ host'[r] \in Phases /\ own'[r] \in Nat /\ out'[r] \in OutType /\ found'[r] \in SUBSET Runs
             /\ \A m \in Models : Valid(vendor[r], out'[r].usageJSON.tokens[m])
  <2>0. HaveResults(r) \in SUBSET Runs
    BY DEF HaveResults
  <2>1. /\ host[r] \in Phases /\ own[r] \in Nat /\ out[r] \in OutType /\ found[r] \in SUBSET Runs
        /\ \A m \in Models : Valid(vendor[r], out[r].usageJSON.tokens[m])
    BY OutAt DEF HostTypes
  <2>2. usageJSON[r] \in Files /\ usageLog[r] \in Seq(LogLine) /\ vendor[r] \in Vendors
    BY DEF Base, ProxyTypes
  <2>3. \A m \in Models : Valid(vendor[r], usageJSON[r].tokens[m])
    BY DEF Base, PriceInv
  <2>4. CASE Stays(r)
    BY <2>1, <2>4 DEF Stays
  <2>5. CASE Moves(r, "none", "running") /\ own'[r] = own[r] /\ found'[r] = found[r] /\ out'[r] = out[r]
    BY <2>1, <2>5 DEF Moves, Phases
  <2>6. CASE /\ Moves(r, "running", "usage.json") /\ own'[r] = Cost(r, usageJSON[r])
             /\ found'[r] = found[r] /\ out'[r] = out[r]
    <3>1. usageJSON[r].tokens \in [Models -> Counts]
      BY <2>2 DEF Files
    <3>2. Cost(r, usageJSON[r]) \in Nat
      BY <3>1, <2>2, <2>3, CostNat
    <3> QED BY <2>1, <2>6, <3>2 DEF Moves, Phases
  <2>7. CASE CopiesJSON(r)
    <3>1. host'[r] \in Phases /\ own'[r] \in Nat /\ found'[r] \in SUBSET Runs
      BY <2>1, <2>7 DEF CopiesJSON, Moves, Phases
    <3>2. out'[r] = out[r] \/ out'[r] = [out[r] EXCEPT !.usageJSON = usageJSON[r]]
      BY <2>7 DEF CopiesJSON
    <3> QED BY <3>1, <3>2, <2>1, <2>2, <2>3, OutWithJSON
  <2>8. CASE CopiesLog(r)
    <3>1. host'[r] \in Phases /\ own'[r] \in Nat /\ found'[r] \in SUBSET Runs
      BY <2>0, <2>1, <2>8 DEF CopiesLog, Moves, Phases
    <3>2. out'[r] = out[r] \/ out'[r] = [out[r] EXCEPT !.usageLog = usageLog[r]]
      BY <2>8 DEF CopiesLog
    <3> QED BY <3>1, <3>2, <2>1, <2>2, OutWithLog
  <2>9. CASE Finishes(r)
    <3>1. host'[r] \in Phases /\ own'[r] \in Nat
      BY <2>1, <2>9 DEF Finishes, Moves, Phases
    <3>2. out'[r] \in OutType /\ out'[r].usageJSON = out[r].usageJSON
      BY <2>9, FinishIs
    <3>3. found'[r] \in SUBSET Runs
      <4>1. PICK counted \in SUBSET HaveResults(r) : found'[r] = counted
        BY <2>9, FinishIs
      <4> QED BY <2>0, <4>1
    <3> QED BY <3>1, <3>2, <3>3, <2>1
  <2> QED BY <2>4, <2>5, <2>6, <2>7, <2>8, <2>9, HostSteps DEF HostMoves
<1>2. /\ host' = [r \in Runs |-> host'[r]] /\ own' = [r \in Runs |-> own'[r]]
      /\ found' = [r \in Runs |-> found'[r]] /\ out' = [r \in Runs |-> out'[r]]
  BY HostSteps DEF SidesAre
<1>3. host' \in [Runs -> Phases]
  BY <1>1, <1>2
<1>4. own' \in [Runs -> Nat]
  BY <1>1, <1>2
<1>5. out' \in [Runs -> OutType]
  BY <1>1, <1>2
<1>6. found' \in [Runs -> SUBSET Runs]
  BY <1>1, <1>2
<1> QED BY <1>0, <1>1, <1>3, <1>4, <1>5, <1>6 DEF HostTypes

\* The lines of a log are of different responses.
LEMMA LogIsShort ==
  ASSUME Tracked, NEW r \in Runs PROVE Len(usageLog[r]) <= NumResponses
<1> DEFINE L == usageLog[r]
           f == [i \in DOMAIN L |-> L[i].request]
<1>1. L \in Seq(LogLine)
  BY DEF Tracked, Base, ProxyTypes
<1>2. f \in [DOMAIN L -> Responses]
  BY <1>1, LineAt
<1>3. \A i, j \in DOMAIN L : f[i] = f[j] => i = j
  BY DEF Tracked, LogInv
<1>4. f \in Injection(DOMAIN L, Responses)
  BY <1>2, <1>3 DEF Injection, IsInjective
<1>5. IsFiniteSet(Responses) /\ Cardinality(Responses) = NumResponses
  BY BoundsAssumption, FS_Interval DEF Responses
<1> HIDE DEF f
<1>6. Cardinality(DOMAIN L) <= NumResponses
  BY <1>4, <1>5, FS_Injection
<1>7. PICK n \in Nat : n = Len(L) /\ DOMAIN L = 1..n
  BY <1>1
<1>8. Cardinality(1..n) = n
  <2>1. Cardinality(1..n) = IF 1 > n THEN 0 ELSE n - 1 + 1
    BY FS_Interval
  <2> QED BY <2>1
<1> QED BY <1>6, <1>7, <1>8

Run == Written /\ HostTypes

LEMMA AlwaysRun == Spec => []Run
<1>1. Init => Run
  BY InitWritten, InitHostTypes DEF Run
<1>2. Run /\ [Next]_vars => Run'
  <2> SUFFICES ASSUME Run, [Next]_vars PROVE Run'
    OBVIOUS
  <2>1. Written /\ HostTypes /\ Base
    BY DEF Run, Written, Tracked
  <2> QED BY <2>1, WrittenStep, HostTypesStep DEF Run
<1> QED BY <1>1, <1>2, PTL DEF Spec

\* The variables keep their types, the log is no longer than there are responses, and the
\* lock is held by a response of the run that is being recorded (Add, persistLocked).
THEOREM TypeOKHolds == Spec => []TypeOK
<1>1. Run => TypeOK
  <2> SUFFICES ASSUME Run PROVE TypeOK
    OBVIOUS
  <2>1. Base /\ LogInv /\ HostTypes /\ Tracked
    BY DEF Run, Written, Tracked
  <2>2. vendor \in [Runs -> Vendors]
    BY <2>1 DEF Base, ProxyTypes
  <2>3. ASSUME NEW b \in Responses
        PROVE  /\ body[b].at \in {"none", "open", "adding", "closed"} /\ body[b].run \in Runs
               /\ body[b].arrived \in {"empty", "part", "whole", "unseen"}
               /\ sse[b].modelID \in Models \cup {""} /\ sse[b].saw \in BOOLEAN
    <3>1. body[b] \in Bodies
      BY <2>1, BodyAt
    <3>2. body[b].at \in {"none", "open", "adding", "closed"} /\ body[b].arrived \in {"empty", "part", "whole", "unseen"}
      BY <3>1 DEF Bodies, Arrivals
    <3> QED BY <2>1, <3>2, BodyAt
  <2>4. ASSUME NEW r \in Runs
        PROVE  /\ totals[r] \in [Models -> Counts]
               /\ dropped[r] \in [parse : Nat, noUsage : Nat]
               /\ lock[r] # 0 => lock[r] \in Of(r) /\ body[lock[r]].at = "adding"
               /\ own[r] \in Nat /\ Len(usageLog[r]) <= NumResponses
    <3>1. totals[r] \in [Models -> Counts] /\ dropped[r] \in [parse : Nat, noUsage : Nat]
      BY <2>1 DEF Base, ProxyTypes, DropCounts
    <3>2. lock[r] # 0 => lock[r] \in Responses /\ body[lock[r]].run = r /\ body[lock[r]].at = "adding"
      BY <2>1, LockType DEF LogInv
    <3>3. own[r] \in Nat /\ Len(usageLog[r]) <= NumResponses
      BY <2>1, LogIsShort, OutAt
    <3> QED BY <3>1, <3>2, <3>3 DEF Of
  <2>5. host \in [Runs -> {"none", "running", "usage.json", "log", "finish", "done"}] /\ found \in [Runs -> SUBSET Runs]
    BY <2>1 DEF HostTypes, Phases
  <2> QED BY <2>2, <2>3, <2>4, <2>5 DEF TypeOK
<1> QED BY <1>1, AlwaysRun, PTL

-------------------------------------------------------------------------------
(* The copies in /out *)

\* The body of a response changes only while its run is not done.
LEMMA BodyStep ==
  ASSUME Base, [Next]_vars, NEW c \in Responses
  PROVE  \/ body'[c] = body[c]
         \/ host[body'[c].run] # "done" /\ (body[c].at = "none" \/ body'[c].run = body[c].run)
<1>0. body \in [Responses -> Bodies]
  BY DEF Base, ProxyTypes
<1>1. CASE \E b \in Responses : wrapResponseBody(b)
  <2>1. PICK b \in Responses : wrapResponseBody(b)
    BY <1>1
  <2>2. PICK r \in Runs : host[r] = "running" /\ \E a \in Answers[vendor[r]] :
          body' = [body EXCEPT ![b] = [at |-> "open", run |-> r, sse |-> a.sse, model |-> a.model,
                                       usage |-> a.usage, agent |-> a.agent, arrived |-> "part"]]
    BY <2>1 DEF wrapResponseBody
  <2>3. body[b].at = "none"
    BY <2>1 DEF wrapResponseBody
  <2> QED BY <1>0, <2>2, <2>3
<1>2. CASE \E b \in Responses : handleLine(b)
  <2>1. PICK b \in Responses : handleLine(b)
    BY <1>2
  <2>2. body[c] \in Bodies
    BY <1>0
  <2>3. host[body[b].run] # "done"
    BY <2>1 DEF handleLine
  <2>4. PICK arr : body' = [body EXCEPT ![b].arrived = arr]
    BY <2>1, <1>0 DEF handleLine
  <2> QED BY <1>0, <2>2, <2>3, <2>4 DEF Bodies
<1>3. ASSUME NEW b \in Responses, NEW at \in {"adding", "closed"}, NEW arr \in Arrivals, Close(b, at, arr),
             host[body[b].run] # "done"
      PROVE  \/ body'[c] = body[c]
             \/ host[body'[c].run] # "done" /\ (body[c].at = "none" \/ body'[c].run = body[c].run)
  <2>1. body'[c].run = body[c].run /\ (c # b => body'[c] = body[c])
    BY <1>3, CloseBody
  <2> QED BY <2>1, <1>3
<1>4. CASE \E b \in Responses : Recording(b) /\ \E m \in Models \cup {""}, d \in Counts, arr \in Arrivals : Adds(b, m, d, arr)
  BY <1>3, <1>4 DEF Adds, Recording
<1>5. CASE \E b \in Responses : Recording(b) /\ \E kinds \in {{"parse"}, {"noUsage"}}, arr \in Arrivals : Drops(b, kinds, arr)
  BY <1>3, <1>5 DEF Drops, Recording
<1>6. CASE \E b \in Responses : Recording(b) /\ Empties(b)
  BY <1>3, <1>6 DEF Empties, Arrivals, Recording
<1>7. CASE \E b \in Responses : persistLocked(b)
  BY <1>3, <1>7, BodyAt DEF persistLocked
<1>8. CASE HostNext
  <2>1. body' = body
    BY <1>8, HostKeeps
  <2> QED BY <2>1
<1>9. CASE UNCHANGED vars
  BY <1>9 DEF vars, proxyVars
<1> QED BY <1>1, <1>2, <1>4, <1>5, <1>6, <1>7, <1>8, <1>9, StepCases, Zenon

\* With the sidecar gone, the responses of a run are what they are.
LEMMA DoneStays ==
  ASSUME Base, [Next]_vars, NEW r \in Runs, host[r] = "done"
  PROVE  /\ Seen(r)' = Seen(r)
         /\ \A b \in Seen(r) : body'[b] = body[b]
<1>1. ASSUME NEW b \in Responses
      PROVE  body'[b] = body[b] \/ (b \notin Of(r) /\ b \notin Of(r)')
  BY BodyStep DEF Of
<1> QED BY <1>1 DEF Seen, Of

\* What the log adds up to only grows.
LEMMA LogGrows ==
  ASSUME Base, [Next]_vars, NEW r \in Runs, NEW m \in Models, NEW k \in Fields
  PROVE  /\ readPerModelTokens(usageLog[r])[m][k] \in Nat /\ readPerModelTokens(usageLog'[r])[m][k] \in Nat
         /\ readPerModelTokens(usageLog[r])[m][k] <= readPerModelTokens(usageLog'[r])[m][k]
<1>a. \A i, j \in Nat : i <= i /\ i <= i + j /\ i + j \in Nat
  OBVIOUS
<1>0. usageLog \in [Runs -> Seq(LogLine)] /\ usageLog[r] \in Seq(LogLine)
  BY DEF Base, ProxyTypes
<1>1. readPerModelTokens(usageLog[r])[m][k] \in Nat
  BY <1>0, ReadIs, CountsShape
<1>2. CASE usageLog' = usageLog
  BY <1>1, <1>2
<1>3. CASE \E b \in Responses : Recording(b) /\ \E n \in Models \cup {""}, c \in Counts, arr \in Arrivals : Adds(b, n, c, arr)
  <2>1. PICK b \in Responses, n \in Models \cup {""}, c \in Counts, arr \in Arrivals : Adds(b, n, c, arr)
    BY <1>3
  <2>2. PICK q \in Runs : q = body[b].run
    BY BodyAt
  <2>3. PICK l \in LogLine : l = LineFor(b, n, c)
    BY <2>1, AddsEffect
  <2>4. usageLog' = usageLog \/ usageLog' = [usageLog EXCEPT ![q] = Append(usageLog[q], l)]
    <3>1. usageLog' = usageLog \/ usageLog' = [usageLog EXCEPT ![body[b].run] = Append(usageLog[body[b].run], LineFor(b, n, c))]
      BY <2>1, AddsEffect
    <3> QED BY <3>1, <2>2, <2>3
  <2>5. CASE usageLog'[r] = usageLog[r]
    BY <1>1, <1>a, <2>5, Zenon
  <2>6. CASE usageLog'[r] = Append(usageLog[r], l)
    <3>1. l.tokens[k] \in Nat
      BY <1>0, ReadAppend
    <3>2. \/ readPerModelTokens(Append(usageLog[r], l))[m][k] = readPerModelTokens(usageLog[r])[m][k] + l.tokens[k]
          \/ readPerModelTokens(Append(usageLog[r], l))[m][k] = readPerModelTokens(usageLog[r])[m][k]
      BY <1>0, ReadAppend
    <3> QED BY <1>1, <1>a, <2>6, <3>1, <3>2, Zenon
  <2> QED BY <1>0, <2>4, <2>5, <2>6
<1> QED BY <1>2, <1>3, TotalsStep, Zenon

\* A copy of usage.json, F, has nothing that the lines L lack.
Covered(v, F, L) ==
  \A m \in Models : \A k \in Fields : normalizeTokens(v, F.tokens[m])[k] <= readPerModelTokens(L)[m][k]

\* The copy of usage.json is covered by the log that will be copied, then by its copy.
CopyInv ==
  \A r \in Runs : (AllLogged(r) /\ <<"copy", r>> \notin failed) =>
    /\ host[r] = "log" => Covered(vendor[r], out[r].usageJSON, usageLog[r])
    /\ host[r] \in {"finish", "done"} => Covered(vendor[r], out[r].usageJSON, out[r].usageLog)

LEMMA JsonIsCovered ==
  ASSUME Written, NEW r \in Runs, AllLogged(r) PROVE Covered(vendor[r], usageJSON[r], usageLog[r])
<1> SUFFICES ASSUME NEW m \in Models, NEW k \in Fields
             PROVE  normalizeTokens(vendor[r], usageJSON[r].tokens[m])[k] <= readPerModelTokens(usageLog[r])[m][k]
  BY DEF Covered
<1>1. Base /\ SpendInv
  BY DEF Written, Tracked
<1>2. readPerModelTokens(usageLog[r])[m][k] = normalizeTokens(vendor[r], totals[r][m])[k]
  BY DEF Written, LogSumInv
<1>3. usageJSON[r].tokens[m] \in Counts /\ totals[r][m] \in Counts
  <2>1. usageJSON[r] \in Files
    BY <1>1 DEF Base, ProxyTypes
  <2> QED BY <2>1, <1>1 DEF Base, ProxyTypes, Files
<1>4. usageJSON[r].tokens[m][k] <= totals[r][m][k]
  BY <1>1 DEF SpendInv, Within
<1>5. normalizeTokens(vendor[r], usageJSON[r].tokens[m])[k] <= normalizeTokens(vendor[r], totals[r][m])[k]
  <2>1. usageJSON[r].tokens[m][k] \in Nat /\ totals[r][m][k] \in Nat
    BY <1>3, CountsShape
  <2>2. /\ normalizeTokens(vendor[r], usageJSON[r].tokens[m])[k] =
             IF vendor[r] # "anthropic" /\ k = "create" THEN 0 ELSE usageJSON[r].tokens[m][k]
        /\ normalizeTokens(vendor[r], totals[r][m])[k] =
             IF vendor[r] # "anthropic" /\ k = "create" THEN 0 ELSE totals[r][m][k]
    BY <1>3, NormalizeType
  <2> QED BY <2>1, <2>2, <1>4
<1> QED BY <1>2, <1>5

LEMMA CoveredGrows ==
  ASSUME Base, [Next]_vars, NEW r \in Runs, NEW v, NEW F \in Files, Covered(v, F, usageLog[r])
  PROVE  Covered(v, F, usageLog'[r])
<1> SUFFICES ASSUME NEW m \in Models, NEW k \in Fields
             PROVE  normalizeTokens(v, F.tokens[m])[k] <= readPerModelTokens(usageLog'[r])[m][k]
  BY DEF Covered
<1> DEFINE n == normalizeTokens(v, F.tokens[m])[k]
           old == readPerModelTokens(usageLog[r])[m][k]
           new == readPerModelTokens(usageLog'[r])[m][k]
<1>1. n \in Nat
  <2>1. F.tokens[m] \in Counts
    BY DEF Files
  <2> QED BY <2>1, NormalizeType, CountsShape
<1>2. old \in Nat /\ new \in Nat /\ old <= new
  BY LogGrows
<1>3. n <= old
  BY DEF Covered
<1> HIDE DEF n, old, new
<1>4. n <= new
  BY <1>1, <1>2, <1>3
<1> QED BY <1>4 DEF n, new

LEMMA CopyStepKeeps ==
  ASSUME Written, HostTypes, CopyInv, [Next]_vars PROVE CopyInv'
<1>0. Base /\ vendor' = vendor
  BY VendorStays DEF Written, Tracked
<1>a. SUFFICES ASSUME NEW r \in Runs, AllLogged(r)', <<"copy", r>> \notin failed'
      PROVE  /\ host'[r] = "log" => Covered(vendor[r], out'[r].usageJSON, usageLog'[r])
             /\ host'[r] \in {"finish", "done"} => Covered(vendor[r], out'[r].usageJSON, out'[r].usageLog)
  BY <1>0 DEF CopyInv
<1>1. AllLogged(r) /\ <<"copy", r>> \notin failed
  <2>1. AllLogged(r)
    BY <1>0, <1>a, LoggedBefore
  <2> QED BY <2>1, <1>a, FailedGrows
<1> DEFINE v == vendor[r]
<1>2. /\ host[r] = "log" => Covered(v, out[r].usageJSON, usageLog[r])
      /\ host[r] \in {"finish", "done"} => Covered(v, out[r].usageJSON, out[r].usageLog)
  BY <1>1 DEF CopyInv
<1>3. out[r] \in OutType /\ out[r].usageJSON \in Files /\ usageJSON[r] \in Files /\ usageLog[r] \in Seq(LogLine)
  BY <1>0, OutAt DEF Base, ProxyTypes
<1> HIDE DEF v
<1>4. CASE Stays(r)
  <2>1. host[r] = "log" => Covered(v, out[r].usageJSON, usageLog'[r])
    BY <1>0, <1>2, <1>3, CoveredGrows
  <2> QED BY <1>2, <1>4, <2>1 DEF Stays, v
<1>5. CASE Moves(r, "none", "running") \/ Moves(r, "running", "usage.json")
  BY <1>5 DEF Moves
<1>6. CASE HostNext /\ CopiesJSON(r)
  <2>1. host'[r] = "log" /\ out'[r] = [out[r] EXCEPT !.usageJSON = usageJSON[r]]
    BY <1>a, <1>6 DEF CopiesJSON, Moves
  <2>2. out'[r].usageJSON = usageJSON[r]
    BY <2>1, <1>3, OutWithJSON
  <2>3. usageLog' = usageLog
    BY <1>6, HostKeeps
  <2>4. Covered(v, usageJSON[r], usageLog[r])
    BY <1>1, JsonIsCovered DEF v
  <2> QED BY <2>1, <2>2, <2>3, <2>4 DEF v
<1>7. CASE CopiesLog(r)
  <2>1. host[r] = "log" /\ host'[r] = "finish" /\ out'[r] = [out[r] EXCEPT !.usageLog = usageLog[r]]
    BY <1>a, <1>7 DEF CopiesLog, Moves
  <2>2. out'[r].usageJSON = out[r].usageJSON /\ out'[r].usageLog = usageLog[r]
    BY <2>1, <1>3, OutWithLog
  <2> QED BY <1>2, <2>1, <2>2 DEF v
<1>8. CASE Finishes(r)
  <2>1. host[r] = "finish" /\ host'[r] = "done"
    BY <1>8 DEF Finishes, Moves
  <2>2. out'[r].usageJSON = out[r].usageJSON /\ out'[r].usageLog = out[r].usageLog
    BY <1>0, <1>8, FinishIs
  <2> QED BY <1>2, <2>1, <2>2 DEF v
<1> QED BY <1>4, <1>5, <1>6, <1>7, <1>8, HostSteps DEF HostMoves

\* The names that a run has ended with are those of its requests, and all of them unless
\* some were lost; its log holds their lines.
Attributed(r) ==
  /\ vendor[r] # "anthropic" => out[r].attribution = {}
  /\ vendor[r] = "anthropic" => Theirs(r, out[r].attribution)
  /\ vendor[r] = "anthropic" /\ <<"attribution", r>> \notin failed => AllTheirs(r, out[r].attribution)

NamedInv ==
  \A r \in Runs :
    /\ host[r] = "done" => Attributed(r)
    /\ \A i \in DOMAIN out[r].usageLog : out[r].usageLog[i].request \in Of(r)

LEMMA AttributedStays ==
  ASSUME Base, [Next]_vars, NEW r \in Runs, host[r] = "done", Attributed(r), out'[r] = out[r]
  PROVE  Attributed(r)'
<1>1. Seen(r)' = Seen(r) /\ \A b \in Seen(r) : body'[b] = body[b]
  BY DoneStays
<1>2. vendor' = vendor /\ failed \subseteq failed'
  BY VendorStays, FailedGrows
<1>3. PICK A : A = out[r].attribution /\ out'[r].attribution = A
  OBVIOUS
<1>4. vendor[r] # "anthropic" => A = {}
  BY <1>3 DEF Attributed
<1>5. ASSUME vendor[r] = "anthropic", NEW a \in A
      PROVE  a.request \in Seen(r)' /\ (a.agent = "" \/ a.agent = body'[a.request].agent)
  <2>1. a.request \in Seen(r) /\ (a.agent = "" \/ a.agent = body[a.request].agent)
    BY <1>3, <1>5 DEF Attributed, Theirs
  <2> QED BY <1>1, <2>1
<1>6. ASSUME vendor[r] = "anthropic", <<"attribution", r>> \notin failed', NEW b \in Seen(r)', body'[b].usage.output > 1
      PROVE  /\ \E a \in A : a.request = b
             /\ \A a \in A : a.request = b => a.agent = body'[b].agent
  <2>1. b \in Seen(r) /\ body'[b] = body[b]
    BY <1>1, <1>6
  <2>2. AllTheirs(r, A)
    BY <1>2, <1>3, <1>6 DEF Attributed
  <2> QED BY <1>6, <2>1, <2>2 DEF AllTheirs
<1> QED BY <1>2, <1>3, <1>4, <1>5, <1>6 DEF Attributed, Theirs, AllTheirs

LEMMA AttributedNow ==
  ASSUME Base, HostTypes, NEW r \in Runs, HostNext, Finishes(r) PROVE Attributed(r)'
<1>1. body' = body /\ vendor' = vendor
  BY HostKeeps
<1>2. Seen(r)' = Seen(r)
  BY <1>1 DEF Seen, Of
<1>3. PICK A : A = out'[r].attribution
  OBVIOUS
<1>4. MayAttribute(r, A)
  BY <1>3, FinishIs
<1>5. CASE vendor[r] # "anthropic"
  BY <1>1, <1>3, <1>4, <1>5 DEF MayAttribute, Attributed
<1>6. CASE vendor[r] = "anthropic"
  <2>1. PICK read \in SUBSET Transcript(r) :
          A = distillAttribution(read) /\ (read = Transcript(r) \/ <<"attribution", r>> \in failed')
    BY <1>4, <1>6 DEF MayAttribute
  <2>2. Theirs(r, A) /\ (read = Transcript(r) => AllTheirs(r, A))
    BY <2>1, DistillIs
  <2>3. \A a \in A : a.request \in Seen(r)' /\ (a.agent = "" \/ a.agent = body'[a.request].agent)
    BY <1>1, <1>2, <2>2 DEF Theirs
  <2>4. ASSUME <<"attribution", r>> \notin failed', NEW b \in Seen(r)', body'[b].usage.output > 1
        PROVE  /\ \E a \in A : a.request = b
               /\ \A a \in A : a.request = b => a.agent = body'[b].agent
    <3>1. AllTheirs(r, A)
      BY <2>1, <2>2, <2>4
    <3> QED BY <1>1, <1>2, <2>4, <3>1 DEF AllTheirs
  <2> QED BY <1>1, <1>3, <1>6, <2>3, <2>4 DEF Attributed, Theirs, AllTheirs
<1> QED BY <1>5, <1>6

LEMMA NamedStep ==
  ASSUME Tracked, HostTypes, NamedInv, [Next]_vars PROVE NamedInv'
<1>0. Base /\ LogInv /\ vendor' = vendor
  BY VendorStays DEF Tracked
<1>a. SUFFICES ASSUME NEW r \in Runs
      PROVE  /\ host'[r] = "done" => Attributed(r)'
             /\ \A i \in DOMAIN out'[r].usageLog : out'[r].usageLog[i].request \in Of(r)'
  BY DEF NamedInv
<1>1. /\ host[r] = "done" => Attributed(r)
      /\ \A i \in DOMAIN out[r].usageLog : out[r].usageLog[i].request \in Of(r)
  BY DEF NamedInv
<1>2. Of(r) \subseteq Of(r)'
  BY <1>0, BodyStays DEF Of
<1>3. \A i \in DOMAIN usageLog[r] : usageLog[r][i].request \in Of(r)
  BY <1>0 DEF LogInv, LineOK, Of
<1>4. host[r] = "done" /\ out'[r] = out[r] => Attributed(r)'
  BY <1>0, <1>1, AttributedStays
<1>5. out[r] \in OutType /\ usageJSON[r] \in Files /\ usageLog[r] \in Seq(LogLine)
  BY <1>0, OutAt DEF Base, ProxyTypes
<1>6. CASE Stays(r)
  BY <1>1, <1>2, <1>4, <1>6 DEF Stays
<1>7. CASE (Moves(r, "none", "running") \/ Moves(r, "running", "usage.json")) /\ out'[r] = out[r]
  BY <1>1, <1>2, <1>7 DEF Moves
<1>8. CASE CopiesJSON(r)
  <2>1. host'[r] = "log" /\ (out'[r] = out[r] \/ out'[r] = [out[r] EXCEPT !.usageJSON = usageJSON[r]])
    BY <1>8 DEF CopiesJSON, Moves
  <2>2. out'[r].usageLog = out[r].usageLog
    BY <2>1, <1>5, OutWithJSON
  <2> QED BY <1>1, <1>2, <2>1, <2>2
<1>9. CASE CopiesLog(r)
  <2>1. host'[r] = "finish" /\ (out'[r] = out[r] \/ out'[r] = [out[r] EXCEPT !.usageLog = usageLog[r]])
    BY <1>9 DEF CopiesLog, Moves
  <2>2. out'[r].usageLog = out[r].usageLog \/ out'[r].usageLog = usageLog[r]
    BY <2>1, <1>5, OutWithLog
  <2> QED BY <1>1, <1>2, <1>3, <2>1, <2>2
<1>10. CASE HostNext /\ Finishes(r)
  <2>1. out'[r].usageLog = out[r].usageLog
    BY <1>0, <1>10, FinishIs
  <2>2. Attributed(r)'
    BY <1>0, <1>10, AttributedNow
  <2> QED BY <1>1, <1>2, <2>1, <2>2
<1> QED BY <1>6, <1>7, <1>8, <1>9, <1>10, HostSteps DEF HostMoves

RunInv == Run /\ CopyInv /\ NamedInv

LEMMA AlwaysRunInv == Spec => []RunInv
<1>1. Init => RunInv
  <2> SUFFICES ASSUME Init PROVE RunInv
    OBVIOUS
  <2>1. Run
    BY InitWritten, InitHostTypes DEF Run
  <2>2. \A r \in Runs : host[r] \in {"none", "running"}
    BY DEF Init
  <2>3. \A r \in Runs : out[r].usageLog = <<>>
    BY NoOutType DEF Init
  <2>4. CopyInv
    BY <2>2 DEF CopyInv
  <2>5. NamedInv
    BY <2>2, <2>3 DEF NamedInv
  <2> QED BY <2>1, <2>4, <2>5 DEF RunInv
<1>2. RunInv /\ [Next]_vars => RunInv'
  <2> SUFFICES ASSUME RunInv, [Next]_vars PROVE RunInv'
    OBVIOUS
  <2>1. Written /\ HostTypes /\ Tracked /\ Base /\ CopyInv /\ NamedInv
    BY DEF RunInv, Run, Written, Tracked
  <2>2. Written' /\ HostTypes'
    BY <2>1, WrittenStep, HostTypesStep
  <2>3. CopyInv' /\ NamedInv'
    BY <2>1, CopyStepKeeps, NamedStep
  <2> QED BY <2>2, <2>3 DEF RunInv, Run
<1> QED BY <1>1, <1>2, PTL DEF Spec

\* usage.json and usage.jsonl agree: wholly while the tracker rests, and in the copies as
\* far as the report needs it, whatever was recorded between the two (copyUsageToOut).
THEOREM FilesAgreeHolds == Spec => []FilesAgree
<1>1. RunInv => FilesAgree
  <2> SUFFICES ASSUME RunInv PROVE FilesAgree
    OBVIOUS
  <2>1. Written /\ HostTypes /\ CopyInv
    BY DEF RunInv, Run
  <2>2. RestIsWritten
    BY <2>1, RestIsWrittenHolds
  <2>3. ASSUME NEW r \in Runs, host[r] = "done", <<"copy", r>> \notin failed,
               \A b \in Of(r) : <<"line", b>> \notin failed, NEW m \in Models
        PROVE  AtMost(normalizeTokens(vendor[r], out[r].usageJSON.tokens[m]), readPerModelTokens(out[r].usageLog)[m])
    <3>1. Covered(vendor[r], out[r].usageJSON, out[r].usageLog)
      BY <2>1, <2>3 DEF CopyInv, AllLogged
    <3>2. normalizeTokens(vendor[r], out[r].usageJSON.tokens[m]) \in Counts
      <4>1. out[r].usageJSON.tokens[m] \in Counts
        BY <2>1, OutAt
      <4> QED BY <4>1, NormalizeType
    <3>3. DOMAIN normalizeTokens(vendor[r], out[r].usageJSON.tokens[m]) = Fields
      BY <3>2, CountsShape
    <3> QED BY <3>1, <3>3 DEF AtMost, Covered
  <2>4. CopyInOrder
    BY <2>3 DEF CopyInOrder
  <2> QED BY <2>2, <2>4 DEF FilesAgree
<1> QED BY <1>1, AlwaysRunInv, PTL

\* What the report charges a line of a run that is done to is the name that attribution.jsonl
\* has for it.
LEMMA BucketIs ==
  ASSUME RunInv, NEW r \in Runs, NEW x \in Lines({r})
  PROVE  LET known == {a \in out[r].attribution : a.request = LineOf(x).request}
         IN  /\ LineOf(x).request \in Of(r)
             /\ known = {} => Bucket(x) = "(main)"
             /\ known # {} => \E a \in known : Bucket(x) = IF a.agent = "" THEN "(unnamed)" ELSE a.agent
<1> DEFINE b == LineOf(x).request
           known == {a \in out[r].attribution : a.request = b}
<1>1. x[1] = r /\ x[2] \in DOMAIN out[r].usageLog /\ LineOf(x) = out[r].usageLog[x[2]]
  BY DEF Lines, LineOf
<1>2. b \in Of(r)
  BY <1>1 DEF RunInv, NamedInv
<1>3. Bucket(x) = IF known = {} THEN "(main)"
                  ELSE LET a == CHOOSE a \in known : TRUE IN IF a.agent = "" THEN "(unnamed)" ELSE a.agent
  BY <1>1 DEF Bucket
<1> HIDE DEF known
<1>4. known # {} => (CHOOSE a \in known : TRUE) \in known
  OBVIOUS
<1>5. known = {} => Bucket(x) = "(main)"
  BY <1>3
<1>6. known # {} => \E a \in known : Bucket(x) = IF a.agent = "" THEN "(unnamed)" ELSE a.agent
  BY <1>3, <1>4
<1> QED BY <1>2, <1>5, <1>6 DEF known

IsTheirs(r, s, b) == vendor[r] = "anthropic" /\ body[b].agent = s /\ body[b].sse /\ body[b].arrived = "whole"

LEMMA BucketIsTheirs ==
  ASSUME RunInv, NEW r \in Runs, host[r] = "done", NEW s \in {body[b].agent : b \in Of(r)} \ {""},
         NEW x \in Lines({r})
  PROVE  LET b == LineOf(x).request
         IN  /\ Bucket(x) = s => IsTheirs(r, s, b)
             /\ <<"attribution", r>> \notin failed /\ IsTheirs(r, s, b) /\ body[b].usage.output > 1 => Bucket(x) = s
<1> DEFINE b == LineOf(x).request
           known == {a \in out[r].attribution : a.request = b}
<1>1. /\ b \in Of(r)
      /\ known = {} => Bucket(x) = "(main)"
      /\ known # {} => \E a \in known : Bucket(x) = IF a.agent = "" THEN "(unnamed)" ELSE a.agent
  BY BucketIs
<1>2. s # "(main)" /\ s # "(unnamed)" /\ s # ""
  <2>1. PICK c \in Of(r) : s = body[c].agent
    OBVIOUS
  <2>2. AnswerOK(vendor[body[c].run], body[c])
    BY DEF RunInv, Run, Written, Tracked, Base, StreamInv, Of
  <2> QED BY <2>1, <2>2 DEF AnswerOK
<1>3. Attributed(r)
  BY DEF RunInv, NamedInv
<1>4. \A a \in known : a \in out[r].attribution /\ a.request = b
  OBVIOUS
<1>5. ASSUME IsTheirs(r, s, b), <<"attribution", r>> \notin failed, body[b].usage.output > 1
      PROVE  known # {} /\ \A a \in known : a.agent = s
  <2>1. b \in Seen(r) /\ vendor[r] = "anthropic" /\ body[b].agent = s
    BY <1>1, <1>5 DEF IsTheirs, Seen
  <2>2. AllTheirs(r, out[r].attribution)
    BY <1>3, <1>5, <2>1 DEF Attributed
  <2> QED BY <1>5, <2>1, <2>2 DEF AllTheirs
<1> HIDE DEF b, known
<1>6. ASSUME Bucket(x) = s PROVE IsTheirs(r, s, b)
  <2>1. PICK a \in known : s = a.agent /\ s # ""
    BY <1>1, <1>2, <1>6
  <2>2. a \in out[r].attribution /\ a.request = b
    BY <1>4
  <2>3. vendor[r] = "anthropic"
    BY <1>3, <2>2 DEF Attributed
  <2>4. b \in Seen(r) /\ a.agent = body[b].agent
    BY <1>3, <2>1, <2>2, <2>3 DEF Attributed, Theirs
  <2> QED BY <2>1, <2>3, <2>4 DEF IsTheirs, Seen
<1>7. ASSUME IsTheirs(r, s, b), <<"attribution", r>> \notin failed, body[b].usage.output > 1 PROVE Bucket(x) = s
  BY <1>1, <1>2, <1>5, <1>7
<1> QED BY <1>6, <1>7 DEF b

\* The spend under a subagent's name is that of its own requests, whichever part of the
\* transcripts was lost, and all that it saw answered if none was, but for answers of one
\* token (distillAttribution, readAttributionMap).
THEOREM NamedSpendIsTheirsHolds == Spec => []NamedSpendIsTheirs
<1>1. RunInv => NamedSpendIsTheirs
  <2> SUFFICES ASSUME RunInv, NEW r \in Runs, host[r] = "done", NEW s \in {body[b].agent : b \in Of(r)} \ {""}
               PROVE  LET named  == {x \in Lines({r}) : Bucket(x) = s}
                          theirs == {x \in Lines({r}) : IsTheirs(r, s, LineOf(x).request)}
                      IN  /\ named \subseteq theirs
                          /\ <<"attribution", r>> \notin failed =>
                               {x \in theirs : body[LineOf(x).request].usage.output > 1} \subseteq named
    BY DEF NamedSpendIsTheirs, IsTheirs
  <2> QED BY BucketIsTheirs
<1> QED BY <1>1, AlwaysRunInv, PTL

-------------------------------------------------------------------------------
(* What results.json says *)

\* The cost that a file of a run of vendor v stands for.
CostOf(v, F) == SumFunction([m \in Models |-> CostUSD(v, m, F.tokens[m])])

LEMMA CostIsOf == ASSUME NEW r, NEW F PROVE Cost(r, F) = CostOf(vendor[r], F)
BY DEF Cost, CostOf, modelCostUSD

\* The cost that the host read of a run is no more than the copy of usage.json stands for.
OwnInv ==
  \A r \in Runs :
    /\ host[r] = "usage.json" => own[r] <= CostOf(vendor[r], usageJSON[r])
    /\ host[r] \in {"log", "finish", "done"} /\ <<"copy", r>> \notin failed => own[r] <= CostOf(vendor[r], out[r].usageJSON)

LEMMA OwnStep ==
  ASSUME Written, HostTypes, OwnInv, [Next]_vars PROVE OwnInv'
<1>0. Base /\ vendor' = vendor
  BY VendorStays DEF Written, Tracked
<1>a. SUFFICES ASSUME NEW r \in Runs
      PROVE  /\ host'[r] = "usage.json" => own'[r] <= CostOf(vendor[r], usageJSON'[r])
             /\ host'[r] \in {"log", "finish", "done"} /\ <<"copy", r>> \notin failed' => own'[r] <= CostOf(vendor[r], out'[r].usageJSON)
  BY <1>0 DEF OwnInv
<1> DEFINE v == vendor[r]
           C(F) == CostOf(v, F)
<1>1. <<"copy", r>> \in failed => <<"copy", r>> \in failed'
  BY FailedGrows
<1>2. /\ host[r] = "usage.json" => own[r] <= C(usageJSON[r])
      /\ host[r] \in {"log", "finish", "done"} /\ <<"copy", r>> \notin failed => own[r] <= C(out[r].usageJSON)
  BY DEF OwnInv
<1>3. out[r] \in OutType /\ usageJSON[r] \in Files /\ usageLog[r] \in Seq(LogLine) /\ own[r] \in Nat
  BY <1>0, OutAt DEF Base, ProxyTypes
<1>4. ASSUME NEW F \in Files, \A m \in Models : Valid(v, F.tokens[m]) PROVE C(F) \in Nat
  <2>1. F.tokens \in [Models -> Counts] /\ vendor[r] \in Vendors
    BY <1>0 DEF Files, Base, ProxyTypes
  <2>2. Cost(r, F) \in Nat
    BY <1>4, <2>1, CostNat
  <2> QED BY <2>2, CostIsOf
<1>5. C(usageJSON[r]) \in Nat
  BY <1>0, <1>3, <1>4 DEF Base, PriceInv
<1>6. C(usageJSON'[r]) \in Nat
  <2>1. Base'
    BY <1>0, BaseStep
  <2>2. usageJSON'[r] \in Files /\ \A m \in Models : Valid(v, usageJSON'[r].tokens[m])
    BY <2>1, <1>0 DEF Base, ProxyTypes, PriceInv
  <2> QED BY <2>2, <1>4
<1>7. C(usageJSON[r]) <= C(usageJSON'[r])
  <2>1. Cost(r, usageJSON[r]) <= Cost(r, usageJSON'[r])
    BY SpendRises
  <2> QED BY <2>1, CostIsOf
<1> HIDE DEF C, v
<1>8. CASE Stays(r)
  <2>1. host[r] = "usage.json" => own[r] <= C(usageJSON'[r])
    BY <1>2, <1>3, <1>5, <1>6, <1>7
  <2> QED BY <1>1, <1>2, <1>8, <2>1 DEF Stays, C, v
<1>9. CASE Moves(r, "none", "running")
  BY <1>9 DEF Moves
<1>10. CASE HostNext /\ Moves(r, "running", "usage.json") /\ own'[r] = Cost(r, usageJSON[r])
  <2>1. host'[r] = "usage.json" /\ own'[r] = C(usageJSON[r])
    BY <1>10, CostIsOf DEF Moves, C, v
  <2> QED BY <2>1, <1>5, <1>6, <1>7 DEF C, v
<1>11. CASE CopiesJSON(r)
  <2>1. /\ host[r] = "usage.json" /\ host'[r] = "log" /\ own'[r] = own[r]
        /\ <<"copy", r>> \in failed' \/ out'[r] = [out[r] EXCEPT !.usageJSON = usageJSON[r]]
    BY <1>11 DEF CopiesJSON, Moves
  <2>2. <<"copy", r>> \in failed' \/ out'[r].usageJSON = usageJSON[r]
    BY <2>1, <1>3, OutWithJSON
  <2> QED BY <2>1, <2>2, <1>2 DEF C, v
<1>12. CASE CopiesLog(r)
  <2>1. /\ host[r] = "log" /\ host'[r] = "finish" /\ own'[r] = own[r]
        /\ out'[r] = out[r] \/ out'[r] = [out[r] EXCEPT !.usageLog = usageLog[r]]
    BY <1>12 DEF CopiesLog, Moves
  <2>2. out'[r].usageJSON = out[r].usageJSON
    BY <2>1, <1>3, OutWithLog
  <2> QED BY <2>1, <2>2, <1>1, <1>2 DEF C, v
<1>13. CASE Finishes(r)
  <2>1. host[r] = "finish" /\ host'[r] = "done" /\ own'[r] = own[r]
    BY <1>13 DEF Finishes, Moves
  <2>2. out'[r].usageJSON = out[r].usageJSON
    BY <1>0, <1>13, FinishIs
  <2> QED BY <2>1, <2>2, <1>1, <1>2 DEF C, v
<1> QED BY <1>8, <1>9, <1>10, <1>11, <1>12, <1>13, HostSteps DEF HostMoves

\* The children that the results.json of r names, and those whose tokens it has.
Kids(r)   == out[r].results.children
Over(S, f) == SumFunctionOnSet([c \in S |-> f[c]], S)
Above(r, f)   == Over(Kids(r), f)
Counted(r, f) == Over(found[r], f)

TotalOf      == [c \in Runs |-> out[c].results.total]
TokensOf(m, k) == [c \in Runs |-> out[c].results.tokens[m][k]]
ReadOf(m, k) == [c \in Runs |-> readPerModelTokens(out[c].usageLog)[m][k]]

\* The results.json of a run is what its own files and those of its children say, which
\* were there before it; no log is longer than there are responses.
ResultsOK(r) ==
  /\ host[r] = "done" /\ Kids(r) \subseteq found[r]
  /\ \A c \in found[r] : ParentOf[c] = r /\ out[c].results.written
  /\ TotalOf[r] = own[r] + Above(r, TotalOf)
  /\ \A m \in Models : \A k \in Fields : TokensOf(m, k)[r] = ReadOf(m, k)[r] + Counted(r, TokensOf(m, k))

ResultsInv ==
  \A r \in Runs : /\ Len(out[r].usageLog) <= NumResponses
                  /\ out[r].results = NoResults \/ ResultsOK(r)

LEMMA NoKids ==
  ASSUME HostTypes, ResultsInv, NEW r \in Runs
  PROVE  /\ Kids(r) \in SUBSET Runs /\ \A c \in Kids(r) : ParentOf[c] = r /\ out[c].results.written
         /\ out[r].results.written => ResultsOK(r)
<1>1. Kids(r) \in SUBSET Runs
  BY OutAt DEF Kids
<1>2. CASE out[r].results = NoResults
  BY <1>1, <1>2 DEF NoResults, Kids
<1>3. CASE ResultsOK(r)
  BY <1>1, <1>3 DEF ResultsOK
<1> QED BY <1>2, <1>3 DEF ResultsInv

\* A run that is done is left alone.
LEMMA OutStays ==
  ASSUME HostTypes, [Next]_vars, NEW r \in Runs, host[r] = "done" PROVE Stays(r)
BY HostSteps DEF HostMoves, Moves, CopiesJSON, CopiesLog, Finishes

\* The results.json of a child that was found stays.
LEMMA ChildStays ==
  ASSUME HostTypes, ResultsInv, [Next]_vars, NEW c \in Runs, out[c].results.written
  PROVE  out'[c] = out[c]
<1>1. host[c] = "done"
  BY NoKids DEF ResultsOK
<1> QED BY <1>1, OutStays DEF Stays

\* What finishAgentRun writes is right.
LEMMA FinishOK ==
  ASSUME Base, HostTypes, ResultsInv, NEW r \in Runs, HostNext, Finishes(r), [Next]_vars,
         NEW K \in SUBSET HaveResults(r), NEW N \in SUBSET K,
         found'[r] = K, out'[r].results = writeResults(r, N, K)
  PROVE  ResultsOK(r)'
<1>0. K \in SUBSET Runs /\ N \in SUBSET Runs
  BY DEF HaveResults
<1>1. /\ host[r] = "finish" /\ host'[r] = "done" /\ own'[r] = own[r]
      /\ out'[r].usageLog = out[r].usageLog
  BY FinishIs DEF Finishes, Moves
<1>2. PICK R : R = writeResults(r, N, K) /\ out'[r].results = R
  OBVIOUS
<1>3. /\ R.children = N /\ R.total = own[r] + childTotal(N)
      /\ R.tokens = addPerModelTokens(readPerModelTokens(out[r].usageLog), sumChildPerModelTokens(K))
  BY <1>0, <1>2, ResultsIs
<1>4. Kids(r)' = N
  BY <1>2, <1>3 DEF Kids
<1>5. ASSUME NEW c \in K PROVE c \in Runs /\ ParentOf[c] = r /\ out[c].results.written /\ out'[c] = out[c]
  <2>1. c \in Runs /\ ParentOf[c] = r /\ out[c].results.written
    BY DEF HaveResults
  <2> QED BY <2>1, ChildStays
<1>6. Above(r, TotalOf)' = childTotal(N)
  <2>1. childTotal(N) = SumFunctionOnSet([c \in N |-> out[c].results.total], N)
    BY <1>0, ChildSums
  <2>2. [c \in N |-> TotalOf'[c]] = [c \in N |-> out[c].results.total]
    BY <1>5 DEF TotalOf
  <2> QED BY <1>4, <2>1, <2>2 DEF Above, Over
<1>7. TotalOf'[r] = own'[r] + Above(r, TotalOf)'
  <2>1. TotalOf'[r] = R.total
    BY <1>2 DEF TotalOf
  <2> QED BY <1>1, <1>3, <1>6, <2>1
<1>8. ASSUME NEW m \in Models, NEW k \in Fields
      PROVE  TokensOf(m, k)'[r] = ReadOf(m, k)'[r] + Counted(r, TokensOf(m, k))'
  <2>1. /\ sumChildPerModelTokens(K)[m][k] = SumFunctionOnSet([c \in K |-> out[c].results.tokens[m][k]], K)
        /\ sumChildPerModelTokens(K) \in [Models -> Counts]
    BY <1>0, ChildSums
  <2>2. [c \in K |-> TokensOf(m, k)'[c]] = [c \in K |-> out[c].results.tokens[m][k]]
    BY <1>5 DEF TokensOf
  <2>3. Counted(r, TokensOf(m, k))' = sumChildPerModelTokens(K)[m][k]
    BY <2>1, <2>2 DEF Counted, Over
  <2>4. readPerModelTokens(out[r].usageLog) \in [Models -> Counts]
    BY OutAt, ReadIs
  <2>5. R.tokens[m][k] = readPerModelTokens(out[r].usageLog)[m][k] + sumChildPerModelTokens(K)[m][k]
    BY <1>3, <2>1, <2>4, PointwiseType
  <2>6. TokensOf(m, k)'[r] = R.tokens[m][k]
    BY <1>2 DEF TokensOf
  <2>7. ReadOf(m, k)'[r] = readPerModelTokens(out[r].usageLog)[m][k]
    BY <1>1 DEF ReadOf
  <2> QED BY <2>3, <2>5, <2>6, <2>7
<1>9. \A c \in K : ParentOf[c] = r /\ out'[c].results.written
  BY <1>5
<1> QED BY <1>1, <1>4, <1>7, <1>8, <1>9 DEF ResultsOK

LEMMA ResultsStep ==
  ASSUME Run, ResultsInv, [Next]_vars PROVE ResultsInv'
<1>0. Base /\ Tracked /\ HostTypes
  BY DEF Run, Written, Tracked
<1>a. SUFFICES ASSUME NEW r \in Runs
      PROVE  /\ Len(out'[r].usageLog) <= NumResponses
             /\ out'[r].results = NoResults \/ ResultsOK(r)'
  BY DEF ResultsInv
<1>1. Len(out[r].usageLog) <= NumResponses /\ (out[r].results = NoResults \/ ResultsOK(r))
  BY DEF ResultsInv
<1>2. out[r] \in OutType /\ usageJSON[r] \in Files /\ usageLog[r] \in Seq(LogLine) /\ Len(usageLog[r]) <= NumResponses
  BY <1>0, OutAt, LogIsShort DEF Base, ProxyTypes
<1>3. CASE out'[r] = out[r]
  <2>1. ASSUME ResultsOK(r) PROVE ResultsOK(r)'
    <3>1. host[r] = "done" /\ Stays(r)
      BY <1>0, <2>1, OutStays DEF ResultsOK
    <3>2. /\ Kids(r)' = Kids(r) /\ Kids(r) \in SUBSET Runs /\ host'[r] = "done" /\ own'[r] = own[r]
          /\ found'[r] = found[r] /\ found[r] \in SUBSET Runs /\ Kids(r) \subseteq found[r]
      BY <1>0, <2>1, <3>1, NoKids, OutAt DEF Kids, Stays, ResultsOK
    <3>3. ASSUME NEW c \in found[r] PROVE ParentOf[c] = r /\ out[c].results.written /\ out'[c] = out[c]
      <4>1. c \in Runs /\ ParentOf[c] = r /\ out[c].results.written
        BY <2>1, <3>2, <3>3 DEF ResultsOK
      <4> QED BY <1>0, <4>1, ChildStays
    <3>4. Above(r, TotalOf)' = Above(r, TotalOf)
      <4>1. [c \in Kids(r) |-> TotalOf'[c]] = [c \in Kids(r) |-> TotalOf[c]]
        BY <3>2, <3>3 DEF TotalOf
      <4> QED BY <3>2, <4>1 DEF Above, Over
    <3>5. TotalOf'[r] = own'[r] + Above(r, TotalOf)'
      BY <2>1, <3>2, <3>4, <1>3 DEF TotalOf, ResultsOK
    <3>6. ASSUME NEW m \in Models, NEW k \in Fields
          PROVE  TokensOf(m, k)'[r] = ReadOf(m, k)'[r] + Counted(r, TokensOf(m, k))'
      <4>1. [c \in found[r] |-> TokensOf(m, k)'[c]] = [c \in found[r] |-> TokensOf(m, k)[c]]
        BY <3>2, <3>3 DEF TokensOf
      <4>2. Counted(r, TokensOf(m, k))' = Counted(r, TokensOf(m, k))
        BY <3>2, <4>1 DEF Counted, Over
      <4>3. TokensOf(m, k)'[r] = TokensOf(m, k)[r] /\ ReadOf(m, k)'[r] = ReadOf(m, k)[r]
        BY <1>3 DEF TokensOf, ReadOf
      <4> QED BY <2>1, <4>2, <4>3 DEF ResultsOK
    <3>7. \A c \in found'[r] : ParentOf[c] = r /\ out'[c].results.written
      BY <3>2, <3>3
    <3> QED BY <3>2, <3>5, <3>6, <3>7 DEF ResultsOK
  <2> QED BY <1>1, <1>3, <2>1
<1>4. CASE host[r] # "done" /\ out'[r].results = out[r].results /\ Len(out'[r].usageLog) <= NumResponses
  BY <1>1, <1>4 DEF ResultsOK
<1>5. CASE CopiesJSON(r)
  <2>1. host[r] = "usage.json" /\ (out'[r] = out[r] \/ out'[r] = [out[r] EXCEPT !.usageJSON = usageJSON[r]])
    BY <1>5 DEF CopiesJSON, Moves
  <2>2. out'[r].results = out[r].results /\ out'[r].usageLog = out[r].usageLog
    BY <2>1, <1>2, OutWithJSON
  <2> QED BY <1>1, <1>4, <2>1, <2>2
<1>6. CASE CopiesLog(r)
  <2>1. host[r] = "log" /\ (out'[r] = out[r] \/ out'[r] = [out[r] EXCEPT !.usageLog = usageLog[r]])
    BY <1>6 DEF CopiesLog, Moves
  <2>2. out'[r].results = out[r].results /\ (out'[r].usageLog = out[r].usageLog \/ out'[r].usageLog = usageLog[r])
    BY <2>1, <1>2, OutWithLog
  <2> QED BY <1>1, <1>2, <1>4, <2>1, <2>2
<1>7. CASE HostNext /\ Finishes(r)
  <2>1. PICK K \in SUBSET HaveResults(r) : \E N \in SUBSET K :
          /\ found'[r] = K
          /\ out'[r].results = NoResults \/ out'[r].results = writeResults(r, N, K)
    BY <1>0, <1>7, FinishIs
  <2>2. PICK N \in SUBSET K :
          found'[r] = K /\ (out'[r].results = NoResults \/ out'[r].results = writeResults(r, N, K))
    BY <2>1
  <2>3. out'[r].usageLog = out[r].usageLog
    BY <1>0, <1>7, FinishIs
  <2>4. out'[r].results = writeResults(r, N, K) => ResultsOK(r)'
    BY <1>0, <1>7, <2>2, FinishOK
  <2> QED BY <1>1, <2>2, <2>3, <2>4
<1> QED BY <1>0, <1>3, <1>5, <1>6, <1>7, HostSteps DEF HostMoves, Stays

Report == RunInv /\ OwnInv /\ ResultsInv

LEMMA AlwaysReport == Spec => []Report
<1>1. Init => OwnInv /\ ResultsInv
  <2> SUFFICES ASSUME Init PROVE OwnInv /\ ResultsInv
    OBVIOUS
  <2>1. \A r \in Runs : host[r] \in {"none", "running"}
    BY DEF Init
  <2>2. \A r \in Runs : out[r].usageLog = <<>> /\ out[r].results = NoResults
    BY NoOutType DEF Init
  <2>3. Len(<<>>) = 0 /\ 0 <= NumResponses
    BY BoundsAssumption
  <2>4. OwnInv
    BY <2>1 DEF OwnInv
  <2>5. ResultsInv
    BY <2>2, <2>3 DEF ResultsInv
  <2> QED BY <2>4, <2>5
<1>2. Run /\ OwnInv /\ ResultsInv /\ [Next]_vars => OwnInv' /\ ResultsInv'
  <2> SUFFICES ASSUME Run, OwnInv, ResultsInv, [Next]_vars PROVE OwnInv' /\ ResultsInv'
    OBVIOUS
  <2>1. Written /\ HostTypes
    BY DEF Run
  <2> QED BY <2>1, OwnStep, ResultsStep
<1>3. RunInv => Run
  BY DEF RunInv
<1> QED BY <1>1, <1>2, <1>3, AlwaysRunInv, PTL DEF Spec, Report

-------------------------------------------------------------------------------
(* The runs under a run *)

LEMMA ParentBelow == ASSUME NEW c \in Runs PROVE c \in Nat /\ ParentOf[c] \in Nat /\ ParentOf[c] < c
BY RunsAssumption DEF Runs

Closed(S) == \A q \in S : Kids(q) \subseteq S

LEMMA Walk ==
  ASSUME HostTypes, ResultsInv, NEW r \in Runs
  PROVE  /\ walkUsageNode(r) \in SUBSET Runs /\ r \in walkUsageNode(r) /\ Closed(walkUsageNode(r))
         /\ \A S \in SUBSET Runs : r \in S /\ Closed(S) => walkUsageNode(r) \subseteq S
<1>1. walkUsageNode(r) = {n \in Runs : \A S \in SUBSET Runs : r \in S /\ Closed(S) => n \in S}
  BY DEF walkUsageNode, Closed, Kids
<1>2. ASSUME NEW q \in walkUsageNode(r), NEW c \in Kids(q) PROVE c \in walkUsageNode(r)
  <2>1. q \in Runs /\ \A S \in SUBSET Runs : r \in S /\ Closed(S) => q \in S
    BY <1>1, <1>2
  <2>2. c \in Runs
    BY <1>2, <2>1, NoKids
  <2>3. ASSUME NEW S \in SUBSET Runs, r \in S, Closed(S) PROVE c \in S
    BY <1>2, <2>1, <2>3 DEF Closed
  <2> QED BY <1>1, <2>2, <2>3
<1>3. Closed(walkUsageNode(r))
  BY <1>2 DEF Closed
<1> QED BY <1>1, <1>3

\* What lies below a run comes after it, and each run but the first below its parent.
LEMMA WalkDown ==
  ASSUME HostTypes, ResultsInv, NEW r \in Runs, NEW n \in walkUsageNode(r)
  PROVE  n \in Runs /\ r <= n /\ (n # r => ParentOf[n] \in walkUsageNode(r))
<1> DEFINE W == walkUsageNode(r)
           S == {q \in W : r <= q /\ (q # r => ParentOf[q] \in W)}
<1>1. W \in SUBSET Runs /\ r \in W /\ Closed(W)
  BY Walk
<1>2. S \in SUBSET Runs /\ r \in S
  BY <1>1 DEF Runs
<1>3. ASSUME NEW q \in S, NEW c \in Kids(q) PROVE c \in S
  <2>1. q \in Runs /\ q \in W /\ r <= q
    BY <1>1
  <2>2. ParentOf[c] = q /\ c \in Runs
    BY <1>3, <2>1, NoKids
  <2>3. c \in W
    BY <1>1, <1>3, <2>1 DEF Closed
  <2>4. q < c /\ q \in Nat /\ c \in Nat /\ r \in Nat
    BY <2>2, ParentBelow DEF Runs
  <2>5. r <= c
    BY <2>1, <2>4
  <2> QED BY <2>1, <2>2, <2>3, <2>5
<1>4. Closed(S)
  BY <1>3 DEF Closed
<1>5. W \subseteq S
  BY <1>2, <1>4, Walk
<1> QED BY <1>1, <1>5

\* What lies below r: r itself, and what lies below each of its children.
LEMMA WalkIs ==
  ASSUME HostTypes, ResultsInv, NEW r \in Runs
  PROVE  \A n : n \in walkUsageNode(r) <=> n = r \/ \E c \in Kids(r) : n \in walkUsageNode(c)
<1> DEFINE W == walkUsageNode(r)
           S == {n \in Runs : n = r \/ \E c \in Kids(r) : n \in walkUsageNode(c)}
<1>1. W \in SUBSET Runs /\ r \in W /\ Closed(W) /\ Kids(r) \in SUBSET Runs
  BY Walk, NoKids
<1>2. ASSUME NEW c \in Kids(r) PROVE walkUsageNode(c) \subseteq W
  <2>1. c \in W /\ c \in Runs
    BY <1>1 DEF Closed
  <2> QED BY <1>1, <2>1, Walk
<1>3. ASSUME NEW q \in S, NEW d \in Kids(q) PROVE d \in S
  <2>1. q \in Runs
    OBVIOUS
  <2>2. d \in Runs
    BY <1>3, <2>1, NoKids
  <2>3. CASE q = r
    <3>1. d \in Kids(r) /\ d \in walkUsageNode(d)
      BY <1>3, <2>2, <2>3, Walk
    <3> QED BY <2>2, <3>1
  <2>4. CASE q # r
    <3>1. PICK c \in Kids(r) : q \in walkUsageNode(c)
      BY <2>4
    <3>2. c \in Runs
      BY <1>1
    <3>3. Closed(walkUsageNode(c))
      BY <3>2, Walk
    <3>4. d \in walkUsageNode(c)
      BY <1>3, <3>1, <3>3 DEF Closed
    <3> QED BY <2>2, <3>4
  <2> QED BY <2>3, <2>4
<1>4. Closed(S) /\ S \in SUBSET Runs /\ r \in S
  BY <1>3 DEF Closed
<1>5. W \subseteq S
  BY <1>4, Walk
<1> QED BY <1>1, <1>2, <1>5

\* What lies below two children of a run is apart.
LEMMA WalkApart ==
  ASSUME HostTypes, ResultsInv, NEW r \in Runs, NEW c \in Kids(r), NEW d \in Kids(r), c # d
  PROVE  walkUsageNode(c) \cap walkUsageNode(d) = {}
<1> DEFINE B == walkUsageNode(c) \cap walkUsageNode(d)
<1>1. c \in Runs /\ d \in Runs /\ ParentOf[c] = r /\ ParentOf[d] = r
  BY NoKids
<1>2. r < c /\ r < d /\ r \in Nat /\ c \in Nat /\ d \in Nat
  BY <1>1, ParentBelow DEF Runs
<1>3. r \notin walkUsageNode(c) /\ r \notin walkUsageNode(d)
  BY <1>1, <1>2, WalkDown
<1>4. c \notin walkUsageNode(d)
  BY <1>1, <1>3, WalkDown
<1>5. d \notin walkUsageNode(c)
  BY <1>1, <1>3, WalkDown
<1> SUFFICES ASSUME B # {} PROVE FALSE
  OBVIOUS
<1>6. B \in SUBSET Nat
  <2>1. walkUsageNode(c) \in SUBSET Runs
    BY <1>1, Walk
  <2> QED BY <2>1 DEF Runs
<1>7. PICK n \in B : \A o \in B : n <= o
  <2> HIDE DEF B
  <2> QED BY <1>6, LeastElement
<1>8. n # c /\ n # d /\ n \in walkUsageNode(c) /\ n \in walkUsageNode(d)
  BY <1>4, <1>5, <1>7
<1>9. ParentOf[n] \in B
  BY <1>1, <1>8, WalkDown
<1>10. n \in Runs
  BY <1>1, <1>8, WalkDown
<1>11. ParentOf[n] < n /\ n \in Nat /\ ParentOf[n] \in Nat
  BY <1>10, ParentBelow
<1>12. n <= ParentOf[n]
  BY <1>7, <1>9
<1> QED BY <1>11, <1>12

\* The sum over the children that results.json names is at most the one over those it counts.
LEMMA CountedAbove ==
  ASSUME HostTypes, NEW r \in Runs, Kids(r) \subseteq found[r], NEW f, \A n \in Runs : f[n] \in Nat
  PROVE  /\ Counted(r, f) \in Nat /\ Above(r, f) \in Nat
         /\ Counted(r, f) >= Above(r, f) /\ (found[r] = Kids(r) => Counted(r, f) = Above(r, f))
<1> DEFINE F == found[r]
           K == Kids(r)
           D == F \ K
           g == [c \in F |-> f[c]]
           h == [c \in K |-> f[c]]
<1>1. F \in SUBSET Runs /\ K \in SUBSET Runs /\ D \in SUBSET Runs /\ F = K \cup D /\ K \cap D = {}
  BY OutAt
<1>2. IsFiniteSet(F) /\ IsFiniteSet(K) /\ IsFiniteSet(D)
  BY <1>1, RunsFinite
<1>3. /\ \A c \in F : g[c] \in Nat
      /\ \A c \in K : h[c] \in Nat /\ g[c] = h[c]
  BY <1>1
<1>4. Counted(r, f) = SumFunctionOnSet(g, F) /\ Above(r, f) = SumFunctionOnSet(h, K)
  BY DEF Counted, Above, Over
<1>5. K = F => g = h
  OBVIOUS
<1> HIDE DEF g, h, F, K, D
<1>6. SumFunctionOnSet(g, K) = SumFunctionOnSet(h, K)
  BY <1>2, <1>3, SumEqual
<1>7. SumFunctionOnSet(g, K \cup D) = SumFunctionOnSet(g, K) + SumFunctionOnSet(g, D)
  <2>1. \A c \in K \cup D : g[c] \in Int
    BY <1>1, <1>3
  <2> QED BY <1>1, <1>2, <2>1, SumUnion
<1>8. SumFunctionOnSet(g, D) \in Nat /\ SumFunctionOnSet(h, K) \in Nat /\ SumFunctionOnSet(g, F) \in Nat
  <2>1. \A c \in D : g[c] \in Nat
    BY <1>1, <1>3
  <2> QED BY <1>2, <1>3, <2>1, SumNat
<1>9. SumFunctionOnSet(g, F) = SumFunctionOnSet(h, K) + SumFunctionOnSet(g, D)
  BY <1>1, <1>6, <1>7
<1>10. SumFunctionOnSet(g, F) >= SumFunctionOnSet(h, K)
  BY <1>8, <1>9
<1>11. F = K => SumFunctionOnSet(g, F) = SumFunctionOnSet(h, K)
  BY <1>5
<1> QED BY <1>4, <1>8, <1>10, <1>11 DEF F, K

\* A is at least B, and if e = 1 no more.
Bounds(e, A, B) == A >= B /\ (e = 1 => A = B)

\* What is said of each run by its own and its children's numbers holds of all below it.
LEMMA TreeSum ==
  ASSUME HostTypes, ResultsInv, NEW g, NEW f, NEW e \in {0, 1}, NEW r \in Runs, out[r].results.written,
         \A n \in Runs : g[n] \in Int /\ f[n] \in Int,
         \A n \in walkUsageNode(r) : out[n].results.written => Bounds(e, f[n], g[n] + Above(n, f))
  PROVE  Bounds(e, f[r], SumFunctionOnSet(g, walkUsageNode(r)))
<1> DEFINE S(n) == SumFunctionOnSet(g, walkUsageNode(n))
           Bad == {n \in walkUsageNode(r) : out[n].results.written /\ ~Bounds(e, f[n], S(n))}
           D == {NumRuns - n : n \in Bad}
<1>0. NumRuns \in Nat /\ Runs = 1..NumRuns
  BY RunsAssumption DEF Runs
<1>a. walkUsageNode(r) \in SUBSET Runs /\ r \in walkUsageNode(r) /\ Closed(walkUsageNode(r))
  BY Walk
<1> SUFFICES ASSUME Bad # {} PROVE FALSE
  BY <1>a
<1>1. D \in SUBSET Nat /\ D # {}
  BY <1>0, <1>a
<1>2. PICK d \in D : \A o \in D : d <= o
  <2> HIDE DEF D
  <2> QED BY <1>1, LeastElement
<1>3. PICK n \in Bad : d = NumRuns - n
  BY <1>2
<1>4. n \in Runs /\ out[n].results.written /\ ~Bounds(e, f[n], S(n)) /\ n \in walkUsageNode(r)
  BY <1>3, <1>a
<1> DEFINE C == Kids(n)
           Wf == [c \in C |-> walkUsageNode(c)]
           h == [c \in C |-> f[c]]
           l == [c \in C |-> S(c)]
           W == walkUsageNode(n)
           V == W \ {n}
<1>5. C \in SUBSET Runs /\ \A c \in C : ParentOf[c] = n /\ out[c].results.written
  BY <1>4, NoKids
<1>6. \A c \in C : n < c /\ n \in Nat /\ c \in Nat
  BY <1>4, <1>5, ParentBelow DEF Runs
<1>7. ASSUME NEW c \in C PROVE Bounds(e, f[c], S(c))
  <2>1. c \in Runs /\ n < c /\ n \in Nat /\ c \in Nat
    BY <1>5, <1>6
  <2>2. c \in Bad => NumRuns - c \in D /\ NumRuns - c < d
    BY <1>0, <1>3, <1>4, <2>1
  <2>3. c \notin Bad
    <3> SUFFICES ASSUME c \in Bad PROVE FALSE
      OBVIOUS
    <3>1. d <= NumRuns - c /\ NumRuns - c < d
      BY <1>2, <2>2
    <3> QED BY <1>0, <1>3, <1>4, <2>1, <3>1
  <2>4. c \in walkUsageNode(r)
    BY <1>4, <1>a DEF Closed
  <2> QED BY <1>5, <2>3, <2>4
<1>8. W \in SUBSET Runs /\ n \in W /\ \A x : x \in W <=> x = n \/ \E c \in C : x \in walkUsageNode(c)
  BY <1>4, Walk, WalkIs
<1>9. \A c \in C : n \notin walkUsageNode(c)
  BY <1>4, <1>5, <1>6, WalkDown
<1>10. IsUnion(Wf, C, V)
  BY <1>8, <1>9 DEF IsUnion
<1>11. IsFiniteSet(C) /\ IsFiniteSet(W)
  BY <1>5, <1>8, RunsFinite
<1>12. ASSUME NEW c \in C
       PROVE  /\ IsFiniteSet(Wf[c]) /\ l[c] = SumFunctionOnSet(g, Wf[c])
              /\ \A x \in Wf[c] : g[x] \in Int
              /\ \A o \in C : c # o => Wf[c] \cap Wf[o] = {}
  <2>1. walkUsageNode(c) \in SUBSET Runs
    BY <1>5, Walk
  <2>2. \A o \in C : c # o => walkUsageNode(c) \cap walkUsageNode(o) = {}
    BY <1>4, WalkApart
  <2> QED BY <2>1, <2>2, RunsFinite
<1>13. SumFunctionOnSet(g, V) = SumFunctionOnSet(l, C)
  <2> HIDE DEF Wf, l, V, C
  <2> QED BY <1>10, <1>11, <1>12, SumFamily
<1>14. S(n) = g[n] + SumFunctionOnSet(g, V)
  <2>1. \A x \in W : g[x] \in Int
    BY <1>8
  <2> HIDE DEF W
  <2>2. SumFunctionOnSet(g, W) = g[n] + SumFunctionOnSet(g, V)
    BY <1>8, <1>11, <2>1, SumRemove
  <2> QED BY <2>2 DEF W
<1>15. \A c \in C : l[c] \in Int /\ h[c] \in Int /\ Bounds(e, h[c], l[c])
  <2> SUFFICES ASSUME NEW c \in C PROVE l[c] \in Int /\ h[c] \in Int /\ Bounds(e, h[c], l[c])
    OBVIOUS
  <2>1. h[c] = f[c] /\ l[c] = S(c) /\ f[c] \in Int
    BY <1>5
  <2>2. S(c) \in Int
    BY <1>12, SumType
  <2> HIDE DEF S, h, l
  <2> QED BY <1>7, <2>1, <2>2
<1>16. Bounds(e, f[n], g[n] + SumFunctionOnSet(h, C))
  BY <1>4 DEF Above, Over
<1> HIDE DEF h, l, C, S, V
<1>17. SumFunctionOnSet(l, C) <= SumFunctionOnSet(h, C)
  <2>1. \A c \in C : l[c] \in Int /\ h[c] \in Int /\ l[c] <= h[c]
    BY <1>15 DEF Bounds
  <2> QED BY <1>11, <2>1, SumMonotone
<1>18. e = 1 => SumFunctionOnSet(l, C) = SumFunctionOnSet(h, C)
  <2> SUFFICES ASSUME e = 1 PROVE SumFunctionOnSet(l, C) = SumFunctionOnSet(h, C)
    OBVIOUS
  <2>1. \A c \in C : h[c] \in Int /\ l[c] = h[c]
    BY <1>15 DEF Bounds
  <2> QED BY <1>11, <2>1, SumEqual
<1>19. SumFunctionOnSet(l, C) \in Int /\ SumFunctionOnSet(h, C) \in Int /\ g[n] \in Int /\ f[n] \in Int
  BY <1>4, <1>11, <1>15, SumType
<1>20. Bounds(e, f[n], S(n))
  BY <1>13, <1>14, <1>16, <1>17, <1>18, <1>19 DEF Bounds
<1> QED BY <1>4, <1>20

-------------------------------------------------------------------------------
(* The lines of a report *)

Column1(k) == [x \in Lines(Runs) |-> LineOf(x).tokens[k]]

LEMMA LinesType ==
  ASSUME HostTypes, ResultsInv, NEW S \in SUBSET Runs
  PROVE  /\ Lines(S) \in SUBSET Lines(Runs) /\ IsFiniteSet(Lines(S))
         /\ \A x \in Lines(S) : /\ x[1] \in S /\ LineOf(x).model \in Models /\ LineOf(x).tokens \in Counts
                                /\ LineOf(x).request \in Responses
         /\ \A k \in Fields : \A x \in Lines(S) : Column1(k)[x] = LineOf(x).tokens[k] /\ Column1(k)[x] \in Nat
<1>1. Lines(S) \in SUBSET Lines(Runs)
  BY DEF Lines
<1>2. IsFiniteSet(Lines(S))
  <2>1. IsFiniteSet(S) /\ IsFiniteSet(1..NumResponses)
    BY RunsFinite, BoundsAssumption, FS_Interval
  <2>2. IsFiniteSet(S \X (1..NumResponses))
    BY <2>1, FS_Product
  <2> QED BY <2>2, FS_Subset DEF Lines
<1>3. ASSUME NEW x \in Lines(S)
      PROVE  x[1] \in S /\ LineOf(x).model \in Models /\ LineOf(x).tokens \in Counts /\ LineOf(x).request \in Responses
  <2>1. x[1] \in S /\ x[2] \in DOMAIN out[x[1]].usageLog
    BY DEF Lines
  <2>2. out[x[1]].usageLog \in Seq(LogLine)
    BY <2>1, OutAt
  <2> QED BY <2>1, <2>2, LineAt DEF LineOf
<1>4. ASSUME NEW k \in Fields, NEW x \in Lines(S) PROVE Column1(k)[x] = LineOf(x).tokens[k] /\ Column1(k)[x] \in Nat
  <2>1. Column1(k)[x] = LineOf(x).tokens[k]
    BY <1>1 DEF Column1
  <2> QED BY <1>3, <2>1, CountsShape
<1> QED BY <1>1, <1>2, <1>3, <1>4

\* What processUsageJSONL makes of some lines.
LEMMA LinesSum ==
  ASSUME HostTypes, ResultsInv, NEW X \in SUBSET Lines(Runs)
  PROVE  /\ IsFiniteSet(X) /\ processUsageJSONL(X) \in Counts
         /\ \A k \in Fields : processUsageJSONL(X)[k] = SumFunctionOnSet(Column1(k), X)
<1> DEFINE F == [x \in X |-> LineOf(x).tokens]
<1>1. IsFiniteSet(X)
  BY LinesType, FS_Subset
<1>2. F \in [X -> Counts]
  BY LinesType
<1>3. ASSUME NEW k \in Fields
      PROVE  SumFunctionOnSet([x \in X |-> F[x][k]], X) = SumFunctionOnSet(Column1(k), X)
  <2> DEFINE g == [x \in X |-> F[x][k]]
  <2>1. \A x \in X : g[x] = Column1(k)[x] /\ Column1(k)[x] \in Int
    BY LinesType
  <2> HIDE DEF g
  <2>2. SumFunctionOnSet(g, X) = SumFunctionOnSet(Column1(k), X)
    BY <1>1, <2>1, SumEqual
  <2> QED BY <2>2 DEF g
<1>4. processUsageJSONL(X) = SumTokens(F)
  BY DEF processUsageJSONL
<1> HIDE DEF F
<1>5. SumTokens(F) \in Counts /\ \A k \in Fields : SumTokens(F)[k] = SumFunctionOnSet([x \in X |-> F[x][k]], X)
  BY <1>1, <1>2, TokensSum
<1> QED BY <1>1, <1>3, <1>4, <1>5

LinesOf(S, m) == {x \in Lines(S) : LineOf(x).model = m}

\* The lines of one run, of one model: what readPerModelTokens makes of its log.
LEMMA OneLog ==
  ASSUME HostTypes, ResultsInv, NEW n \in Runs, NEW m \in Models, NEW k \in Fields
  PROVE  ReadOf(m, k)[n] = SumFunctionOnSet(Column1(k), LinesOf({n}, m))
<1> DEFINE L == out[n].usageLog
           S == OfModel(L, m)
           T == LinesOf({n}, m)
           p == [i \in S |-> <<n, i>>]
<1>1. L \in Seq(LogLine) /\ Len(L) <= NumResponses
  BY OutAt DEF ResultsInv
<1>2. ReadOf(m, k)[n] = SumFunctionOnSet(Column(L, k), S)
  BY <1>1, ReadIs DEF ReadOf
<1>3. DOMAIN L \subseteq 1..NumResponses
  <2>1. Len(L) \in Nat /\ NumResponses \in Nat /\ DOMAIN L = 1..Len(L)
    BY <1>1, BoundsAssumption
  <2> QED BY <1>1, <2>1
<1>4. \A y : y \in T <=> \E i \in S : y = <<n, i>>
  <2>1. ASSUME NEW y \in T PROVE \E i \in S : y = <<n, i>>
    <3>1. y \in {n} \X (1..NumResponses) /\ y[2] \in DOMAIN out[y[1]].usageLog /\ LineOf(y).model = m
      BY DEF LinesOf, Lines
    <3>2. y = <<n, y[2]>> /\ y[2] \in S
      BY <3>1 DEF LineOf, OfModel
    <3> QED BY <3>2
  <2>2. ASSUME NEW i \in S PROVE <<n, i>> \in T
    BY <1>3 DEF LinesOf, Lines, LineOf, OfModel
  <2> QED BY <2>1, <2>2
<1>5. IsRenaming(p, S, T)
  BY <1>4 DEF IsRenaming
<1>6. \A i \in S : Column(L, k)[i] \in Int /\ Column1(k)[p[i]] = Column(L, k)[i]
  <2> SUFFICES ASSUME NEW i \in S PROVE Column(L, k)[i] \in Int /\ Column1(k)[p[i]] = Column(L, k)[i]
    OBVIOUS
  <2>1. i \in DOMAIN L
    BY DEF OfModel
  <2>2. Column(L, k)[i] = L[i].tokens[k] /\ Column(L, k)[i] \in Int
    BY <1>1, <2>1, ColumnNat DEF Column
  <2>3. <<n, i>> \in Lines({n})
    BY <1>4 DEF LinesOf
  <2>4. Column1(k)[<<n, i>>] = LineOf(<<n, i>>).tokens[k]
    BY <2>3, LinesType
  <2> QED BY <2>2, <2>4 DEF LineOf
<1>7. IsFiniteSet(S)
  BY <1>1, OfModelFinite
<1> HIDE DEF S, T, p, L
<1>8. SumFunctionOnSet(Column1(k), T) = SumFunctionOnSet(Column(L, k), S)
  BY <1>5, <1>6, <1>7, SumImage
<1> QED BY <1>2, <1>8 DEF T

\* A sum over the lines of some runs, by run.
LEMMA LinesByRun ==
  ASSUME HostTypes, ResultsInv, NEW N \in SUBSET Runs, NEW m \in Models, NEW k \in Fields
  PROVE  SumFunctionOnSet(Column1(k), LinesOf(N, m)) = SumFunctionOnSet(ReadOf(m, k), N)
<1> DEFINE X == LinesOf(N, m)
           q == [x \in X |-> x[1]]
<1>1. X \in SUBSET Lines(N) /\ IsFiniteSet(N)
  BY RunsFinite DEF LinesOf
<1>2. IsFiniteSet(X)
  BY <1>1, LinesType, FS_Subset
<1>3. \A x \in X : q[x] \in N /\ Column1(k)[x] \in Int
  BY <1>1, LinesType
<1> DEFINE f == Column1(k)
           h == ReadOf(m, k)
           W == [n \in N |-> LinesOf({n}, m)]
<1>4. IsPartition(W, X, q, N)
  BY DEF IsPartition, LinesOf, Lines
<1>5. \A n \in N : h[n] = SumFunctionOnSet(f, W[n])
  BY OneLog
<1>6. \A x \in X : q[x] \in N /\ f[x] \in Int
  BY <1>3
<1> HIDE DEF X, q, f, h, W
<1>7. SumFunctionOnSet(f, X) = SumFunctionOnSet(h, N)
  BY <1>1, <1>2, <1>4, <1>5, <1>6, SumPartition
<1> QED BY <1>7 DEF X, f, h

\* The parts of a report.
LEMMA ReportIs ==
  ASSUME NEW r
  PROVE  LET N == walkUsageNode(r)
             report == UsageReport(r)
             total == SumFunction([n \in N |-> Cost(n, out[n].usageJSON)])
             names == {Bucket(x) : x \in Lines(N)} \cup {"(main)"}
             In(s) == {x \in Lines(N) : Bucket(x) = s}
         IN  /\ report.totalCost = total
             /\ report.tokens = [m \in Models |-> processUsageJSONL(LinesOf(N, m))]
             /\ report.cost = processUsageJSON(N)
             /\ report.byChild = [n \in N |-> [cost |-> Cost(n, out[n].usageJSON), tokens |-> processUsageJSONL(Lines({n}))]]
             /\ report.bySubagent = [s \in names |-> [tokens |-> processUsageJSONL(In(s)),
                  cost |-> ComputedCost(In(s)) + IF s = "(main)" THEN Residual(total, ComputedCost(Lines(N))) ELSE 0]]
BY DEF UsageReport, LinesOf

LEMMA OutCost ==
  ASSUME Base, HostTypes, NEW n \in Runs
  PROVE  Cost(n, out[n].usageJSON) \in Nat /\ \A m \in Models : CostUSD(vendor[n], m, out[n].usageJSON.tokens[m]) \in Nat
<1>1. out[n].usageJSON.tokens \in [Models -> Counts] /\ vendor[n] \in Vendors
  BY OutAt DEF Base, ProxyTypes
<1>2. \A m \in Models : Valid(vendor[n], out[n].usageJSON.tokens[m])
  BY DEF HostTypes
<1> QED BY <1>1, <1>2, CostNat

\* The report on a finished run has at least the cost that its results.json says and never more
\* tokens, whatever was recorded while it finished and whichever children it missed; it has the
\* same tokens if both readings found the same children (finishAgentRun, writeResults, walkUsageNode).
THEOREM ReportCoversResultsHolds == Spec => []ReportCoversResults
<1>1. ASSUME Report, NEW r \in Runs, Finished(r)
      PROVE  /\ UsageReport(r).totalCost >= out[r].results.total
             /\ \A m \in Models : AtMost(UsageReport(r).tokens[m], out[r].results.tokens[m])
             /\ ReadAlike(r) => UsageReport(r).tokens = out[r].results.tokens
  <2> DEFINE N == walkUsageNode(r)
  <2>1. Base /\ HostTypes /\ ResultsInv /\ OwnInv
    BY <1>1 DEF Report, RunInv, Run, Written, Tracked
  <2>2. out[r].results.written /\ N \in SUBSET Runs /\ IsFiniteSet(N)
    BY <1>1, <2>1, Walk, RunsFinite DEF Finished
  <2>3. \A n \in N : out[n].results.written
    <3> DEFINE S == {n \in N : out[n].results.written}
    <3>1. r \in S /\ S \in SUBSET Runs
      BY <2>1, <2>2, Walk
    <3>2. Closed(S)
      BY <2>1, <2>2, Walk, NoKids DEF Closed
    <3> QED BY <2>1, <3>1, <3>2, Walk
  <2>4. ASSUME NEW m \in Models, NEW e \in {0, 1}, e = 1 => ReadAlike(r)
        PROVE  /\ UsageReport(r).tokens[m] \in Counts /\ out[r].results.tokens[m] \in Counts
               /\ \A k \in Fields : Bounds(e, out[r].results.tokens[m][k], UsageReport(r).tokens[m][k])
    <3>1. UsageReport(r).tokens[m] = processUsageJSONL(LinesOf(N, m))
      <4>1. UsageReport(r).tokens = [n \in Models |-> processUsageJSONL(LinesOf(N, n))]
        BY ReportIs
      <4> QED BY <4>1
    <3>2. LinesOf(N, m) \in SUBSET Lines(Runs)
      BY <2>1, <2>2, LinesType DEF LinesOf
    <3>3. processUsageJSONL(LinesOf(N, m)) \in Counts /\ out[r].results.tokens[m] \in Counts
      BY <2>1, <3>2, LinesSum, OutAt
    <3>4. ASSUME NEW k \in Fields
          PROVE  Bounds(e, out[r].results.tokens[m][k], processUsageJSONL(LinesOf(N, m))[k])
      <4> DEFINE g == ReadOf(m, k)
                 f == TokensOf(m, k)
      <4>1. \A n \in Runs : g[n] \in Nat /\ f[n] \in Nat
        BY <2>1, OutAt, ReadIs, CountsShape DEF ReadOf, TokensOf
      <4>2. \A n \in N : ResultsOK(n) /\ f[n] = g[n] + Counted(n, f) /\ Kids(n) \subseteq found[n]
                         /\ (e = 1 => found[n] = Kids(n))
        <5>1. \A n \in N : ResultsOK(n)
          BY <2>1, <2>2, <2>3, NoKids
        <5>2. \A n \in N : e = 1 => found[n] = Kids(n)
          BY <2>4 DEF ReadAlike, Kids
        <5> QED BY <5>1, <5>2 DEF ResultsOK
      <4>3. f[r] = out[r].results.tokens[m][k]
        BY DEF TokensOf
      <4>4. processUsageJSONL(LinesOf(N, m))[k] = SumFunctionOnSet(Column1(k), LinesOf(N, m))
        BY <2>1, <3>2, LinesSum
      <4>5. SumFunctionOnSet(Column1(k), LinesOf(N, m)) = SumFunctionOnSet(g, N)
        BY <2>1, <2>2, LinesByRun
      <4> HIDE DEF g, f
      <4>6. ASSUME NEW n \in N PROVE Bounds(e, f[n], g[n] + Above(n, f))
        <5>1. n \in Runs /\ f[n] \in Nat /\ g[n] \in Nat
          BY <2>2, <4>1
        <5>2. /\ Counted(n, f) \in Nat /\ Above(n, f) \in Nat
              /\ Counted(n, f) >= Above(n, f) /\ (e = 1 => Counted(n, f) = Above(n, f))
          BY <2>1, <4>1, <4>2, <5>1, CountedAbove
        <5> QED BY <4>2, <5>1, <5>2 DEF Bounds
      <4>7. \A n \in Runs : g[n] \in Int /\ f[n] \in Int
        BY <4>1
      <4>8. Bounds(e, f[r], SumFunctionOnSet(g, N))
        BY <2>1, <2>2, <4>6, <4>7, TreeSum
      <4> QED BY <4>3, <4>4, <4>5, <4>8
    <3> QED BY <3>1, <3>3, <3>4
  <2>5. UsageReport(r).tokens = [m \in Models |-> UsageReport(r).tokens[m]]
    <3> DEFINE F == [m \in Models |-> processUsageJSONL(LinesOf(N, m))]
    <3>1. UsageReport(r).tokens = F
      BY ReportIs
    <3>2. F = [m \in Models |-> F[m]]
      OBVIOUS
    <3> QED BY <3>1, <3>2
  <2>6. out[r].results.tokens = [m \in Models |-> out[r].results.tokens[m]]
    BY <2>1, OutAt
  <2>7. UsageReport(r).totalCost >= out[r].results.total
    <3> DEFINE c == [n \in N |-> Cost(n, out[n].usageJSON)]
    <3>1. UsageReport(r).totalCost = SumFunctionOnSet(c, N)
      BY ReportIs DEF SumFunction
    <3>2. \A n \in Runs : own[n] \in Int /\ TotalOf[n] \in Int
      BY <2>1, OutAt DEF TotalOf
    <3>3. \A n \in Runs : out[n].results.written => TotalOf[n] = own[n] + Above(n, TotalOf)
      BY <2>1, NoKids DEF ResultsOK
    <3>a. \A n \in N : out[n].results.written => Bounds(1, TotalOf[n], own[n] + Above(n, TotalOf))
      <4>1. \A n \in N : n \in Runs /\ TotalOf[n] \in Int
        BY <2>2, <3>2
      <4> QED BY <3>3, <4>1 DEF Bounds
    <3>4. TotalOf[r] = SumFunctionOnSet(own, N)
      <4>1. Bounds(1, TotalOf[r], SumFunctionOnSet(own, N))
        BY <2>1, <2>2, <3>2, <3>a, TreeSum
      <4> QED BY <4>1 DEF Bounds
    <3>5. ASSUME NEW n \in N PROVE own[n] \in Int /\ c[n] \in Int /\ own[n] <= c[n]
      <4>1. n \in Runs /\ host[n] = "done" /\ <<"copy", n>> \notin failed
        BY <1>1, <2>1, <2>2, <2>3, NoKids DEF ResultsOK, Finished
      <4>2. own[n] <= Cost(n, out[n].usageJSON)
        BY <2>1, <4>1, CostIsOf DEF OwnInv
      <4> QED BY <2>1, <3>2, <4>1, <4>2, OutCost
    <3> HIDE DEF c
    <3>6. SumFunctionOnSet(own, N) <= SumFunctionOnSet(c, N)
      BY <2>2, <3>5, SumMonotone
    <3>7. TotalOf[r] = out[r].results.total
      BY DEF TotalOf
    <3>8. SumFunctionOnSet(own, N) \in Int /\ SumFunctionOnSet(c, N) \in Int
      BY <2>2, <3>5, SumType
    <3> QED BY <3>1, <3>4, <3>6, <3>7, <3>8
  <2>8. ASSUME NEW m \in Models PROVE AtMost(UsageReport(r).tokens[m], out[r].results.tokens[m])
    <3>1. /\ UsageReport(r).tokens[m] \in Counts /\ out[r].results.tokens[m] \in Counts
          /\ \A k \in Fields : Bounds(0, out[r].results.tokens[m][k], UsageReport(r).tokens[m][k])
      BY <2>4
    <3>2. DOMAIN UsageReport(r).tokens[m] = Fields
      BY <3>1, CountsShape
    <3>3. \A k \in Fields : UsageReport(r).tokens[m][k] \in Nat /\ out[r].results.tokens[m][k] \in Nat
      BY <3>1, CountsShape
    <3> QED BY <3>1, <3>2, <3>3 DEF AtMost, Bounds
  <2>9. ASSUME ReadAlike(r), NEW m \in Models PROVE UsageReport(r).tokens[m] = out[r].results.tokens[m]
    <3>1. /\ UsageReport(r).tokens[m] \in Counts /\ out[r].results.tokens[m] \in Counts
          /\ \A k \in Fields : Bounds(1, out[r].results.tokens[m][k], UsageReport(r).tokens[m][k])
      BY <2>4, <2>9
    <3>2. \A k \in Fields : UsageReport(r).tokens[m][k] = out[r].results.tokens[m][k]
      BY <3>1 DEF Bounds
    <3> QED BY <3>1, <3>2, CountsExt
  <2>10. ReadAlike(r) => UsageReport(r).tokens = out[r].results.tokens
    BY <2>5, <2>6, <2>9
  <2> QED BY <2>7, <2>8, <2>10
<1>2. Report => ReportCoversResults
  BY <1>1 DEF ReportCoversResults
<1> QED BY <1>2, AlwaysReport, PTL

\* Lines that are put into classes have the same tokens, class by class, as all together.
LEMMA ClassTokens ==
  ASSUME HostTypes, ResultsInv, NEW X \in SUBSET Lines(Runs), NEW P, IsFiniteSet(P), NEW q, NEW W,
         IsPartition(W, X, q, P), \A x \in X : q[x] \in P,
         NEW F, F = [s \in P |-> processUsageJSONL(W[s])]
  PROVE  SumTokens(F) = processUsageJSONL(X)
<1>1. \A s \in P : W[s] \in SUBSET X
  BY DEF IsPartition
<1>2. \A s \in P : /\ processUsageJSONL(W[s]) \in Counts
                   /\ \A k \in Fields : processUsageJSONL(W[s])[k] = SumFunctionOnSet(Column1(k), W[s])
  <2>1. \A s \in P : W[s] \in SUBSET Lines(Runs)
    BY <1>1
  <2> QED BY <2>1, LinesSum
<1>3. F \in [P -> Counts]
  BY <1>2
<1>4. SumTokens(F) \in Counts /\ \A k \in Fields : SumTokens(F)[k] = SumFunctionOnSet([s \in P |-> F[s][k]], P)
  BY <1>3, TokensSum
<1>5. ASSUME NEW k \in Fields PROVE SumTokens(F)[k] = processUsageJSONL(X)[k]
  <2> DEFINE f == Column1(k)
             h == [s \in P |-> F[s][k]]
  <2>1. \A s \in P : h[s] = SumFunctionOnSet(f, W[s])
    BY <1>2
  <2>2. \A x \in X : q[x] \in P /\ f[x] \in Int
    BY LinesType
  <2>3. IsFiniteSet(X) /\ processUsageJSONL(X)[k] = SumFunctionOnSet(f, X)
    BY LinesSum
  <2>4. SumTokens(F)[k] = SumFunctionOnSet(h, P)
    BY <1>4
  <2> HIDE DEF f, h
  <2>5. SumFunctionOnSet(f, X) = SumFunctionOnSet(h, P)
    BY <2>1, <2>2, <2>3, SumPartition
  <2> QED BY <2>3, <2>4, <2>5
<1>6. processUsageJSONL(X) \in Counts
  BY LinesSum
<1> QED BY <1>4, <1>5, <1>6, CountsExt

\* What lines would cost.
LineCost == [x \in Lines(Runs) |-> anthropicCostUSD(LineOf(x).model, LineOf(x).tokens)]

LEMMA LinesCost ==
  ASSUME HostTypes, ResultsInv, NEW X \in SUBSET Lines(Runs)
  PROVE  /\ ComputedCost(X) = SumFunctionOnSet(LineCost, X) /\ ComputedCost(X) \in Int
         /\ \A x \in X : LineCost[x] \in Int
<1> DEFINE f == [x \in X |-> anthropicCostUSD(LineOf(x).model, LineOf(x).tokens)]
<1>1. IsFiniteSet(X)
  BY LinesSum
<1>2. \A x \in X : f[x] = LineCost[x] /\ LineCost[x] \in Int
  <2> SUFFICES ASSUME NEW x \in X PROVE f[x] = LineCost[x] /\ LineCost[x] \in Int
    OBVIOUS
  <2> DEFINE t == LineOf(x).tokens
             m == LineOf(x).model
  <2>1. t \in Counts
    BY LinesType
  <2>2. LineCost[x] = anthropicCostUSD(m, t)
    BY DEF LineCost
  <2> HIDE DEF t, m
  <2>3. CostUSD("anthropic", m, t) \in Nat
    BY <2>1, CostWithin, WithinItself DEF Valid, Vendors
  <2>4. CostUSD("anthropic", m, t) = anthropicCostUSD(m, t)
    BY DEF CostUSD
  <2> QED BY <2>2, <2>3, <2>4 DEF t, m
<1>3. ComputedCost(X) = SumFunctionOnSet(f, X)
  BY DEF ComputedCost, SumFunction
<1> HIDE DEF f
<1>4. SumFunctionOnSet(f, X) = SumFunctionOnSet(LineCost, X)
  BY <1>1, <1>2, SumEqual
<1>5. SumFunctionOnSet(LineCost, X) \in Int
  BY <1>1, <1>2, SumType
<1> QED BY <1>2, <1>3, <1>4, <1>5

\* The cost of the buckets: what is left over of the total makes up the difference.
LEMMA BucketCost ==
  ASSUME HostTypes, ResultsInv, NEW X \in SUBSET Lines(Runs), NEW P, IsFiniteSet(P), NEW q, NEW W,
         IsPartition(W, X, q, P), \A x \in X : q[x] \in P, NEW main \in P, NEW total \in Int,
         NEW c, c = [s \in P |-> ComputedCost(W[s]) + IF s = main THEN Residual(total, ComputedCost(X)) ELSE 0]
  PROVE  SumFunctionOnSet(c, P) = total
<1> DEFINE a == [s \in P |-> ComputedCost(W[s])]
           left == total - ComputedCost(X)
           d == [s \in P |-> IF s = main THEN left ELSE 0]
<1>1. IsFiniteSet(X) /\ ComputedCost(X) = SumFunctionOnSet(LineCost, X) /\ ComputedCost(X) \in Int
      /\ \A x \in X : LineCost[x] \in Int
  BY LinesCost, LinesSum
<1>2. \A s \in P : W[s] \in SUBSET Lines(Runs)
  BY DEF IsPartition
<1>3. \A s \in P : a[s] = SumFunctionOnSet(LineCost, W[s]) /\ a[s] \in Int
  BY <1>2, LinesCost
<1>4. \A s \in P : c[s] = a[s] + d[s] /\ d[s] \in Int
  BY <1>1 DEF Residual
<1>5. left \in Int /\ d[main] = left /\ \A s \in P \ {main} : d[s] = 0
  BY <1>1
<1> HIDE DEF a, d
<1>6. SumFunctionOnSet(LineCost, X) = SumFunctionOnSet(a, P)
  BY <1>1, <1>3, SumPartition
<1>7. SumFunctionOnSet(c, P) = SumFunctionOnSet(a, P) + SumFunctionOnSet(d, P)
  BY <1>3, <1>4, SumPlus
<1>8. SumFunctionOnSet(d, P) = d[main] + SumFunctionOnSet(d, P \ {main})
  BY <1>4, SumRemove
<1>9. SumFunctionOnSet(d, P \ {main}) = 0
  <2>1. IsFiniteSet(P \ {main})
    BY FS_Subset
  <2> QED BY <2>1, <1>5, SumZeros
<1> QED BY <1>1, <1>5, <1>6, <1>7, <1>8, <1>9

\* The cost of the report by run and by model.
LEMMA ModelCost ==
  ASSUME Base, HostTypes, NEW N \in SUBSET Runs
  PROVE  SumFunction([n \in N |-> Cost(n, out[n].usageJSON)]) = SumFunction(processUsageJSON(N))
<1> DEFINE f == [n \in N |-> [m \in Models |-> CostUSD(vendor[n], m, out[n].usageJSON.tokens[m])]]
           t == [m \in Models |-> [n \in N |-> CostUSD(vendor[n], m, out[n].usageJSON.tokens[m])]]
           u == [n \in N |-> Cost(n, out[n].usageJSON)]
           c == processUsageJSON(N)
<1>1. IsFiniteSet(N) /\ IsFiniteSet(Models)
  BY RunsFinite, ModelsAssumption
<1>2. \A n \in N : \A m \in Models : f[n][m] \in Int /\ t[m][n] = f[n][m]
  BY OutCost
<1>3. \A n \in N : u[n] = SumFunctionOnSet(f[n], Models)
  BY DEF Cost, modelCostUSD, SumFunction
<1>4. \A m \in Models : c[m] = SumFunctionOnSet(t[m], N)
  BY DEF processUsageJSON, SumFunction
<1>5. SumFunction(u) = SumFunctionOnSet(u, N) /\ SumFunction(c) = SumFunctionOnSet(c, Models)
  BY DEF SumFunction, processUsageJSON
<1> HIDE DEF f, t, u, c
<1>6. IsTable(N, Models, f, t, u, c)
  BY <1>2, <1>3, <1>4 DEF IsTable
<1>7. SumFunctionOnSet(u, N) = SumFunctionOnSet(c, Models)
  BY <1>1, <1>6, SumSwap
<1> QED BY <1>5, <1>7 DEF u, c

\* The three breakdowns of a report have the same tokens and the same cost: "this ensures
\* no spend is lost" (buildUsageReport).
THEOREM ReportBalancesHolds == Spec => []ReportBalances
<1>1. ASSUME Report, NEW r \in Runs
      PROVE  LET report == UsageReport(r)
                 sum == SumTokens(report.tokens)
                 Costs(f) == SumFunction([x \in DOMAIN f |-> f[x].cost])
             IN  /\ sum = SumTokens([n \in DOMAIN report.byChild |-> report.byChild[n].tokens])
                 /\ sum = SumTokens([s \in DOMAIN report.bySubagent |-> report.bySubagent[s].tokens])
                 /\ report.totalCost = Costs(report.byChild)
                 /\ report.totalCost = Costs(report.bySubagent)
                 /\ report.totalCost = SumFunction(report.cost)
  <2> DEFINE report == UsageReport(r)
             N == walkUsageNode(r)
             X == Lines(N)
             total == SumFunction([n \in N |-> Cost(n, out[n].usageJSON)])
             names == {Bucket(x) : x \in X} \cup {"(main)"}
             In(s) == {x \in X : Bucket(x) = s}
             children == [n \in N |-> [cost |-> Cost(n, out[n].usageJSON), tokens |-> processUsageJSONL(Lines({n}))]]
             buckets == [s \in names |-> [tokens |-> processUsageJSONL(In(s)),
                          cost |-> ComputedCost(In(s)) + IF s = "(main)" THEN Residual(total, ComputedCost(X)) ELSE 0]]
  <2>1. Base /\ HostTypes /\ ResultsInv
    BY <1>1 DEF Report, RunInv, Run, Written, Tracked
  <2>2. N \in SUBSET Runs /\ IsFiniteSet(N) /\ X \in SUBSET Lines(Runs) /\ IsFiniteSet(X)
    BY <2>1, Walk, RunsFinite, LinesType
  <2>3. /\ report.totalCost = total /\ report.tokens = [m \in Models |-> processUsageJSONL(LinesOf(N, m))]
        /\ report.cost = processUsageJSON(N) /\ report.byChild = children /\ report.bySubagent = buckets
    BY ReportIs
  <2> HIDE DEF report
  <2>4. SumTokens(report.tokens) = processUsageJSONL(X)
    <3> DEFINE q == [x \in X |-> LineOf(x).model]
               W == [m \in Models |-> LinesOf(N, m)]
               F == [m \in Models |-> processUsageJSONL(W[m])]
    <3>1. IsPartition(W, X, q, Models)
      BY DEF IsPartition, LinesOf
    <3>2. \A x \in X : q[x] \in Models
      BY <2>1, <2>2, LinesType
    <3>3. report.tokens = F
      BY <2>3
    <3> HIDE DEF q, W, X
    <3>4. SumTokens(F) = processUsageJSONL(X)
      BY <2>1, <2>2, <3>1, <3>2, ModelsAssumption, ClassTokens
    <3> QED BY <3>3, <3>4
  <2>5. SumTokens([n \in DOMAIN report.byChild |-> report.byChild[n].tokens]) = processUsageJSONL(X)
    <3> DEFINE q == [x \in X |-> x[1]]
               W == [n \in N |-> Lines({n})]
               F == [n \in N |-> processUsageJSONL(W[n])]
    <3>1. IsPartition(W, X, q, N)
      BY DEF IsPartition, Lines
    <3>2. \A x \in X : q[x] \in N
      BY DEF Lines
    <3>3. [n \in DOMAIN report.byChild |-> report.byChild[n].tokens] = F
      BY <2>3
    <3> HIDE DEF q, W, X, N
    <3>4. SumTokens(F) = processUsageJSONL(X)
      BY <2>1, <2>2, <3>1, <3>2, ClassTokens
    <3> QED BY <3>3, <3>4
  <2> DEFINE b == [x \in X |-> Bucket(x)]
             B == [s \in names |-> In(s)]
  <2>6. IsFiniteSet(names)
    <3> DEFINE T == {Bucket(x) : x \in X}
    <3>1. b \in Surjection(X, T)
      BY DEF Surjection
    <3>2. IsFiniteSet(T)
      <4> HIDE DEF b, T, X
      <4> QED BY <2>2, <3>1, FS_Surjection
    <3> HIDE DEF T
    <3>3. IsFiniteSet(T \cup {"(main)"})
      BY <3>2, FS_AddElement
    <3> QED BY <3>3 DEF T
  <2>7. IsPartition(B, X, b, names) /\ \A x \in X : b[x] \in names
    BY DEF IsPartition
  <2>8. "(main)" \in names
    OBVIOUS
  <2>9. /\ [s \in DOMAIN report.bySubagent |-> report.bySubagent[s].tokens] = [s \in names |-> processUsageJSONL(B[s])]
        /\ [s \in DOMAIN report.bySubagent |-> report.bySubagent[s].cost] =
             [s \in names |-> ComputedCost(B[s]) + IF s = "(main)" THEN Residual(total, ComputedCost(X)) ELSE 0]
        /\ DOMAIN report.bySubagent = names
    BY <2>3
  <2>10. SumTokens([s \in DOMAIN report.bySubagent |-> report.bySubagent[s].tokens]) = processUsageJSONL(X)
    <3> DEFINE F == [s \in names |-> processUsageJSONL(B[s])]
    <3> HIDE DEF names, b, B, X
    <3>1. SumTokens(F) = processUsageJSONL(X)
      BY <2>1, <2>2, <2>6, <2>7, ClassTokens
    <3> QED BY <2>9, <3>1
  <2>11. total \in Int
    <3> DEFINE u == [n \in N |-> Cost(n, out[n].usageJSON)]
    <3>1. \A n \in N : u[n] \in Int
      BY <2>1, <2>2, OutCost
    <3>2. total = SumFunctionOnSet(u, N)
      BY DEF SumFunction
    <3> HIDE DEF u, N
    <3>3. SumFunctionOnSet(u, N) \in Int
      BY <2>2, <3>1, SumType
    <3> QED BY <3>2, <3>3
  <2>12. total = SumFunction([n \in DOMAIN report.byChild |-> report.byChild[n].cost])
    <3>1. [n \in DOMAIN report.byChild |-> report.byChild[n].cost] = [n \in N |-> Cost(n, out[n].usageJSON)]
      BY <2>3
    <3> QED BY <3>1
  <2>13. total = SumFunction([s \in DOMAIN report.bySubagent |-> report.bySubagent[s].cost])
    <3> DEFINE c == [s \in names |-> ComputedCost(B[s]) + IF s = "(main)" THEN Residual(total, ComputedCost(X)) ELSE 0]
    <3>1. SumFunction([s \in DOMAIN report.bySubagent |-> report.bySubagent[s].cost]) = SumFunctionOnSet(c, names)
      BY <2>9 DEF SumFunction
    <3> HIDE DEF names, b, B, X, total
    <3>2. SumFunctionOnSet(c, names) = total
      BY <2>1, <2>2, <2>6, <2>7, <2>8, <2>11, BucketCost
    <3> QED BY <3>1, <3>2
  <2>14. total = SumFunction(report.cost)
    BY <2>1, <2>2, <2>3, ModelCost
  <2> HIDE DEF total, X
  <2> QED BY <2>3, <2>4, <2>5, <2>10, <2>12, <2>13, <2>14 DEF report
<1>2. Report => ReportBalances
  BY <1>1 DEF ReportBalances
<1> QED BY <1>2, AlwaysReport, PTL
===============================================================================
