------------------------------ MODULE UsageTracking ------------------------------
(***************************************************************************)
(* What a tree of agent runs has spent: the tracker in each run's vendor   *)
(* proxy (proxycommon, anthropic/usage.go, openai/usage.go, pricing.go),   *)
(* the end of the run on the host (finishAgentRun, results.go,             *)
(* attribution.go) and the report over the tree (usagereport.go).          *)
(*                                                                         *)
(* The proxy parses responses as they stream past, many at a time, and     *)
(* records each when its body closes, under the tracker's lock: a line     *)
(* appended to usage.jsonl, then usage.json replaced.  The host reads both *)
(* files while the sidecar is still up.                                    *)
(*                                                                         *)
(* Models stand for the ids that begin with their name, prices are in      *)
(* cents, costs in cents per million.  A token count is a small number,    *)
(* a request id the number of its response.  Each write of a file may      *)
(* fail; `failed' remembers which did.                                     *)
(***************************************************************************)
EXTENDS Integers, Sequences, FiniteSets, Functions

CONSTANTS
  NumRuns,       \* runs of agents; run 1 is the root
  ParentOf,      \* the run each run is a child of, 0 for the root
  Vendorings,    \* the vendors that the runs may use
  Models,        \* model ids
  NumResponses,  \* bound on the responses of the vendors
  Answers,       \* what each vendor may answer
  MaxFailed      \* bound on the writes that fail

ASSUME RunsAssumption  == NumRuns \in Nat \ {0} /\ \A r \in 1..NumRuns : ParentOf[r] \in 0..(r - 1)
ASSUME BoundsAssumption == NumResponses \in Nat /\ MaxFailed \in Nat
ASSUME ModelsAssumption == "unknown" \in Models /\ IsFiniteSet(Models)

VARIABLES
  vendor,        \* of each run
  body,          \* each response: whose it is, what it is, where its body is
  sse,           \* sseState of each response
  totals, dropped,  \* Tracker.perModel, the two drop counters
  lock,          \* Tracker.mu: the response being recorded
  usageJSON, usageLog,   \* the files in the results directory of the sidecar
  host,          \* where the host is with each run
  own,           \* usage.CostUSD in finishAgentRun
  found,         \* the children whose results.json finishAgentRun finds
  out,           \* the files of each run's /out
  failed         \* the writes that failed

proxyVars == <<body, sse, totals, dropped, lock, usageJSON, usageLog>>
hostVars  == <<host, own, found, out>>
vars      == <<vendor, proxyVars, hostVars, failed>>

Runs      == 1..NumRuns
Responses == 1..NumResponses
Vendors   == {"anthropic", "openai"}

-------------------------------------------------------------------------------
(* Tokens and prices *)

Tokens(i, o, c, r) == [input |-> i, output |-> o, create |-> c, read |-> r]
Zero    == Tokens(0, 0, 0, 0)
NoUsage == Tokens(-1, 0, 0, 0)        \* an answer without a usage block
Counts  == [DOMAIN Zero -> Nat]

ASSUME VendorsAssumption == Vendorings \subseteq [Runs -> Vendors]

\* The cached tokens of OpenAI are among the input tokens.  A stream ends in a usage
\* block, and the count of one output token stands for any count on the way to it, of
\* which the last may be one too.  No subagent has the name of one of the report's own buckets.
ASSUME AnswersAssumption ==
  \A v \in Vendors : \A a \in Answers[v] :
    /\ a.sse \in BOOLEAN /\ a.model \in Models \cup {""}
    /\ a.usage \in Counts \/ (~a.sse /\ a.usage = NoUsage)
    /\ a.sse => a.usage.output >= 1
    /\ v = "openai" /\ a.usage # NoUsage => a.usage.read <= a.usage.input
    /\ a.agent \notin {"(main)", "(unnamed)"}

\* A catalogue, from the prefix and the price of each entry (CatalogEntry).
Catalog(entries) == [p \in {e[1] : e \in entries} |-> (CHOOSE e \in entries : e[1] = p)[2]]

AnthropicModels ==
  {<<"claude-sonnet-5", Tokens(200, 1000, 250, 20)>>, <<"claude-opus-5", Tokens(400, 2000, 500, 20)>>,
   <<"claude-fable-5", Tokens(1000, 5000, 1250, 25)>>, <<"claude-haiku-4-5", Tokens(100, 500, 125, 10)>>}

OpenAIModels ==
  {<<"gpt-6.1-sol", Tokens(200, 1000, 0, 10)>>, <<"gpt-6-astra", Tokens(1000, 5000, 0, 100)>>,
   <<"gpt-6-sol", Tokens(200, 1000, 0, 20)>>, <<"gpt-6-luna", Tokens(10, 50, 0, 1)>>,
   <<"gpt-5.6-sol", Tokens(400, 2000, 0, 40)>>, <<"gpt-5.6-terra", Tokens(200, 1200, 0, 20)>>,
   <<"gpt-5.6-luna", Tokens(20, 120, 0, 2)>>, <<"gpt-5.5", Tokens(500, 3000, 0, 50)>>}

AnthropicCatalog == Catalog(AnthropicModels)
OpenAICatalog    == Catalog(OpenAIModels)

\* No prefix is a prefix of another; a model that no entry prices costs nothing.
LookupPricing(catalog, model) == IF model \in DOMAIN catalog THEN catalog[model] ELSE Zero

Dot(t, p) == t.input * p.input + t.output * p.output + t.create * p.create + t.read * p.read

\* anthropic.CostUSD
anthropicCostUSD(model, t) == Dot(t, LookupPricing(AnthropicCatalog, model))

\* openai.CostUSD: the cached tokens are among the input tokens.
openaiCostUSD(model, t) == Dot([t EXCEPT !.input = @ - t.read], LookupPricing(OpenAICatalog, model))

CostUSD(v, model, t) == IF v = "anthropic" THEN anthropicCostUSD(model, t) ELSE openaiCostUSD(model, t)

\* normalizeTokens: what a vendor's counts become in usage.jsonl.
normalizeTokens(v, t) == IF v = "anthropic" THEN t ELSE [t EXCEPT !.create = 0]

\* Mutant: the last request replaces the totals.
lastCounts(into, add) == add
\* combineCounts
combineCounts(into, add) == Pointwise(into, add, +)

NoTokens == [m \in Models |-> Zero]

\* addPerModelTokens
addPerModelTokens(a, b) == Pointwise(a, b, combineCounts)

SumTokens(f) == [k \in DOMAIN Zero |-> SumFunction([x \in DOMAIN f |-> f[x][k]])]

\* The tokens of each model in the lines of a usage.jsonl: readPerModelTokens.
readPerModelTokens(lines) ==
  [m \in Models |-> SumTokens([i \in {i \in DOMAIN lines : lines[i].model = m} |-> lines[i].tokens])]

-------------------------------------------------------------------------------
(* State *)

\* What usage.json holds; a missing file reads as one without requests.
NoDrops == [parse |-> 0, noUsage |-> 0]
NoFile  == [tokens |-> NoTokens, dropped |-> NoDrops]

\* snapshotLocked, modelReport: the cost of each model, and cost_usd, their sum.
modelCostUSD(r, file) == [m \in Models |-> CostUSD(vendor[r], m, file.tokens[m])]
Cost(r, file)         == SumFunction(modelCostUSD(r, file))

NoBody    == [at |-> "none", run |-> 1, sse |-> TRUE, model |-> "", usage |-> NoUsage,
              agent |-> "", arrived |-> "part"]
NoResults == [written |-> FALSE, total |-> 0, tokens |-> NoTokens, children |-> {}]
NoOut     == [usageJSON |-> NoFile, usageLog |-> <<>>, attribution |-> {}, results |-> NoResults]

Of(r) == {b \in Responses : body[b].at # "none" /\ body[b].run = r}

Init ==
  /\ vendor \in Vendorings
  /\ body = [b \in Responses |-> NoBody]
  /\ sse  = [b \in Responses |-> [modelID |-> "", counts |-> Zero, saw |-> FALSE]]
  /\ totals = [r \in Runs |-> NoTokens] /\ dropped = [r \in Runs |-> NoDrops]
  /\ lock = [r \in Runs |-> 0]
  /\ usageJSON = [r \in Runs |-> NoFile] /\ usageLog = [r \in Runs |-> <<>>]
  /\ host = [r \in Runs |-> IF r = 1 THEN "running" ELSE "none"]
  /\ own = [r \in Runs |-> 0] /\ found = [r \in Runs |-> {}] /\ out = [r \in Runs |-> NoOut]
  /\ failed = {}

\* A write fails, or takes effect.
Attempt(w, fails) ==
  /\ fails => Cardinality(failed) < MaxFailed
  /\ failed' = IF fails THEN failed \cup {w} ELSE failed

-------------------------------------------------------------------------------
(* Responses *)

\* The agent sends a request and the proxy hands its response to wrapResponseBody.
wrapResponseBody(b) ==
  /\ body[b].at = "none" /\ \A c \in 1..(b - 1) : body[c].at # "none"
  /\ \E r \in Runs : \E a \in Answers[vendor[r]] :
       /\ host[r] = "running"
       /\ body' = [body EXCEPT ![b] = [at |-> "open", run |-> r, sse |-> a.sse, model |-> a.model,
                                       usage |-> a.usage, agent |-> a.agent, arrived |-> "part"]]
  /\ UNCHANGED <<vendor, sse, totals, dropped, lock, usageJSON, usageLog, hostVars, failed>>

\* The events of a stream that carry usage, `done' once the last word was said.
\* Anthropic repeats the input side in a message_delta or leaves it out; OpenAI may
\* send a usage block before the last, or after it.
Events(b, done) ==
  LET u == body[b].usage
      First == [u EXCEPT !.output = 1]
      Event(t, n) == [type |-> t, model |-> body[b].model, usage |-> n]
  IN  CASE vendor[body[b].run] = "openai" ->
             {Event("response.in_progress", First)}
               \cup IF done THEN {} ELSE {Event("response.completed", u)}
        [] vendor[body[b].run] = "anthropic" /\ ~sse[b].saw -> {Event("message_start", First)}
        [] OTHER -> IF done THEN {}
                    ELSE {Event("message_delta", n) : n \in {Tokens(0, 1, 0, 0), u, Tokens(0, u.output, 0, 0)}}

applyStart(s, e) == [modelID |-> e.model, counts |-> e.usage, saw |-> TRUE]

\* Mutant: a field the event leaves out is set to nothing.
applyDeltaWhole(s, e) == [s EXCEPT !.counts = e.usage]
\* applyDelta
applyDelta(s, e) ==
  [s EXCEPT !.counts = [f \in DOMAIN @ |-> IF f = "output" \/ e.usage[f] > 0 THEN e.usage[f] ELSE @[f]]]

\* applyEvent, after handleLine has taken the model.
applyEvent(s, e) ==
  LET t == [s EXCEPT !.modelID = e.model]
  IN  IF e.type = "response.completed" \/ (e.usage # NoUsage /\ ~s.saw)
      THEN [t EXCEPT !.counts = e.usage, !.saw = TRUE] ELSE t

Apply(s, e) ==
  CASE e.type = "message_start" -> applyStart(s, e)
    [] e.type = "message_delta" -> applyDelta(s, e)
    [] OTHER                    -> applyEvent(s, e)

IsLast(b, e) ==
  e.type \in {"message_delta", "response.completed"} /\ e.usage.output = body[b].usage.output

\* handleLine: an event passes.  With the last the response is whole; an agent that
\* has exited does not see it.
handleLine(b) ==
  /\ body[b].at = "open" /\ body[b].sse /\ host[body[b].run] # "done"
  /\ \E e \in Events(b, body[b].arrived # "part") :
       /\ sse'  = [sse EXCEPT ![b] = Apply(@, e)]
       /\ body' = [body EXCEPT ![b].arrived =
            CASE ~IsLast(b, e) -> @
              [] IsLast(b, e) /\ host[body[b].run] = "running" -> "whole"
              [] OTHER -> "unseen"]
  /\ UNCHANGED <<vendor, totals, dropped, lock, usageJSON, usageLog, hostVars, failed>>

-------------------------------------------------------------------------------
(* Tracker *)

\* The body of b closes and its handler has the lock of the tracker, which lives as
\* long as the sidecar; a handler that waits for the lock is one yet to be called.
Recording(b) == body[b].at = "open" /\ lock[body[b].run] = 0 /\ host[body[b].run] # "done"

Close(b, at, arrived) == body' = [body EXCEPT ![b].at = at, ![b].arrived = arrived]

\* appendRequestLocked
appendRequestLocked(r, line, fails) ==
  /\ Attempt(<<"line", line.request>>, fails)
  /\ usageLog' = IF fails THEN usageLog ELSE [usageLog EXCEPT ![r] = Append(@, line)]

\* Add, up to the file: an answer without a model is one of model "unknown".
Add(b, modelID, counts) ==
  LET r == body[b].run
      m == IF modelID = "" THEN "unknown" ELSE modelID
  IN  /\ totals' = [totals EXCEPT ![r][m] = combineCounts(@, counts)]
      /\ \E fails \in BOOLEAN : appendRequestLocked(r,
           [request |-> b, model |-> m, tokens |-> normalizeTokens(vendor[r], counts)], fails)
      /\ lock' = [lock EXCEPT ![r] = b]
      /\ UNCHANGED <<vendor, sse, dropped, usageJSON, hostVars>>

\* WriteUsageAtomic: a file next to it, then rename.
WriteUsageAtomic(r, drops) ==
  \E fails \in BOOLEAN :
    /\ Attempt(<<"usage", r>>, fails)
    /\ usageJSON' = IF fails THEN usageJSON
                    ELSE [usageJSON EXCEPT ![r] = [tokens |-> totals[r], dropped |-> drops]]

\* Mutant: the lock is kept.
persistKeepsLock(b) ==
  LET r == body[b].run
  IN  /\ body[b].at = "adding" /\ host[r] # "done"
      /\ WriteUsageAtomic(r, dropped[r])
      /\ Close(b, "closed", body[b].arrived)
      /\ UNCHANGED <<vendor, sse, totals, dropped, lock, usageLog, hostVars>>
\* persistLocked, the rest of Add.
persistLocked(b) ==
  LET r == body[b].run
  IN  /\ body[b].at = "adding" /\ host[r] # "done"
      /\ WriteUsageAtomic(r, dropped[r])
      /\ lock' = [lock EXCEPT ![r] = 0]
      /\ Close(b, "closed", body[b].arrived)
      /\ UNCHANGED <<vendor, sse, totals, dropped, usageLog, hostVars>>

\* The counters of the kinds go up, and usage.json is replaced.
Drop(b, kinds) ==
  LET r == body[b].run
  IN  /\ dropped' = [dropped EXCEPT ![r] = [k \in DOMAIN @ |-> @[k] + IF k \in kinds THEN 1 ELSE 0]]
      /\ WriteUsageAtomic(r, dropped'[r])
      /\ UNCHANGED <<vendor, sse, totals, lock, usageLog, hostVars>>

\* Mutant: the handler goes on after the drop and finds no usage block either.
AddDroppedTwice(b) == Drop(b, {"parse", "noUsage"})
\* AddDroppedParseError
AddDroppedParseError(b) == Drop(b, {"parse"})

AddDroppedNoUsageBlock(b) == Drop(b, {"noUsage"})

\* flush, at the end of the stream or when either side hangs up.
flush(b) ==
  /\ Recording(b) /\ body[b].sse
  /\ \/ sse[b].saw  /\ Add(b, sse[b].modelID, sse[b].counts) /\ Close(b, "adding", body[b].arrived)
     \/ ~sse[b].saw /\ AddDroppedNoUsageBlock(b) /\ Close(b, "closed", body[b].arrived)

\* Close of a JSONInterceptor: the document came whole, in part or not at all.
closeJSON(b) ==
  /\ Recording(b) /\ ~body[b].sse
  /\ \/ /\ Close(b, "closed", "empty")
        /\ UNCHANGED <<vendor, sse, totals, dropped, lock, usageJSON, usageLog, hostVars, failed>>
     \/ AddDroppedParseError(b) /\ Close(b, "closed", "part")
     \/ body[b].usage = NoUsage /\ AddDroppedNoUsageBlock(b) /\ Close(b, "closed", "whole")
     \/ body[b].usage # NoUsage /\ Add(b, body[b].model, body[b].usage) /\ Close(b, "adding", "whole")

-------------------------------------------------------------------------------
(* Host *)

HostStep(r, from, to) == host[r] = from /\ host' = [host EXCEPT ![r] = to]

\* A child of a running run starts, in the background or not.
Spawn(r) ==
  /\ ParentOf[r] # 0 /\ host[ParentOf[r]] = "running"
  /\ HostStep(r, "none", "running")
  /\ UNCHANGED <<vendor, proxyVars, own, found, out, failed>>

\* The agent's command returns; the proxy is about to close what it left open.
\* readUsageSnapshot.
readUsageSnapshot(r) ==
  /\ HostStep(r, "running", "usage.json")
  /\ own' = [own EXCEPT ![r] = Cost(r, usageJSON[r])]
  /\ UNCHANGED <<vendor, proxyVars, found, out, failed>>

\* Mutant: the log is copied first.
LogFirst(name) == CASE name = "usage.jsonl" -> <<"usage.json", "log">>
                    [] name = "usage.json"  -> <<"log", "finish">>
\* The order in which copyUsageToOut takes the files.
CopyStep(name) == CASE name = "usage.json"  -> <<"usage.json", "log">>
                    [] name = "usage.jsonl" -> <<"log", "finish">>

\* The children whose results.json can be read.
HaveResults(r) == {c \in Runs : ParentOf[c] = r /\ out[c].results.written}

\* copyUsageToOut, one file at a time.  What is written by the time the last is copied,
\* writeResults will find.
copyUsageToOut(r) ==
  \E fails \in BOOLEAN :
    /\ Attempt(<<"copy", r>>, fails)
    /\ \/ /\ HostStep(r, CopyStep("usage.json")[1], CopyStep("usage.json")[2])
          /\ out' = IF fails THEN out ELSE [out EXCEPT ![r].usageJSON = usageJSON[r]]
          /\ found' = found
       \/ /\ HostStep(r, CopyStep("usage.jsonl")[1], CopyStep("usage.jsonl")[2])
          /\ out' = IF fails THEN out ELSE [out EXCEPT ![r].usageLog = usageLog[r]]
          /\ found' = [found EXCEPT ![r] = HaveResults(r)]
    /\ UNCHANGED <<vendor, proxyVars, own>>

\* The transcript of claude-code, in order: an entry while a message streams in, one for
\* each block that is complete, the last with the name of the agent whose request it was.
Transcript(r) ==
  UNION {LET Entry(at, stop, n, agent) == [request |-> b, at |-> at, stop |-> stop, output |-> n, agent |-> agent]
         IN  IF body[b].arrived = "whole" /\ body[b].sse
             THEN {Entry(1, FALSE, 1, ""), Entry(2, TRUE, 1, ""), Entry(3, TRUE, body[b].usage.output, body[b].agent)}
             ELSE {Entry(1, FALSE, 1, "")} : b \in Of(r)}

\* The entries that parseTranscriptJSONL considers, of those that it can read.
parseTranscriptJSONL(read) == {e \in read : e.stop}

\* Mutant: the first entry of a message is kept.
keepsFirst(e, other) == e.at <= other.at
\* An entry takes the place of the one kept so far if it has more output.
keeps(e, other) == e.output > other.output \/ (e.output = other.output /\ e.at <= other.at)

\* distillAttribution: of the entries of a message, the first of those with the most output.
distillAttribution(read) ==
  LET entries == parseTranscriptJSONL(read)
      Kept(e) == \A other \in entries : other.request = e.request => keeps(e, other)
  IN  {[request |-> e.request, agent |-> e.agent] : e \in {e \in entries : Kept(e)}}

\* The children in a set of them, in sumChildResults and sumChildPerModelTokens.
childTotal(names) == SumFunction([c \in names |-> out[c].results.total])

sumChildPerModelTokens(counted) ==
  [m \in Models |-> SumTokens([c \in counted |-> out[c].results.tokens[m]])]

\* Mutant: the cost of the run is read again.
writeResultsReread(r, names, counted) ==
  [written |-> TRUE, children |-> names,
   total   |-> Cost(r, usageJSON[r]) + childTotal(names),
   tokens  |-> addPerModelTokens(readPerModelTokens(out[r].usageLog), sumChildPerModelTokens(counted))]
\* writeResults, for the children that its two readings find.
writeResults(r, names, counted) ==
  [written |-> TRUE, children |-> names,
   total   |-> own[r] + childTotal(names),
   tokens  |-> addPerModelTokens(readPerModelTokens(out[r].usageLog), sumChildPerModelTokens(counted))]

LastWrites(r) == {<<"results", r>>} \cup {w \in {<<"attribution", r>>} : vendor[r] = "anthropic"}

\* The rest of finishAgentRun.  Where transcripts cannot be walked or read to their end, or
\* attribution.jsonl cannot be written, any of their entries are lost.  The children are
\* read twice: one that has ended since the copying was found by both readings, by the
\* second or by none.  Then the sidecar is removed with what it had in hand.
finishAgentRun(r) ==
  /\ HostStep(r, "finish", "done")
  /\ \E lost \in SUBSET LastWrites(r) :
       /\ Cardinality(failed) + Cardinality(lost) <= MaxFailed /\ failed' = failed \cup lost
       /\ \E read \in (IF <<"attribution", r>> \in lost THEN SUBSET Transcript(r) ELSE {Transcript(r)}) :
          \E counted \in SUBSET HaveResults(r) : \E names \in SUBSET counted :
            /\ found[r] \subseteq names /\ found' = [found EXCEPT ![r] = counted]
            /\ out' = [out EXCEPT
                 ![r].attribution = IF vendor[r] = "anthropic" THEN distillAttribution(read) ELSE {},
                 ![r].results = IF <<"results", r>> \in lost THEN NoResults ELSE writeResults(r, names, counted)]
  /\ UNCHANGED <<vendor, proxyVars, own>>

-------------------------------------------------------------------------------
Next ==
  \/ \E b \in Responses :
       \/ wrapResponseBody(b) \/ handleLine(b) \/ flush(b)
       \/ closeJSON(b) \/ persistLocked(b)
  \/ \E r \in Runs : Spawn(r) \/ readUsageSnapshot(r) \/ copyUsageToOut(r) \/ finishAgentRun(r)

Spec == Init /\ [][Next]_vars

-------------------------------------------------------------------------------
(* The report *)

\* walkUsageNode: r, and the runs that the results.json of a run so far names.
walkUsageNode(r) ==
  {n \in Runs : \A nodes \in SUBSET Runs :
     r \in nodes /\ (\A q \in nodes : out[q].results.children \subseteq nodes) => n \in nodes}

\* The lines of usage.jsonl in the directories of a set of runs.
Lines(nodes) == {x \in nodes \X (1..NumResponses) : x[2] \in DOMAIN out[x[1]].usageLog}
LineOf(x)    == out[x[1]].usageLog[x[2]]

\* readAttributionMap and the bucket that processUsageJSONL puts a line in.
Bucket(x) ==
  LET known == {a \in out[x[1]].attribution : a.request = LineOf(x).request}
  IN  IF known = {} THEN "(main)"
      ELSE LET a == CHOOSE a \in known : TRUE IN IF a.agent = "" THEN "(unnamed)" ELSE a.agent

\* What processUsageJSON and processUsageJSONL accumulate.
processUsageJSON(nodes)  == [m \in Models |-> SumFunction([n \in nodes |-> CostUSD(vendor[n], m, out[n].usageJSON.tokens[m])])]
processUsageJSONL(xs)    == SumTokens([x \in xs |-> LineOf(x).tokens])
ComputedCost(xs)         == SumFunction([x \in xs |-> anthropicCostUSD(LineOf(x).model, LineOf(x).tokens)])

\* Mutant: only what is left over is charged to "(main)".
ResidualIfPositive(total, computed) == IF total > computed THEN total - computed ELSE 0
\* The spend that no line accounts for; usage.json may also be behind the log.
Residual(total, computed) == total - computed

UsageReport(r) ==
  LET nodes == walkUsageNode(r)
      lines == Lines(nodes)
      total == SumFunction([n \in nodes |-> Cost(n, out[n].usageJSON)])
      names == {Bucket(x) : x \in lines} \cup {"(main)"}
      In(s) == {x \in lines : Bucket(x) = s}
  IN  [totalCost |-> total,
       tokens    |-> [m \in Models |-> processUsageJSONL({x \in lines : LineOf(x).model = m})],
       cost      |-> processUsageJSON(nodes),
       byChild   |-> [n \in nodes |-> [cost |-> Cost(n, out[n].usageJSON), tokens |-> processUsageJSONL(Lines({n}))]],
       bySubagent |-> [s \in names |-> [tokens |-> processUsageJSONL(In(s)),
          cost |-> ComputedCost(In(s)) + IF s = "(main)" THEN Residual(total, ComputedCost(lines)) ELSE 0]]]

-------------------------------------------------------------------------------
(* Properties *)

\* The variables keep their types, and the lock is held by a response under way.
TypeOK ==
  /\ vendor \in [Runs -> Vendors]
  /\ \A b \in Responses :
       /\ body[b].at \in {"none", "open", "adding", "closed"} /\ body[b].run \in Runs
       /\ body[b].arrived \in {"empty", "part", "whole", "unseen"}
       /\ sse[b].modelID \in Models \cup {""} /\ sse[b].saw \in BOOLEAN
  /\ \A r \in Runs :
       /\ totals[r] \in [Models -> Counts]
       /\ dropped[r] \in [parse : Nat, noUsage : Nat]
       /\ lock[r] # 0 => lock[r] \in Of(r) /\ body[lock[r]].at = "adding"
       /\ own[r] \in Nat /\ Len(usageLog[r]) <= NumResponses
  /\ host \in [Runs -> {"none", "running", "usage.json", "log", "finish", "done"}] /\ found \in [Runs -> SUBSET Runs]

Count(b) == Cardinality({i \in DOMAIN usageLog[body[b].run] : usageLog[body[b].run][i].request = b})

\* Every response that carried anything is in the log once or among the drops once,
\* however the streams were cut, interleaved and closed (handlers of Close).
CountedOnce ==
  /\ \A b \in Responses : Count(b) <= 1
  /\ \A r \in Runs :
       LET over == {b \in Of(r) : body[b].at = "closed" /\ body[b].arrived # "empty"}
           kept == {b \in over : Count(b) = 1 \/ <<"line", b>> \in failed}
       IN  dropped[r].parse + dropped[r].noUsage = Cardinality(over \ kept)

\* A response that came to its end is charged what the vendor's last word was, not
\* a count on the way or a sum of counts (applyStart, applyDelta, applyEvent).
WholeIsExact ==
  \A r \in Runs : \A i \in DOMAIN usageLog[r] :
    LET b == usageLog[r][i].request
    IN  body[b].arrived \in {"whole", "unseen"} => usageLog[r][i].tokens = normalizeTokens(vendor[r], body[b].usage)

\* A tracker at rest has written all that it knows: usage.json is its snapshot and
\* the log adds up to it (persistLocked after each change).
RestIsWritten ==
  \A r \in Runs : lock[r] = 0 =>
    /\ <<"usage", r>> \notin failed => usageJSON[r] = [tokens |-> totals[r], dropped |-> dropped[r]]
    /\ (\A b \in Of(r) : <<"line", b>> \notin failed) =>
         readPerModelTokens(usageLog[r]) = [m \in Models |-> normalizeTokens(vendor[r], totals[r][m])]

AtMost(s, t) == \A f \in DOMAIN s : s[f] <= t[f]

\* The copy of usage.json never knows of a request that the copy of the log lacks,
\* though the proxy goes on recording between the two (Add, copyUsageToOut).
CopyInOrder ==
  \A r \in Runs :
    (host[r] = "done" /\ <<"copy", r>> \notin failed /\ \A b \in Of(r) : <<"line", b>> \notin failed)
      => \A m \in Models : AtMost(normalizeTokens(vendor[r], out[r].usageJSON.tokens[m]),
                                  readPerModelTokens(out[r].usageLog)[m])

\* usage.json and usage.jsonl agree as far as their reader needs it: wholly while the
\* tracker rests, and the copies never so that the report lacks a line.
FilesAgree == RestIsWritten /\ CopyInOrder

Finished(r) == out[r].results.written /\ \A n \in walkUsageNode(r) : <<"copy", n>> \notin failed

\* In every run that a report is on, both readings found the same children.
ReadAlike(r) == \A n \in walkUsageNode(r) : found[n] = out[n].results.children

\* The report on a finished run has at least the cost that its results.json says and never
\* more tokens, whatever was recorded while it finished; it has the same tokens unless a
\* background child ended between the two readings that writeResults makes of the children.
ReportCoversResults ==
  \A r \in Runs : Finished(r) =>
    LET report  == UsageReport(r)
        results == out[r].results
    IN  /\ report.totalCost >= results.total
        /\ \A m \in Models : AtMost(report.tokens[m], results.tokens[m])
        /\ ReadAlike(r) => report.tokens = results.tokens

\* The three breakdowns of a report have the same tokens and the same cost; "this
\* ensures no spend is lost" (buildUsageReport).
ReportBalances ==
  \A r \in {q \in Runs : out[q] # NoOut} :
    LET report == UsageReport(r)
        sum    == SumTokens(report.tokens)
        Costs(f) == SumFunction([x \in DOMAIN f |-> f[x].cost])
    IN  /\ sum = SumTokens([n \in DOMAIN report.byChild |-> report.byChild[n].tokens])
        /\ sum = SumTokens([s \in DOMAIN report.bySubagent |-> report.bySubagent[s].tokens])
        /\ report.totalCost = Costs(report.byChild)
        /\ report.totalCost = Costs(report.bySubagent)
        /\ report.totalCost = SumFunction(report.cost)

\* The spend under a subagent's name is that of its own requests, whichever part of the
\* transcripts was lost.  If none was, it is all of them that the subagent saw answered, but
\* for an answer of one token, whose last entry ties with an unnamed one before it
\* (distillAttribution, readAttributionMap).
NamedSpendIsTheirs ==
  \A r \in Runs : host[r] = "done" =>
    \A s \in {body[b].agent : b \in Of(r)} \ {""} :
      LET named  == {x \in Lines({r}) : Bucket(x) = s}
          theirs == {x \in Lines({r}) : LET b == LineOf(x).request
                       IN  vendor[r] = "anthropic" /\ body[b].agent = s /\ body[b].sse /\ body[b].arrived = "whole"}
      IN  /\ named \subseteq theirs
          /\ <<"attribution", r>> \notin failed =>
               {x \in theirs : body[LineOf(x).request].usage.output > 1} \subseteq named

\* What usage.json says was spent never falls (persistLocked, under the lock).
SpendNeverFalls ==
  [][\A r \in Runs : usageJSON'[r] # usageJSON[r] =>
       /\ Cost(r, usageJSON[r]) <= Cost(r, usageJSON'[r])
       /\ AtMost(usageJSON[r].dropped, usageJSON'[r].dropped)]_vars
===============================================================================
