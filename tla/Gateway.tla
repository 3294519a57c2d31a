-------------------------------- MODULE Gateway --------------------------------
(***************************************************************************)
(* The way of an agent's tool call to an upstream MCP server and back: the *)
(* aggregator on the host (mcpproxy/server.go), the wiring of each run     *)
(* (agent.go), the tunnel in its sidecar (proxies/mcp/proxy.go), and the   *)
(* interception of the tools that generate files (filegen.go), whose files *)
(* are copied to the caller's workspace (filedelivery.go).                 *)
(*                                                                         *)
(* main starts the aggregator before it serves calls, so no run exists     *)
(* until it has succeeded or failed.  Upstreams are external: they may     *)
(* fail to answer, list what they like and report files where they like.   *)
(* Their subprocesses are in ClientPool.                                   *)
(*                                                                         *)
(* A path is a directory, a subdirectory of it perhaps, and a base name, a *)
(* sequence to which uniqueBase appends its suffix; it has one spelling    *)
(* that filepath.Clean leaves as it is, "", and others.  The content of a  *)
(* file says where it comes from.                                          *)
(***************************************************************************)
EXTENDS Upstreams, Naturals, FiniteSetsExt

CONSTANTS
  Configs,       \* the host's config files: claude, codex, override
  Listings,      \* what each upstream may list: its tools, and what else it offers
  Reports,       \* the results of the servers that pick their own directories
  DemesneTools,  \* the tools of ChildMCPServer
  Workspaces,    \* where the workspace of each run may be
  Stamps,        \* the times that mermaid's file names may carry
  Savings,       \* where below the directory mermaid may write, and how it spells the path
  Within,        \* of two paths, whether the text of the second has the first in it
  MaxCalls       \* bound on the calls of agents

ASSUME GatewayBounds == MaxCalls \in Nat /\ DemesneServerName \in ToSet(Alphabet)

\* A config file is missing, bad or ok; it names servers.
ASSUME ConfigsAssumption ==
  \A cf \in Configs :
    /\ DOMAIN cf = {"claude", "codex", "override"}
    /\ \A f \in DOMAIN cf : cf[f].state \in {"missing", "bad", "ok"}
    /\ DOMAIN cf.claude.servers \cup DOMAIN cf.codex.servers \subseteq ToSet(Alphabet)

VARIABLES
  config,        \* the host's config files
  agg, todo,     \* where Start is, and the upstreams it has still to register
  specs, allow,  \* Pool.specs, Aggregator.allow
  mux, catalogue,  \* the ServeMux: the server of each path; Aggregator.catalogue
  MCPServers,    \* Config.MCPServers of the runner
  run, workspace,  \* each run of an agent: registered or not, and where
  mermaidSeq,
  files,         \* of <workspace>/generated, by base
  call           \* the calls of agents

aggVars  == <<config, agg, todo, specs, allow, mux, catalogue, MCPServers>>
runVars  == <<run, workspace>>
callVars == <<mermaidSeq, files, call>>
vars     == <<aggVars, runVars, callVars>>

Calls      == 1..MaxCalls
Runs       == UNION {DOMAIN w : w \in Workspaces}
Nobody     == ""
FileGen    == {"assets", "image-gen-mcp", "mermaid"}

\* Each run has a workspace, and no run has the id of nobody.
ASSUME WorkspacesAssumption ==
  Nobody \notin Runs /\ \A w \in Workspaces : DOMAIN w = Runs /\ "" \notin ToSet(w)

\* An entry of a map is set.
Put(f, k, v) == [x \in DOMAIN f \cup {k} |-> IF x = k THEN v ELSE f[x]]

PathIn(dir, base) == [dir |-> dir, sub |-> "", base |-> base, spelling |-> ""]

\* filepath.Clean
Clean(p) == [dir |-> p.dir, sub |-> p.sub, base |-> p.base, spelling |-> ""]

NoPath == PathIn("", <<>>)
Empty  == [src |-> NoPath, by |-> 0]     \* created, not yet written
Torn   == [src |-> NoPath, by |-> 1]     \* two writers at once
IsSequence(s) == Len(s) \in Nat /\ s = [i \in 1..Len(s) |-> s[i]]

\* A server that picks a directory for its files does not pick a workspace, and does not name
\* them as mermaid does its diagrams.  What has the scheme of a file is a path.
ASSUME ReportsAssumption ==
  \A n \in FileGen \ {"mermaid"} : \A reported \in Reports[n] :
    /\ IsSequence(reported)
    /\ \A m \in ToSet(reported) :
         /\ DOMAIN m = {"at", "scheme", "path"} /\ (m.scheme = "file" => m.path # NoPath)
         /\ m.path # NoPath =>
              /\ IsSequence(m.path.base) /\ m.path.base # <<>>
              /\ Head(m.path.base) # "mermaid"
              /\ \A w \in Workspaces : m.path.dir \notin ToSet(w)

NoCall == [at |-> "none", by |-> Nobody, server |-> "", tool |-> "", parent |-> Nobody, name |-> <<>>,
           reported |-> <<>>, sources |-> <<>>, mapping |-> <<>>, open |-> NoPath, answer |-> <<>>,
           past |-> {}]

Init ==
  /\ config \in Configs
  /\ agg = "new" /\ todo = <<>>
  /\ specs = {} /\ allow = <<>> /\ mux = <<>> /\ catalogue = <<>> /\ MCPServers = <<>>
  /\ workspace \in Workspaces /\ run = [r \in Runs |-> "none"]
  /\ mermaidSeq = 0
  /\ files = [w \in ToSet(workspace) |-> <<>>]
  /\ call = [c \in Calls |-> NoCall]

Before(m, n) == \E i, j \in DOMAIN Alphabet : i < j /\ Alphabet[i] = m /\ Alphabet[j] = n

\* In alphabetical order: in the i-th place, the name that i - 1 others come before.
Sorted(S) == [i \in 1..Cardinality(S) |-> CHOOSE n \in S : Cardinality({m \in S : Before(m, n)}) = i - 1]

-------------------------------------------------------------------------------
(* The aggregator *)

NewAggregator ==
  /\ agg = "new"
  /\ IF ~Readable(config.claude) \/ ~Readable(config.codex)
     THEN agg' = "off" /\ UNCHANGED <<config, todo, specs, allow>>
     ELSE \E override \in {config.override, SeedOverrideFile(config.override)} :
          /\ config' = [config EXCEPT !.override = override]
          /\ IF OverrideFails(override) THEN agg' = "off" /\ UNCHANGED <<todo, specs, allow>>
             ELSE /\ agg' = "starting"
                  /\ allow' = ResolveAllowlist(override)
                  /\ specs' = keep(discoverAllUpstreams(config.claude, config.codex), allow')
                  /\ todo' = Sorted({s.name : s \in specs'})              \* knownSpecs
  /\ UNCHANGED <<mux, catalogue, MCPServers, runVars, callVars>>

\* Aggregator.allow of a server; a map answers the zero value for a key it has not.
AllowOf(n) == IF n \in DOMAIN allow THEN allow[n] ELSE Disable

\* newServerForUpstream, mountUpstreamHTTP
Served(tools, others) == [tools |-> tools, others |-> others]

\* Mutant: agents are told of every tool that is listed.
registerUpstreamListed ==
  /\ agg = "starting" /\ todo # <<>>
  /\ todo' = Tail(todo)
  /\ LET n == Head(todo) IN
     \/ UNCHANGED <<mux, catalogue>>
     \/ \E l \in Listings[n] : \E others \in SUBSET l.others :
          LET exposed == filterTools(l.tools, AllowOf(n))
          IN  /\ exposed # {} \/ others # {}
              /\ mux' = Put(mux, n, Served(exposed, others))
              /\ catalogue' = Put(catalogue, n, l.tools)
  /\ UNCHANGED <<config, agg, specs, allow, MCPServers, runVars, callVars>>
registerUpstream ==
  /\ agg = "starting" /\ todo # <<>>
  /\ todo' = Tail(todo)
  /\ LET n == Head(todo) IN
     \/ UNCHANGED <<mux, catalogue>>          \* it lists no tools, or nothing of it is exposed
     \/ \E l \in Listings[n] : \E others \in SUBSET l.others :  \* of the rest, those it lists
          LET exposed == filterTools(l.tools, AllowOf(n))
          IN  /\ exposed # {} \/ others # {}
              /\ mux' = Put(mux, n, Served(exposed, others))
              /\ catalogue' = Put(catalogue, n, exposed)
  /\ UNCHANGED <<config, agg, specs, allow, MCPServers, runVars, callVars>>

\* The end of Start: demesne's own server joins the upstreams, then the socket opens.
Start ==
  /\ agg = "starting" /\ todo = <<>>
  /\ IF DemesneServerName \in DOMAIN mux
     THEN agg' = "panicked" /\ UNCHANGED <<mux, catalogue>>     \* ServeMux.Handle
     ELSE /\ mux' = Put(mux, DemesneServerName, Served(DemesneTools, {}))
          /\ catalogue' = Put(catalogue, DemesneServerName, DemesneTools)
          /\ \/ agg' = "listening"
             \/ agg' = "off"                                    \* listenSocket fails
  /\ UNCHANGED <<config, todo, specs, allow, MCPServers, runVars, callVars>>

\* Aggregator.Servers
Servers == Sorted(DOMAIN catalogue)

\* main's run: the runner learns what the aggregator exposes, then main serves.
SetMCPWiring ==
  /\ agg = "listening"
  /\ agg' = "serving" /\ MCPServers' = Servers
  /\ UNCHANGED <<config, todo, specs, allow, mux, catalogue, runVars, callVars>>

\* Aggregator.Shutdown, when main returns; the runner's shutdown comes after it.
Shutdown ==
  /\ agg = "serving"
  /\ agg' = "closed"
  /\ UNCHANGED <<config, todo, specs, allow, mux, catalogue, MCPServers, runVars, callVars>>

-------------------------------------------------------------------------------
(* A run and its tunnel *)

FirstListenPort == 8089

IsFileGenServer(n) == n \in FileGen

\* The binding of the sidecar's tunnel for the i-th server.
Binding(r, i) ==
  [port |-> FirstListenPort + i - 1, path |-> MCPServers[i],
   parentJobID |-> IF MCPServers[i] = DemesneServerName \/ IsFileGenServer(MCPServers[i]) THEN r ELSE Nobody]

\* What the agent is told of the i-th server.
AgentServer(i) ==
  [name |-> MCPServers[i], port |-> FirstListenPort + i - 1, tools |-> catalogue[MCPServers[i]]]

\* runAgent: registered, wired, its sidecar up.
Register(r) ==
  /\ run[r] = "none" /\ agg \in {"serving", "off"}
  /\ run' = [run EXCEPT ![r] = "live"]
  /\ UNCHANGED <<aggVars, workspace, callVars>>

\* runAgent ends, in whatever way.
Deregister(r) ==
  /\ run[r] = "live"
  /\ run' = [run EXCEPT ![r] = "ended"]
  /\ UNCHANGED <<aggVars, workspace, callVars>>

\* Mutant: a header that the agent sends is kept.
parentHeaderKept(b, sent) == IF sent # Nobody THEN sent ELSE b.parentJobID
\* The Rewrite of handlerFor: the client's header goes, then the binding's is set.
parentHeader(b, sent) == b.parentJobID

-------------------------------------------------------------------------------
(* Adapters *)

\* FileGenAdapterFor: whether a tool of a server has one.
HasAdapter(n, t) ==
  \/ n = "mermaid" /\ t = "generate"
  \/ n = "image-gen-mcp" /\ t \in {"generate_image", "edit_image"}
  \/ n = "assets" /\ t \in assetGetters

Sandboxed(base) == PathIn("/workspace/generated", base)

\* A result mentions paths: in its structured content or its text, with a scheme or without.
\* What ExtractHostPaths of each adapter reads of the mentions.
mermaidReads(m)  == m.at = "text" /\ m.scheme = ""
imageGenReads(m) == m.scheme = "file"
assetsReads(m)   == m.scheme = "" /\ m.path # NoPath

Reads(n, m) ==
  \/ n = "mermaid" /\ mermaidReads(m)
  \/ n = "image-gen-mcp" /\ imageGenReads(m)
  \/ n = "assets" /\ assetsReads(m)

\* Mutant: a path that is mentioned twice is delivered twice.
ExtractEveryPath(n, reported) ==
  [i \in {i \in DOMAIN reported : Reads(n, reported[i])} |-> reported[i].path]
\* ExtractHostPaths: each path once, at the place of its first mention.
ExtractHostPaths(n, reported) ==
  LET first == {i \in DOMAIN reported : /\ Reads(n, reported[i])
                                        /\ \A j \in 1..(i - 1) : Reads(n, reported[j]) =>
                                                                 reported[j].path # reported[i].path}
  IN  [i \in first |-> reported[i].path]

Garbled == PathIn("garbled", <<>>)

\* What strings.ReplaceAll, of each entry of the mapping in random order, may make of a path in
\* a text: an entry for a part of the path spoils it, if it comes before the path's own.
ReplacedIn(path, mapping) ==
  LET parts == {host \in DOMAIN mapping : <<host, path>> \in Within}
  IN  IF path \in DOMAIN mapping THEN {Sandboxed(mapping[path])} \cup {Garbled : host \in parts}
      ELSE IF parts # {} THEN {Garbled} ELSE {path}

\* What RewriteResult of each adapter may make of the path of a mention.
mermaidRewrite(m, mapping)  == IF m.at = "text" THEN ReplacedIn(m.path, mapping) ELSE {m.path}
imageGenRewrite(m, mapping) == IF m.scheme = "file" THEN ReplacedIn(m.path, mapping) ELSE {m.path}
assetsRewrite(m, mapping)   ==
  IF m.at = "text" THEN ReplacedIn(m.path, mapping)
  ELSE IF m.scheme = "" /\ m.path \in DOMAIN mapping THEN {Sandboxed(mapping[m.path])}
  ELSE {m.path}

Rewrite(n, m, mapping) ==
  CASE n = "mermaid"       -> mermaidRewrite(m, mapping)
    [] n = "image-gen-mcp" -> imageGenRewrite(m, mapping)
    [] n = "assets"        -> assetsRewrite(m, mapping)

\* RewriteResult: the results it may end with; the path that replaces a URL has no scheme.
RewriteResult(n, reported, mapping) ==
  LET Outcomes(m) == {[m EXCEPT !.path = p, !.scheme = IF n = "image-gen-mcp" /\ p # m.path THEN "" ELSE @] :
                        p \in Rewrite(n, m, mapping)}
  IN  {answer \in [DOMAIN reported -> UNION {Outcomes(m) : m \in ToSet(reported)}] :
         \A i \in DOMAIN reported : answer[i] \in Outcomes(reported[i])}

\* nextMermaidSeq
nextMermaidSeq(n) == n + 1

-------------------------------------------------------------------------------
(* Calls *)

Go(c, at) == call' = [call EXCEPT ![c].at = at]

Tools == DemesneTools \cup UNION {l.tools : l \in UNION {Listings[n] : n \in DOMAIN Listings}}

\* The calls that are over.  A call remembers those that were when it began, for the properties.
Over == {c \in Calls : call[c].at \in {"refused", "failed", "answered"}}

\* The call that run r makes of tool t at binding b.
Made(r, b, t, sent, at, name) ==
  [NoCall EXCEPT !.at = at, !.by = r, !.server = b.path, !.tool = t,
                 !.parent = parentHeader(b, sent), !.name = name, !.past = Over]

\* The agent calls tool t at the i-th port, with a parent header of its own perhaps.
CallTool(c, r, i, t, sent) ==
  LET b == Binding(r, i)
      Becomes(at, name) == call' = [call EXCEPT ![c] = Made(r, b, t, sent, at, name)]
  IN  /\ agg = "serving" /\ run[r] = "live"
      /\ call[c] = NoCall /\ (c > 1 => call[c - 1] # NoCall)
      /\ \/ /\ t \notin mux[b.path].tools                   \* the server has no such tool
            /\ call' = [call EXCEPT ![c].at = "refused"]
            /\ UNCHANGED mermaidSeq
         \/ /\ t \in mux[b.path].tools /\ ~HasAdapter(b.path, t)   \* plainToolHandler
            /\ Becomes("upstream", <<>>)
            /\ UNCHANGED mermaidSeq
         \/ /\ t \in mux[b.path].tools /\ HasAdapter(b.path, t)    \* fileGenHandler
            /\ Becomes("failed", <<>>)                         \* no DeliveryDir
            /\ UNCHANGED mermaidSeq
         \/ /\ t \in mux[b.path].tools /\ HasAdapter(b.path, t) /\ run[parentHeader(b, sent)] = "live"
            /\ IF b.path = "mermaid"
               THEN \E stamp \in Stamps : /\ mermaidSeq' = nextMermaidSeq(mermaidSeq)
                                          /\ Becomes("upstream", <<"mermaid", stamp, mermaidSeq'>>)
               ELSE Becomes("upstream", <<>>) /\ UNCHANGED mermaidSeq
      /\ UNCHANGED <<aggVars, runVars, files>>

\* Where the files of a call go: DeliveryDir of its parent
Generated(c) == workspace[call[c].parent]

FileFrom(path) == [src |-> path, by |-> 0]
Diagram(c)     == [src |-> PathIn(Generated(c), call[c].name), by |-> c]

\* Where mermaid may write the diagram that it is to write in the directory, and what it says.
Saved(c, how) ==
  [at |-> "text", scheme |-> "",
   path |-> [dir |-> Generated(c), sub |-> how.sub, base |-> call[c].name, spelling |-> how.spelling]]

\* The handler gets a result, and reads it.
Reported(c, reported) ==
  LET sources == ExtractHostPaths(call[c].server, reported)
  IN  call' = [call EXCEPT ![c].at = IF DOMAIN sources = {} THEN "answered" ELSE "produced",
                           ![c].reported = reported, ![c].sources = sources, ![c].answer = reported]

UpstreamAnswers(c) ==
  /\ call[c].at = "upstream"
  /\ LET n == call[c].server IN
     \/ Go(c, "failed") /\ UNCHANGED files
     \/ ~HasAdapter(n, call[c].tool) /\ Go(c, "answered") /\ UNCHANGED files
     \/ /\ HasAdapter(n, call[c].tool) /\ n = "mermaid"      \* it writes below where it was told to
        /\ \E how \in Savings :
             /\ files' = IF how.sub = "" THEN [files EXCEPT ![Generated(c)] = Put(@, call[c].name, Diagram(c))]
                         ELSE files
             /\ Reported(c, <<Saved(c, how)>>)
     \/ /\ HasAdapter(n, call[c].tool) /\ n # "mermaid"
        /\ \E reported \in Reports[n] : Reported(c, reported)
        /\ UNCHANGED files
  /\ UNCHANGED <<aggVars, runVars, mermaidSeq>>

\* Deliver looks the run up once more.
Deliver(c) ==
  /\ call[c].at = "produced"
  /\ \/ run[call[c].parent] = "live" /\ Go(c, "copying")
     \/ Go(c, "failed")
  /\ UNCHANGED <<aggVars, runVars, mermaidSeq, files>>

\* The sources that are not in the map, which holds them cleaned.
Left(c) == {i \in DOMAIN call[c].sources : Clean(call[c].sources[i]) \notin DOMAIN call[c].mapping}
NextSource(c) == Clean(call[c].sources[Min(Left(c))])
Used(c) == {call[c].mapping[src] : src \in DOMAIN call[c].mapping}

\* alreadyUnder: in the directory, or anywhere below it
alreadyUnder(src, dir) == src.dir = dir

\* Mutant: names that are used are not remembered.
sameBase(base, used) == base
\* uniqueBase
uniqueBase(base, used) ==
  IF base \notin used THEN base
  ELSE Append(base, Min({i \in 1..(Cardinality(used) + 1) : Append(base, i) \notin used}))

\* The loop of Deliver takes its next source; copyFile begins with an empty file.
DeliverNext(c) ==
  /\ call[c].at = "copying" /\ call[c].open = NoPath /\ Left(c) # {}
  /\ LET src == NextSource(c)
         dst == uniqueBase(src.base, Used(c))
     IN  IF alreadyUnder(src, Generated(c))
         THEN call' = [call EXCEPT ![c].mapping = Put(@, src, src.base)] /\ UNCHANGED files
         ELSE \/ Go(c, "failed") /\ UNCHANGED files
              \/ /\ call' = [call EXCEPT ![c].open = PathIn(Generated(c), dst)]
                 /\ files' = [files EXCEPT ![Generated(c)] = Put(@, dst, Empty)]
  /\ UNCHANGED <<aggVars, runVars, mermaidSeq>>

\* copyFile writes: from the beginning of the file, whatever another has written to it.
copyFile(c) ==
  /\ call[c].at = "copying" /\ call[c].open # NoPath
  /\ LET src  == NextSource(c)
         dst  == call[c].open
         mine == FileFrom(src)
     IN  \/ Go(c, "failed") /\ UNCHANGED files
         \/ \E content \in IF files[dst.dir][dst.base] \in {Empty, mine} THEN {mine} ELSE {mine, Torn} :
              /\ files' = [files EXCEPT ![dst.dir][dst.base] = content]
              /\ call' = [call EXCEPT ![c].mapping = Put(@, src, dst.base), ![c].open = NoPath]
  /\ UNCHANGED <<aggVars, runVars, mermaidSeq>>

\* Everything is delivered: the result that fileGenHandler returns.
Answer(c) ==
  /\ call[c].at = "copying" /\ call[c].open = NoPath /\ Left(c) = {}
  /\ \E answer \in RewriteResult(call[c].server, call[c].reported, call[c].mapping) :
       call' = [call EXCEPT ![c].at = "answered", ![c].answer = answer]
  /\ UNCHANGED <<aggVars, runVars, mermaidSeq, files>>

AgentCalls ==
  \E c \in Calls, r \in Runs, i \in DOMAIN MCPServers, t \in Tools, sent \in Runs \cup {Nobody} :
    CallTool(c, r, i, t, sent)

Next ==
  \/ NewAggregator \/ registerUpstream \/ Start \/ SetMCPWiring \/ Shutdown
  \/ \E r \in Runs : Register(r) \/ Deregister(r)
  \/ AgentCalls
  \/ \E c \in Calls : UpstreamAnswers(c) \/ Deliver(c) \/ DeliverNext(c) \/ copyFile(c) \/ Answer(c)

Spec == Init /\ [][Next]_vars

-------------------------------------------------------------------------------
(* Properties *)

\* The variables keep their types; a call delivers each path it read once, and places only those.
TypeOK ==
  /\ agg \in {"new", "starting", "listening", "serving", "off", "closed", "panicked"}
  /\ ToSet(todo) \subseteq {s.name : s \in specs} /\ ToSet(MCPServers) \subseteq DOMAIN catalogue
  /\ DOMAIN catalogue = DOMAIN mux /\ DOMAIN mux \subseteq ToSet(Alphabet)
  /\ run \in [Runs -> {"none", "live", "ended"}] /\ workspace \in Workspaces
  /\ mermaidSeq \in 0..MaxCalls
  /\ \A c \in Calls :
       /\ call[c].at \in {"none", "refused", "upstream", "failed", "produced", "copying", "answered"}
       /\ {call[c].by, call[c].parent} \subseteq Runs \cup {Nobody}
       /\ IsInjective(call[c].sources)
       /\ DOMAIN call[c].mapping \subseteq {Clean(p) : p \in ToSet(call[c].sources)}

\* The name of a server that the host's configs give a stdio server, and its command.
Offers(file, n, command) ==
  /\ file.state = "ok" /\ n \in DOMAIN file.servers
  /\ file.servers[n].command = command /\ command # ""

OffersStdio(n, command) ==
  \/ Offers(config.codex, n, command) /\ config.codex.servers[n].url = ""
  \/ /\ Offers(config.claude, n, command) /\ config.claude.servers[n].type \in {"", "stdio"}
     /\ ~\E c \in {config.codex.servers[m].command : m \in DOMAIN config.codex.servers} :
           Offers(config.codex, n, c) /\ config.codex.servers[n].url = ""

\* Demesne launches only servers that the host's configs define for stdio, as Codex defines
\* them where it does, and never itself (discovery.go).
SpecsAreConfigured ==
  \A s \in specs : s.name # DemesneServerName /\ s.name \notin Malnamed /\ OffersStdio(s.name, s.command)

\* What the user's file says of a server; what no file says is the default.
Says(n) == IF config.override.state = "ok" /\ n \in DOMAIN config.override.servers
           THEN config.override.servers[n] ELSE Word("default")

\* Whether the file, or else the built-in list, lets anything of a server be seen.
Enabled(n) ==
  \/ Says(n).word = "*"
  \/ Says(n).word = "default" /\ n \in DOMAIN defaultAllowlist
  \/ ToSet(Says(n).list) # {}

\* Unless NewAggregator gave up, no server that the configs define for stdio and that is not
\* disabled is left out: not for an entry of the same name in the other config, nor for any
\* other entry (mergeUpstreams, keep).
ConfiguredAreSpecs ==
  agg \notin {"new", "off"} =>
    \A file \in {config.claude, config.codex} :
      \A n \in DOMAIN file.servers \ (Malnamed \cup {DemesneServerName}) :
        (Enabled(n) /\ OffersStdio(n, file.servers[n].command)) => UpstreamSpec(n, file.servers[n]) \in specs

MayExpose(n, t) ==
  \/ Says(n).word = "*"
  \/ Says(n).word = "default" /\ n \in DOMAIN defaultAllowlist /\ t \in defaultAllowlist[n]
  \/ t \in ToSet(Says(n).list)

\* No tool is offered, and no call of a tool reaches an upstream, that the user's file does
\* not allow (filterTools; docs: a tool off the list never appears in tools/list and cannot
\* be called).
AllowedTools ==
  /\ \A n \in DOMAIN mux \ {DemesneServerName} : \A t \in mux[n].tools : MayExpose(n, t)
  /\ \A c \in Calls : (call[c].at \notin {"none", "refused"} /\ call[c].server # DemesneServerName) =>
       MayExpose(call[c].server, call[c].tool)

\* A server that the file disables, or that nothing allows, is not mounted for its resources
\* and prompts either, which the allowlist of tools says nothing of (NewAggregator).
DisabledIsSilent == \A n \in DOMAIN mux \ {DemesneServerName} : Enabled(n)

\* Of an upstream nothing shows that the user did not allow: no tool, no resource, no prompt
\* (NewAggregator, registerUpstream).
OnlyAllowed == AllowedTools /\ DisabledIsSilent

\* No host config makes Start mount two servers at one path, which panics (server.go).
NeverPanics == agg # "panicked"

\* What is launched is what the host's readable configs hold for stdio and the user has not
\* disabled, each server with its own command, and demesne's own handler finds its path free
\* (discoverAllUpstreams, NewAggregator, Start).
LaunchesAsConfigured == SpecsAreConfigured /\ ConfiguredAreSpecs /\ NeverPanics

\* While the aggregator serves, behind every port that a run is told of is the server it is
\* told of, with the tools it is told of, and every server has its port; when there is no
\* aggregator, a run is told of none (buildMCPWiring, handlerFor).
OfferedIsServed ==
  /\ agg = "serving" => /\ ToSet(MCPServers) = DOMAIN mux
                        /\ \A r \in Runs, i \in DOMAIN MCPServers : \E j \in DOMAIN MCPServers :
                             LET told == AgentServer(i)  b == Binding(r, j)
                             IN  /\ b.port = told.port /\ b.path = told.name
                                 /\ told.tools \subseteq mux[b.path].tools
  /\ agg = "off" => MCPServers = <<>>

\* The bases of the files that a call has put in a workspace.
Placed(c) == Used(c) \cup (IF call[c].name = <<>> THEN {} ELSE {call[c].name})
                     \cup (IF call[c].open = NoPath THEN {} ELSE {call[c].open.base})

\* Whatever parent an agent claims to be, its calls act for itself: demesne's server takes it
\* for the caller, and the files that calls generate are in the workspaces of their callers
\* (handlerFor, parentFromHTTP, DeliveryDir).
ActsForCaller ==
  /\ \A c \in Calls : call[c].parent # Nobody => call[c].parent = call[c].by
  /\ \A w \in DOMAIN files : \A b \in DOMAIN files[w] :
       \E c \in Calls : call[c].by # Nobody /\ workspace[call[c].by] = w /\ b \in Placed(c)

\* Whether what a call reported is in the directory itself, if it is below it at all.
Direct(c) == \E p \in ToSet(call[c].sources) : p.sub = ""

\* A diagram, once written, is never overwritten by another call's, even when the clock
\* gives both the same time and the caller shares its workspace (mermaidAdapter.PrepareArgs).
DiagramsKept ==
  \A c \in Calls : (/\ call[c].name # <<>> /\ Direct(c)
                    /\ call[c].at \in {"produced", "copying", "answered"}) =>
    /\ call[c].name \in DOMAIN files[Generated(c)]
    /\ files[Generated(c)][call[c].name] = Diagram(c)

\* The calls that have answered with files.
Delivered == {c \in Calls : call[c].at = "answered" /\ DOMAIN call[c].sources # {}}

\* Another call, that was not over when this one began, places a file of the same name in the
\* same workspace.
Contended(c, base) ==
  \E d \in Calls \ ({c} \cup call[c].past) :
    call[d].parent # Nobody /\ Generated(d) = Generated(c) /\ base \in Placed(d)

Original(c, path) == IF call[c].server = "mermaid" THEN Diagram(c) ELSE FileFrom(path)

\* What RewriteResult cannot miss: a clean path, that is looked up whole or has no other source
\* of the call in it.
Legible(c, m) ==
  /\ m.path = Clean(m.path)
  /\ \/ call[c].server = "assets" /\ m.at = "structured"
     \/ \A p \in ToSet(call[c].sources) : <<Clean(p), m.path>> \notin Within

\* Of the files that an adapter finds, an answer names each by its path in the sandbox, or where
\* the upstream's spelling defeats the rewriting leaves or spoils the host's path, but never
\* names a file for another: what it names holds what the host's file held, unless a call that
\* ran at the same time or later places a file of the same name (Deliver, RewriteResult).
\* Left out are diagrams that the upstream has written below the directory, to which Deliver
\* gives the path that they would have in it.
AnswersHold ==
  \A c \in Delivered : \A i \in DOMAIN call[c].reported :
    LET told == call[c].reported[i]  got == call[c].answer[i].path
    IN  (/\ Reads(call[c].server, told) /\ (told.path.dir = Generated(c) => told.path.sub = "")
         /\ Legible(c, told) \/ got \notin {told.path, Garbled}) =>
          /\ got.dir = "/workspace/generated" /\ got.base \in DOMAIN files[Generated(c)]
          /\ Contended(c, got.base) \/ files[Generated(c)][got.base] = Original(c, told.path)

\* The files that answers name are the files that the upstreams made for them; what a call that
\* was over has left is not in the way of it, and diagrams stay for good (fileGenHandler).
AnswersAreTrue == AnswersHold /\ DiagramsKept
===============================================================================
