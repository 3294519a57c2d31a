------------------------------- MODULE Upstreams -------------------------------
(***************************************************************************)
(* Which upstream MCP servers demesne runs, and which of their tools it    *)
(* exposes to sandboxes: discovery of the host's servers (discovery.go),   *)
(* the built-in allowlist (defaults.go), the user's override of it         *)
(* (allowlist.go) and the selection NewAggregator makes (server.go).       *)
(*                                                                         *)
(* A file is "missing", "bad" (malformed or unreadable) or "ok".  The      *)
(* command of a server stands for its arguments and environment too.       *)
(***************************************************************************)
EXTENDS SequencesExt

CONSTANTS
  Alphabet,      \* the names of servers, in alphabetical order
  Malnamed       \* those that are no slug

ASSUME AlphabetAssumption ==
  Alphabet \in Seq(ToSet(Alphabet)) /\ IsInjective(Alphabet) /\ Malnamed \subseteq ToSet(Alphabet)

-------------------------------------------------------------------------------
(* Discovery *)

DemesneServerName  == "demesne"
validServerName(n) == n \notin Malnamed

Missing == [state |-> "missing", servers |-> <<>>]

UpstreamSpec(n, s) == [name |-> n, command |-> s.command]

\* isStdio
isStdio(s) == s.command # "" /\ s.type \in {"", "stdio"}

\* parseUpstreams: of the `mcpServers' of a Claude Code config.
parseUpstreams(servers) ==
  {UpstreamSpec(n, servers[n]) : n \in {n \in DOMAIN servers :
     n # DemesneServerName /\ validServerName(n) /\ isStdio(servers[n])}}

\* parseCodexUpstreams: of the `mcp_servers' of a Codex config; a URL is another transport.
parseCodexUpstreams(servers) ==
  {UpstreamSpec(n, servers[n]) : n \in {n \in DOMAIN servers :
     n # DemesneServerName /\ validServerName(n) /\ servers[n].url = "" /\ servers[n].command # ""}}

Readable(file) == file.state # "bad"

\* DiscoverClaudeUpstreams, DiscoverCodexUpstreams, of a readable file
DiscoverClaudeUpstreams(file) == IF file.state = "missing" THEN {} ELSE parseUpstreams(file.servers)
DiscoverCodexUpstreams(file)  == IF file.state = "missing" THEN {} ELSE parseCodexUpstreams(file.servers)

\* mergeUpstreams: Codex wins.
mergeUpstreams(claude, codex) == codex \cup {s \in claude : \A c \in codex : c.name # s.name}

\* Mutant: any entry of Codex, for another transport too, hides that of Claude Code.
discoverAllUpstreamsHidden(claude, codex) ==
  DiscoverCodexUpstreams(codex) \cup {s \in DiscoverClaudeUpstreams(claude) : s.name \notin DOMAIN codex.servers}
\* discoverAllUpstreams
discoverAllUpstreams(claude, codex) ==
  mergeUpstreams(DiscoverClaudeUpstreams(claude), DiscoverCodexUpstreams(codex))

-------------------------------------------------------------------------------
(* The allowlist *)

\* ServerAllowlist
Only(tools) == [all |-> FALSE, tools |-> tools]
AllowAll    == [all |-> TRUE, tools |-> {}]
Disable     == Only({})

\* ServerAllowlist.Allowed
Allowed(allow, tool) == allow.all \/ tool \in allow.tools

assetGetters == {"get_icon", "get_illustration", "get_font", "get_photo", "get_texture",
                 "get_model", "get_audio", "get_sprite", "get_pack"}

\* defaultAllowlist, of the servers that generate files
defaultAllowlist ==
  [n \in {"assets", "image-gen-mcp", "mermaid"} |->
     CASE n = "assets" -> assetGetters \cup
            {"list_asset_sources", "search_icons", "search_illustrations", "search_fonts", "search_photos",
             "search_textures", "search_models", "search_audio", "search_sprites"}
       [] n = "image-gen-mcp" -> {"edit_image", "generate_image", "list_available_models"}
       [] n = "mermaid"       -> {"generate"}]

\* A value of the override file: a word, or a list of tools when there is no word.
Word(w) == [word |-> w, list |-> <<>>]
List(l) == [word |-> "", list |-> l]

MetadataKeys == {"_doc"}

\* No slug begins as they do.
ASSUME MetadataAssumption == MetadataKeys \cap ToSet(Alphabet) \subseteq Malnamed

\* What parseOverrideEntry refuses.
Refused(n, value) ==
  \/ value.word \notin {"", "*", "default"}
  \/ value.word = "default" /\ n \notin DOMAIN defaultAllowlist
  \/ value.word = "" /\ "" \in ToSet(value.list)

\* Mutant: an empty list says nothing.
parseOverrideEntryNil(n, value) ==
  IF value.word = "*" THEN AllowAll
  ELSE IF value.word = "default" \/ (value.list = <<>> /\ n \in DOMAIN defaultAllowlist)
       THEN Only(defaultAllowlist[n])
  ELSE Only(ToSet(value.list))
\* parseOverrideEntry, of a value it accepts
parseOverrideEntry(n, value) ==
  IF value.word = "*" THEN AllowAll
  ELSE IF value.word = "default" THEN Only(defaultAllowlist[n])
  ELSE Only(ToSet(value.list))

OverrideKeys(file) == DOMAIN file.servers \ MetadataKeys
OverrideFails(file) == ~Readable(file) \/ \E n \in OverrideKeys(file) : Refused(n, file.servers[n])

\* applyOverride
applyOverride(base, file) ==
  LET keys     == OverrideKeys(file)
      disabled == {n \in keys : parseOverrideEntry(n, file.servers[n]) = Disable}
  IN  [n \in (DOMAIN base \cup keys) \ disabled |->
         IF n \in keys THEN parseOverrideEntry(n, file.servers[n]) ELSE base[n]]

\* ResolveAllowlist, of a file that does not fail
ResolveAllowlist(file) ==
  LET base == [n \in DOMAIN defaultAllowlist |-> Only(defaultAllowlist[n])]
  IN  IF file.state = "missing" THEN base ELSE applyOverride(base, file)

\* SeedOverrideFile: a first file, which says of each known server what no file says.
SeedOverrideFile(file) ==
  IF file.state # "missing" THEN file
  ELSE [state |-> "ok", servers |-> [n \in DOMAIN defaultAllowlist \cup MetadataKeys |->
          IF n \in MetadataKeys THEN Word("Per-server tool allowlist.") ELSE Word("default")]]

\* The specs that NewAggregator keeps.
keep(specs, allow) ==
  {s \in specs : s.name \in DOMAIN allow /\ (allow[s.name].all \/ allow[s.name].tools # {})}

\* filterTools
filterTools(tools, allow) == {t \in tools : Allowed(allow, t)}
===============================================================================
