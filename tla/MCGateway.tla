------------------------------- MODULE MCGateway -------------------------------
(* An instance of Gateway for TLC.  The first configs tell the rules of discovery  *)
(* and of the allowlist apart; the last two expose servers that generate files.     *)
EXTENDS Gateway

CONSTANTS Parent, Child    \* two runs

MCAlphabet == <<"Bad Name", "assets", "demesne", "image-gen-mcp", "mermaid", "notes">>
MCMalnamed == {"Bad Name"}

Ok(servers) == [state |-> "ok", servers |-> servers]
Bad         == [state |-> "bad", servers |-> <<>>]

Stdio(command) == [type |-> "stdio", command |-> command, url |-> ""]
Untyped        == [type |-> "", command |-> "run", url |-> ""]
Http           == [type |-> "http", command |-> "", url |-> "http://host/mcp"]
HttpCommand    == [type |-> "http", command |-> "run", url |-> "http://host/mcp"]

BothClaude == Ok("assets" :> HttpCommand @@ "mermaid" :> Stdio("run") @@ "notes" :> Stdio("run"))
BothCodex  == Ok("Bad Name" :> Untyped @@ "mermaid" :> Stdio("codex") @@ "notes" :> HttpCommand)
NotesOnly  == Ok("_doc" :> Word("all") @@ "mermaid" :> List(<<>>) @@ "demesne" :> Word("*") @@ "notes" :> Word("*"))

Claudes ==
  {Missing, Bad, BothClaude,
   Ok("Bad Name" :> Untyped @@ "demesne" :> Untyped @@ "mermaid" :> Http @@ "notes" :> Untyped)}

Codexes ==
  {Missing, Bad, BothCodex, Ok("demesne" :> Untyped @@ "mermaid" :> Http @@ "notes" :> Http)}

Overrides ==
  {Missing, Bad, NotesOnly,
   Ok("notes" :> Word("default")), Ok("mermaid" :> Word("all")), Ok("notes" :> List(<<"">>)),
   Ok("mermaid" :> Word("default") @@ "notes" :> List(<<"read">>) @@ "Bad Name" :> Word("*"))}

Config(claude, codex, override) == [claude |-> claude, codex |-> codex, override |-> override]

MCConfigs ==
  {Config(a, b, NotesOnly) : a \in Claudes, b \in Codexes} \cup
  {Config(BothClaude, BothCodex, o) : o \in Overrides} \cup
  {Config(Ok("assets" :> Untyped @@ "mermaid" :> Untyped), Missing,
          Ok("assets" :> List(<<"get_icon", "list_asset_sources">>))),
   Config(Missing, Ok("image-gen-mcp" :> Untyped), Ok("image-gen-mcp" :> Word("*")))}

Lists(tools, others) == [tools |-> tools, others |-> others]

MCListings ==
     "assets"        :> {Lists({"get_icon", "delete_icon"}, {})}
  @@ "image-gen-mcp" :> {Lists({"edit_image"}, {})}
  @@ "mermaid"       :> {Lists({"generate"}, {"prompts"})}
  @@ "notes"         :> {Lists({"read", "write"}, {}), Lists({"write"}, {"resources"})}
  @@ "demesne"       :> {Lists({"sandbox_agent"}, {})}
  @@ "Bad Name"      :> {Lists({"read"}, {})}

MCDemesneTools == {"sandbox_agent"}

Mention(at, scheme, path) == [at |-> at, scheme |-> scheme, path |-> path]
Icons(dirs) == [i \in DOMAIN dirs |-> Mention("structured", "", PathIn(dirs[i], <<"icon">>))]

Loose(p) == [p EXCEPT !.spelling = "loose"]
Second   == PathIn("light", <<"icon", 1>>)

MCReports ==
     "assets" :> {Icons(<<"light", "dark", "light">>) \o <<Mention("text", "", Second)>>,
                  <<Mention("structured", "", Loose(PathIn("light", <<"icon">>))),
                    Mention("text", "", PathIn("light", <<"icon">>))>>}
  @@ "image-gen-mcp" :> {<<Mention("structured", "file", PathIn("images", <<"a">>)),
                           Mention("text", "file", PathIn("images", <<"a">>))>>,
                         <<Mention("structured", "https", PathIn("web", <<"a">>))>>}

Saving(sub, spelling) == [sub |-> sub, spelling |-> spelling]
MCSavings == {Saving("", ""), Saving("", "loose"), Saving("sub", "")}

\* The text of a name without an extension begins the name to which a number is appended.
MCWithin == {<<PathIn("light", <<"icon">>), Second>>}

MCWorkspaces == {[r \in {Parent, Child} |-> "W"]} \cup
                {[r \in {Parent, Child} |-> IF r = own THEN "private" ELSE "W"] : own \in {Parent, Child}}

RunSymmetry == Permutations({Parent, Child})
===============================================================================
