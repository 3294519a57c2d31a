------------------------------ MODULE GatewayProofs ------------------------------
(***************************************************************************)
(* Theorems of Gateway, for any config files, any upstreams and any calls  *)
(* of any runs.                                                            *)
(***************************************************************************)
EXTENDS Gateway, Sums

-------------------------------------------------------------------------------
(* Maps and the alphabet *)

Names == ToSet(Alphabet)

LEMMA AlphabetIs ==
  /\ Len(Alphabet) \in Nat /\ DOMAIN Alphabet = 1..Len(Alphabet)
  /\ \A i, j \in DOMAIN Alphabet : Alphabet[i] = Alphabet[j] => i = j
  /\ Names = {Alphabet[i] : i \in DOMAIN Alphabet}
<1>1. Alphabet \in Seq(Names)
  BY AlphabetAssumption DEF Names
<1>2. \A i, j \in DOMAIN Alphabet : Alphabet[i] = Alphabet[j] => i = j
  BY AlphabetAssumption DEF IsInjective
<1> QED BY <1>1, <1>2 DEF Names, ToSet

LEMMA NamesFinite == \A S \in SUBSET Names : IsFiniteSet(S) /\ Cardinality(S) \in Nat
<1>1. IsFiniteSet(1..Len(Alphabet))
  BY AlphabetIs, FS_Interval
<1>2. Alphabet \in Surjection(1..Len(Alphabet), Names)
  <2>1. Alphabet \in [1..Len(Alphabet) -> Names]
    BY AlphabetIs, AlphabetAssumption DEF Names
  <2> QED BY <2>1, AlphabetIs DEF Surjection
<1>3. IsFiniteSet(Names)
  BY <1>1, <1>2, FS_Surjection
<1> QED BY <1>3, FS_Subset, FS_CardinalityType

\* The alphabetical order is total.
LEMMA BeforeIs ==
  /\ \A m \in Names : ~Before(m, m)
  /\ \A m, n \in Names : m # n => Before(m, n) \/ Before(n, m)
  /\ \A l, m, n \in Names : Before(l, m) /\ Before(m, n) => Before(l, n)
BY AlphabetIs DEF Before

\* The names of S that come before n.
Earlier(S, n) == {m \in S : Before(m, n)}

LEMMA EarlierApart ==
  ASSUME NEW S \in SUBSET Names, NEW m \in S, NEW n \in S, Before(m, n)
  PROVE  Cardinality(Earlier(S, m)) < Cardinality(Earlier(S, n))
<1>1. Earlier(S, m) \in SUBSET Earlier(S, n) /\ m \in Earlier(S, n) /\ m \notin Earlier(S, m)
  BY BeforeIs DEF Earlier
<1>2. IsFiniteSet(Earlier(S, n)) /\ Cardinality(Earlier(S, n)) \in Nat /\ Cardinality(Earlier(S, m)) \in Nat
  <2>1. Earlier(S, n) \in SUBSET Names /\ Earlier(S, m) \in SUBSET Names
    BY DEF Earlier
  <2> QED BY <2>1, NamesFinite
<1> QED BY <1>1, <1>2, FS_Subset

\* What is sorted is all there, and nothing else.
LEMMA SortedIs ==
  ASSUME NEW S \in SUBSET Names
  PROVE  /\ Sorted(S) \in Seq(S)
         /\ ToSet(Sorted(S)) = S
<1> DEFINE N == Cardinality(S)
           rank == [n \in S |-> Cardinality(Earlier(S, n)) + 1]
<1>1. IsFiniteSet(S) /\ N \in Nat /\ \A n \in S : IsFiniteSet(Earlier(S, n)) /\ Cardinality(Earlier(S, n)) \in Nat
  BY NamesFinite DEF Earlier
<1>2. rank \in [S -> 1..N]
  <2> SUFFICES ASSUME NEW n \in S PROVE Cardinality(Earlier(S, n)) + 1 <= N
    BY <1>1
  <2>1. n \notin Earlier(S, n) /\ Earlier(S, n) \in SUBSET S
    BY BeforeIs DEF Earlier
  <2>2. Cardinality(Earlier(S, n)) <= N /\ Cardinality(Earlier(S, n)) # N
    BY <1>1, <2>1, FS_Subset
  <2> QED BY <1>1, <2>2
<1>3. \A m, n \in S : rank[m] = rank[n] => m = n
  <2> SUFFICES ASSUME NEW m \in S, NEW n \in S, m # n PROVE rank[m] # rank[n]
    OBVIOUS
  <2>1. Before(m, n) \/ Before(n, m)
    BY BeforeIs
  <2> QED BY <1>1, <2>1, EarlierApart
<1> HIDE DEF rank
<1>4. rank \in Injection(S, 1..N)
  BY <1>2, <1>3 DEF Injection, IsInjective
<1>5. IsFiniteSet(1..N) /\ Cardinality(1..N) = N
  BY <1>1, FS_Interval
<1>6. rank \in Surjection(S, 1..N)
  BY <1>4, <1>5, FS_Injection
<1>7. \A i \in 1..N : \E n \in S : rank[n] = i
  BY <1>6 DEF Surjection
<1>8. \A i \in 1..N : Sorted(S)[i] \in S /\ rank[Sorted(S)[i]] = i
  <2> SUFFICES ASSUME NEW i \in 1..N PROVE Sorted(S)[i] \in S /\ rank[Sorted(S)[i]] = i
    OBVIOUS
  <2>1. Sorted(S)[i] = CHOOSE n \in S : Cardinality(Earlier(S, n)) = i - 1
    BY DEF Sorted, Earlier
  <2>2. \E n \in S : Cardinality(Earlier(S, n)) = i - 1
    BY <1>7, <1>1 DEF rank
  <2> QED BY <2>1, <2>2, <1>1 DEF rank
<1>9. Sorted(S) \in [1..N -> S]
  BY <1>8 DEF Sorted
<1>10. Sorted(S) \in Seq(S)
  BY <1>1, <1>9
<1>11. S \subseteq ToSet(Sorted(S))
  <2> SUFFICES ASSUME NEW n \in S PROVE \E i \in 1..N : Sorted(S)[i] = n
    BY <1>9 DEF ToSet
  <2>1. rank[n] \in 1..N
    BY <1>2
  <2>2. rank[Sorted(S)[rank[n]]] = rank[n] /\ Sorted(S)[rank[n]] \in S
    BY <2>1, <1>8
  <2> QED BY <2>1, <2>2, <1>3
<1> QED BY <1>9, <1>10, <1>11 DEF ToSet

-------------------------------------------------------------------------------
(* The aggregator *)

NamesOf(S) == {s.name : s \in S}

ConfigOK ==
  /\ DOMAIN config = {"claude", "codex", "override"}
  /\ \A f \in DOMAIN config : config[f].state \in {"missing", "bad", "ok"}
  /\ DOMAIN config.claude.servers \cup DOMAIN config.codex.servers \subseteq Names

\* NewAggregator has succeeded, with the files as they are.
Chosen ==
  /\ Readable(config.claude) /\ Readable(config.codex) /\ ~OverrideFails(config.override)
  /\ allow = ResolveAllowlist(config.override)
  /\ specs = keep(discoverAllUpstreams(config.claude, config.codex), allow)

Idle == agg \in {"new", "off"} /\ specs = {} /\ todo = <<>> /\ mux = <<>> /\ catalogue = <<>>

\* What is mounted is what was chosen, and demesne's own server, which comes last.
Mounted ==
  /\ todo \in Seq(NamesOf(specs))
  /\ DOMAIN mux \subseteq NamesOf(specs) \cup {DemesneServerName} /\ DOMAIN catalogue = DOMAIN mux
  /\ agg \in {"new", "starting"} => DemesneServerName \notin DOMAIN mux
  /\ \A n \in DOMAIN mux : mux[n].tools = catalogue[n]
  /\ \A n \in DOMAIN mux \ {DemesneServerName} : \A t \in mux[n].tools : Allowed(AllowOf(n), t)

Wired == MCPServers = IF agg \in {"serving", "closed"} THEN Sorted(DOMAIN catalogue) ELSE <<>>

AggInv ==
  /\ ConfigOK
  /\ agg \in {"new", "starting", "listening", "serving", "off", "closed"}
  /\ (agg # "new" /\ Chosen) \/ Idle
  /\ Mounted /\ Wired

\* Every kept server is one that the host's configs define for stdio, and allowed.
LEMMA KeptSpecs ==
  ASSUME ConfigOK, Chosen, NEW s \in specs
  PROVE  /\ s.name \in Names /\ s.name # DemesneServerName /\ s.name \notin Malnamed
         /\ OffersStdio(s.name, s.command)
         /\ s.name \in DOMAIN allow /\ (allow[s.name].all \/ allow[s.name].tools # {})
<1> DEFINE claude == DiscoverClaudeUpstreams(config.claude)
           codex  == DiscoverCodexUpstreams(config.codex)
<1>1. /\ s \in mergeUpstreams(claude, codex)
      /\ s.name \in DOMAIN allow /\ (allow[s.name].all \/ allow[s.name].tools # {})
  BY DEF Chosen, keep, discoverAllUpstreams
<1>2. /\ config.claude.state \in {"missing", "bad", "ok"} /\ config.codex.state \in {"missing", "bad", "ok"}
      /\ config.claude.state # "bad" /\ config.codex.state # "bad"
  BY DEF ConfigOK, Chosen, Readable
<1>3. \A n \in DOMAIN config.codex.servers :
        config.codex.state = "ok" /\ n # DemesneServerName /\ validServerName(n)
          /\ config.codex.servers[n].url = "" /\ config.codex.servers[n].command # ""
        => UpstreamSpec(n, config.codex.servers[n]) \in codex
  BY DEF DiscoverCodexUpstreams, parseCodexUpstreams
<1>4. CASE s \in codex
  <2>1. config.codex.state = "ok"
    BY <1>2, <1>4 DEF DiscoverCodexUpstreams
  <2>2. PICK n \in DOMAIN config.codex.servers :
          /\ n # DemesneServerName /\ validServerName(n)
          /\ config.codex.servers[n].url = "" /\ config.codex.servers[n].command # ""
          /\ s = UpstreamSpec(n, config.codex.servers[n])
    BY <1>4, <2>1 DEF DiscoverCodexUpstreams, parseCodexUpstreams
  <2>3. s.name = n /\ s.command = config.codex.servers[n].command
    BY <2>2 DEF UpstreamSpec
  <2>4. OffersStdio(s.name, s.command)
    BY <2>1, <2>2, <2>3 DEF OffersStdio, Offers
  <2> QED BY <1>1, <2>2, <2>3, <2>4 DEF ConfigOK, validServerName
<1>5. CASE s \in claude /\ \A c \in codex : c.name # s.name
  <2>1. config.claude.state = "ok"
    BY <1>2, <1>5 DEF DiscoverClaudeUpstreams
  <2>2. PICK n \in DOMAIN config.claude.servers :
          /\ n # DemesneServerName /\ validServerName(n) /\ isStdio(config.claude.servers[n])
          /\ s = UpstreamSpec(n, config.claude.servers[n])
    BY <1>5, <2>1 DEF DiscoverClaudeUpstreams, parseUpstreams
  <2>3. s.name = n /\ s.command = config.claude.servers[n].command
    BY <2>2 DEF UpstreamSpec
  <2>4. ~\E c \in {config.codex.servers[m].command : m \in DOMAIN config.codex.servers} :
           Offers(config.codex, n, c) /\ config.codex.servers[n].url = ""
    <3>1. UpstreamSpec(n, config.codex.servers[n]).name = n
      BY DEF UpstreamSpec
    <3> QED BY <1>3, <1>5, <2>2, <2>3, <3>1 DEF Offers
  <2>5. OffersStdio(s.name, s.command)
    BY <2>1, <2>2, <2>3, <2>4 DEF OffersStdio, Offers, isStdio
  <2> QED BY <1>1, <2>2, <2>3, <2>5 DEF ConfigOK, validServerName
<1> QED BY <1>1, <1>4, <1>5 DEF mergeUpstreams

\* What the user's file or the built-in list enables is in the allowlist, with something to allow.
LEMMA EnabledIsAllowed ==
  ASSUME ConfigOK, Chosen, NEW n, Enabled(n), n \notin MetadataKeys
  PROVE  n \in DOMAIN allow /\ (allow[n].all \/ allow[n].tools # {})
<1> DEFINE file == config.override
           base == [k \in DOMAIN defaultAllowlist |-> Only(defaultAllowlist[k])]
           keys == OverrideKeys(file)
<1>1. file.state \in {"missing", "ok"}
  BY DEF ConfigOK, Chosen, OverrideFails, Readable
<1>2. \A k \in DOMAIN defaultAllowlist : defaultAllowlist[k] # {}
  BY DEF defaultAllowlist
<1>3. Word("default").word = "default" /\ ToSet(Word("default").list) = {}
  BY DEF Word, ToSet
<1>4. Disable.all = FALSE /\ Disable.tools = {} /\ AllowAll.all = TRUE
  BY DEF Disable, Only, AllowAll
<1>5. \A T : Only(T).tools = T
  BY DEF Only
<1>6. CASE file.state = "missing"
  <2>1. n \in DOMAIN defaultAllowlist
    BY <1>3, <1>6 DEF Says, Enabled
  <2>2. allow = base
    BY <1>6 DEF Chosen, ResolveAllowlist
  <2> QED BY <1>2, <1>5, <2>1, <2>2
<1>7. CASE file.state = "ok"
  <2> DEFINE disabled == {k \in keys : parseOverrideEntry(k, file.servers[k]) = Disable}
  <2>1. /\ DOMAIN allow = (DOMAIN base \cup keys) \ disabled
        /\ \A k \in DOMAIN allow : allow[k] = IF k \in keys THEN parseOverrideEntry(k, file.servers[k]) ELSE base[k]
    BY <1>7 DEF Chosen, ResolveAllowlist, applyOverride
  <2>2. CASE n \in keys
    <3>1. Says(n) = file.servers[n] /\ ~Refused(n, Says(n))
      BY <1>7, <2>2 DEF OverrideKeys, Says, Chosen, OverrideFails
    <3> DEFINE entry == parseOverrideEntry(n, Says(n))
    <3>2. entry.all \/ entry.tools # {}
      BY <1>2, <1>4, <1>5, <3>1 DEF Enabled, Refused, parseOverrideEntry
    <3>3. entry # Disable
      BY <1>4, <3>2
    <3> HIDE DEF entry
    <3>4. n \notin disabled
      BY <3>1, <3>3 DEF entry
    <3>5. allow[n] = entry /\ n \in DOMAIN allow
      BY <2>1, <2>2, <3>1, <3>4 DEF entry
    <3> QED BY <3>2, <3>5
  <2>3. CASE n \notin keys
    <3>1. n \in DOMAIN defaultAllowlist
      BY <1>3, <1>7, <2>3 DEF Says, Enabled, OverrideKeys
    <3>2. n \in DOMAIN allow /\ allow[n] = Only(defaultAllowlist[n])
      BY <2>1, <2>3, <3>1
    <3> QED BY <1>2, <1>5, <3>1, <3>2
  <2> QED BY <2>2, <2>3
<1> QED BY <1>1, <1>6, <1>7

\* What the configs define for stdio is discovered.
LEMMA OffersAreDiscovered ==
  ASSUME ConfigOK, Chosen, NEW n, n # DemesneServerName, n \notin Malnamed, NEW server, OffersStdio(n, server.command)
  PROVE  UpstreamSpec(n, server) \in discoverAllUpstreams(config.claude, config.codex)
<1> DEFINE claude == DiscoverClaudeUpstreams(config.claude)
           codex  == DiscoverCodexUpstreams(config.codex)
           spec   == UpstreamSpec(n, server)
<1>1. \A other : other.command = server.command => UpstreamSpec(n, other) = spec
  BY DEF UpstreamSpec
<1>2. CASE Offers(config.codex, n, server.command) /\ config.codex.servers[n].url = ""
  <2>1. UpstreamSpec(n, config.codex.servers[n]) \in codex
    BY <1>2 DEF Offers, DiscoverCodexUpstreams, parseCodexUpstreams, validServerName
  <2>2. spec \in codex
    BY <1>1, <1>2, <2>1 DEF Offers
  <2> QED BY <2>2 DEF discoverAllUpstreams, mergeUpstreams
<1>3. CASE /\ Offers(config.claude, n, server.command) /\ config.claude.servers[n].type \in {"", "stdio"}
           /\ ~\E c \in {config.codex.servers[m].command : m \in DOMAIN config.codex.servers} :
                 Offers(config.codex, n, c) /\ config.codex.servers[n].url = ""
  <2>1. UpstreamSpec(n, config.claude.servers[n]) \in claude
    BY <1>3 DEF Offers, DiscoverClaudeUpstreams, parseUpstreams, validServerName, isStdio
  <2>2. spec \in claude
    BY <1>1, <1>3, <2>1 DEF Offers
  <2>3. ASSUME NEW t \in codex PROVE t.name # spec.name
    <3>1. config.codex.state \in {"missing", "ok"}
      BY DEF ConfigOK, Chosen, Readable
    <3>2. config.codex.state = "ok"
      BY <2>3, <3>1 DEF DiscoverCodexUpstreams
    <3>3. PICK k \in DOMAIN config.codex.servers :
            /\ config.codex.servers[k].url = "" /\ config.codex.servers[k].command # ""
            /\ t = UpstreamSpec(k, config.codex.servers[k])
      BY <2>3, <3>2 DEF DiscoverCodexUpstreams, parseCodexUpstreams
    <3>4. t.name = k /\ spec.name = n
      BY <3>3 DEF UpstreamSpec
    <3>5. SUFFICES ASSUME k = n PROVE FALSE
      BY <3>4
    <3>6. Offers(config.codex, n, config.codex.servers[n].command)
      BY <3>2, <3>3, <3>5 DEF Offers
    <3> QED BY <1>3, <3>3, <3>5, <3>6
  <2> QED BY <2>2, <2>3 DEF discoverAllUpstreams, mergeUpstreams
<1> QED BY <1>2, <1>3 DEF OffersStdio

\* Nothing that is configured and enabled is left out.
LEMMA AllAreKept == ASSUME AggInv PROVE ConfiguredAreSpecs
<1>1. SUFFICES ASSUME agg \notin {"new", "off"}, NEW file \in {config.claude, config.codex},
                      NEW n \in DOMAIN file.servers \ (Malnamed \cup {DemesneServerName}),
                      Enabled(n), OffersStdio(n, file.servers[n].command)
               PROVE  UpstreamSpec(n, file.servers[n]) \in specs
  BY DEF ConfiguredAreSpecs
<1>2. ConfigOK /\ Chosen
  BY <1>1 DEF AggInv, Idle
<1>3. n \notin MetadataKeys
  <2>1. n \in Names
    BY <1>1, <1>2 DEF ConfigOK
  <2> QED BY <1>1, <2>1, MetadataAssumption DEF Names
<1>4. n \in DOMAIN allow /\ (allow[n].all \/ allow[n].tools # {})
  BY <1>1, <1>2, <1>3, EnabledIsAllowed
<1>5. PICK server : server = file.servers[n]
  OBVIOUS
<1>6. UpstreamSpec(n, server) \in discoverAllUpstreams(config.claude, config.codex)
  BY <1>1, <1>2, <1>5, OffersAreDiscovered
<1>7. UpstreamSpec(n, server).name = n
  BY DEF UpstreamSpec
<1> QED BY <1>2, <1>4, <1>5, <1>6, <1>7 DEF Chosen, keep

LEMMA ServersAreNames ==
  ASSUME AggInv
  PROVE  NamesOf(specs) \subseteq Names \ {DemesneServerName} /\ DOMAIN mux \subseteq Names
<1>1. NamesOf(specs) \subseteq Names \ {DemesneServerName}
  BY KeptSpecs DEF AggInv, Idle, NamesOf
<1> QED BY <1>1, GatewayBounds DEF AggInv, Mounted, Names

LEMMA InitAgg == Init => AggInv
<1> SUFFICES ASSUME Init PROVE AggInv
  OBVIOUS
<1>1. ConfigOK
  BY ConfigsAssumption DEF Init, ConfigOK, Names
<1>2. Idle /\ agg = "new"
  BY DEF Init, Idle
<1>3. Mounted
  BY DEF Init, Mounted
<1>4. Wired
  BY DEF Init, Wired
<1> QED BY <1>1, <1>2, <1>3, <1>4 DEF AggInv

LEMMA DiscoveredNames ==
  ASSUME NEW claude, NEW codex, NEW s \in discoverAllUpstreams(claude, codex)
  PROVE  s.name \in DOMAIN claude.servers \cup DOMAIN codex.servers
<1>1. \A t \in DiscoverClaudeUpstreams(claude) : t.name \in DOMAIN claude.servers
  BY DEF DiscoverClaudeUpstreams, parseUpstreams, UpstreamSpec
<1>2. \A t \in DiscoverCodexUpstreams(codex) : t.name \in DOMAIN codex.servers
  <2>1. \A t \in parseCodexUpstreams(codex.servers) : t.name \in DOMAIN codex.servers
    <3>1. \A t \in parseCodexUpstreams(codex.servers) :
            \E n \in DOMAIN codex.servers : t = UpstreamSpec(n, codex.servers[n])
      BY DEF parseCodexUpstreams
    <3> QED BY <3>1 DEF UpstreamSpec
  <2> QED BY <2>1 DEF DiscoverCodexUpstreams
<1> QED BY <1>1, <1>2 DEF discoverAllUpstreams, mergeUpstreams

LEMMA NewAggregatorKeeps == ASSUME AggInv, NewAggregator PROVE AggInv'
<1>1. /\ agg = "new" /\ ConfigOK /\ Idle /\ MCPServers = <<>>
      /\ mux' = mux /\ catalogue' = catalogue /\ MCPServers' = MCPServers
  BY DEF AggInv, NewAggregator, Wired
<1>2. mux = <<>> /\ catalogue = <<>> /\ todo = <<>> /\ specs = {}
  BY <1>1 DEF Idle
<1>3. CASE ~Readable(config.claude) \/ ~Readable(config.codex)
  <2>1. agg' = "off" /\ config' = config /\ todo' = todo /\ specs' = specs /\ allow' = allow
    BY <1>1, <1>3 DEF NewAggregator
  <2>2. ConfigOK' /\ Idle'
    BY <1>1, <1>2, <2>1 DEF ConfigOK, Idle
  <2>3. Mounted'
    BY <1>1, <1>2, <2>1 DEF Mounted
  <2>4. Wired'
    BY <1>1, <2>1 DEF Wired
  <2> QED BY <2>1, <2>2, <2>3, <2>4 DEF AggInv
<1>4. CASE Readable(config.claude) /\ Readable(config.codex)
  <2>1. PICK override \in {config.override, SeedOverrideFile(config.override)} :
          /\ config' = [config EXCEPT !.override = override]
          /\ IF OverrideFails(override) THEN agg' = "off" /\ UNCHANGED <<todo, specs, allow>>
             ELSE /\ agg' = "starting"
                  /\ allow' = ResolveAllowlist(override)
                  /\ specs' = keep(discoverAllUpstreams(config.claude, config.codex), allow')
                  /\ todo' = Sorted({s.name : s \in specs'})
    BY <1>1, <1>4 DEF NewAggregator
  <2>2. override.state \in {"missing", "bad", "ok"}
    <3>1. config.override.state \in {"missing", "bad", "ok"}
      BY <1>1 DEF ConfigOK
    <3>2. SeedOverrideFile(config.override) = config.override \/ SeedOverrideFile(config.override).state = "ok"
      BY DEF SeedOverrideFile
    <3> QED BY <2>1, <3>1, <3>2
  <2>3. /\ DOMAIN config' = DOMAIN config /\ config'.override = override
        /\ config'.claude = config.claude /\ config'.codex = config.codex
    BY <1>1, <2>1 DEF ConfigOK
  <2>4. ConfigOK'
    BY <1>1, <2>2, <2>3 DEF ConfigOK
  <2>5. CASE OverrideFails(override)
    <3>1. agg' = "off" /\ todo' = todo /\ specs' = specs
      BY <2>1, <2>5
    <3>2. Idle'
      BY <1>1, <1>2, <3>1 DEF Idle
    <3>3. Mounted'
      BY <1>1, <1>2, <3>1 DEF Mounted
    <3>4. Wired'
      BY <1>1, <3>1 DEF Wired
    <3> QED BY <2>4, <3>1, <3>2, <3>3, <3>4 DEF AggInv
  <2>6. CASE ~OverrideFails(override)
    <3>1. agg' = "starting" /\ todo' = Sorted(NamesOf(specs'))
      BY <2>1, <2>6 DEF NamesOf
    <3>2. Chosen'
      BY <1>4, <2>1, <2>3, <2>6 DEF Chosen
    <3>3. NamesOf(specs') \in SUBSET Names
      <4>1. \A s \in specs' : s \in discoverAllUpstreams(config.claude, config.codex)
        BY <2>1, <2>6 DEF keep
      <4> QED BY <1>1, <4>1, DiscoveredNames DEF ConfigOK, NamesOf
    <3>4. todo' \in Seq(NamesOf(specs'))
      BY <3>1, <3>3, SortedIs
    <3>5. Mounted'
      BY <1>1, <1>2, <3>4 DEF Mounted, NamesOf
    <3>6. Wired'
      BY <1>1, <3>1 DEF Wired
    <3> QED BY <2>4, <3>1, <3>2, <3>5, <3>6 DEF AggInv
  <2> QED BY <2>5, <2>6
<1> QED BY <1>3, <1>4

\* What a step that chooses nothing leaves alone.
LEMMA ChoiceStays ==
  ASSUME ConfigOK, config' = config, allow' = allow, specs' = specs
  PROVE  ConfigOK' /\ (Chosen => Chosen') /\ \A n : AllowOf(n)' = AllowOf(n)
BY DEF ConfigOK, Chosen, AllowOf

LEMMA RegisterUpstreamKeeps == ASSUME AggInv, registerUpstream PROVE AggInv'
<1> DEFINE n == Head(todo)
<1>1. /\ agg = "starting" /\ todo # <<>> /\ todo' = Tail(todo) /\ agg' = agg /\ MCPServers' = MCPServers
      /\ config' = config /\ allow' = allow /\ specs' = specs
  BY DEF registerUpstream
<1>2. /\ ConfigOK /\ Chosen /\ todo \in Seq(NamesOf(specs)) /\ Mounted
  BY <1>1 DEF AggInv, Idle, Mounted
<1>3. n \in NamesOf(specs) /\ Tail(todo) \in Seq(NamesOf(specs))
  BY <1>1, <1>2
<1>4. n # DemesneServerName
  BY <1>3, ServersAreNames
<1>5. ConfigOK' /\ Chosen' /\ \A k : AllowOf(k)' = AllowOf(k)
  BY <1>1, <1>2, ChoiceStays
<1>6. Wired'
  BY <1>1 DEF AggInv, Wired
<1>7. todo' \in Seq(NamesOf(specs))' /\ agg' = "starting"
  BY <1>1, <1>3 DEF NamesOf
<1>8. CASE UNCHANGED <<mux, catalogue>>
  <2>1. mux' = mux /\ catalogue' = catalogue
    BY <1>8
  <2>2. Mounted'
    BY <1>1, <1>2, <1>5, <1>7, <2>1 DEF Mounted, NamesOf
  <2> QED BY <1>5, <1>6, <1>7, <2>2 DEF AggInv
<1>9. CASE \E l \in Listings[n] : \E others \in SUBSET l.others :
             LET exposed == filterTools(l.tools, AllowOf(n))
             IN  /\ mux' = Put(mux, n, Served(exposed, others))
                 /\ catalogue' = Put(catalogue, n, exposed)
  <2>0. PICK l \in Listings[n] : \E others \in SUBSET l.others :
               /\ mux' = Put(mux, n, Served(filterTools(l.tools, AllowOf(n)), others))
               /\ catalogue' = Put(catalogue, n, filterTools(l.tools, AllowOf(n)))
    BY <1>9
  <2>1. PICK others \in SUBSET l.others :
               /\ mux' = Put(mux, n, Served(filterTools(l.tools, AllowOf(n)), others))
               /\ catalogue' = Put(catalogue, n, filterTools(l.tools, AllowOf(n)))
    BY <2>0
  <2> DEFINE exposed == filterTools(l.tools, AllowOf(n))
  <2>2. Served(exposed, others).tools = exposed /\ \A t \in exposed : Allowed(AllowOf(n), t)
    BY DEF Served, filterTools
  <2> HIDE DEF exposed, n
  <2>3. /\ DOMAIN mux' = DOMAIN mux \cup {n} /\ mux'[n].tools = exposed
        /\ \A k \in DOMAIN mux : k # n => mux'[k] = mux[k]
    BY <2>1, <2>2 DEF exposed, Put
  <2>4. /\ DOMAIN catalogue' = DOMAIN catalogue \cup {n} /\ catalogue'[n] = exposed
        /\ \A k \in DOMAIN catalogue : k # n => catalogue'[k] = catalogue[k]
    BY <2>1 DEF exposed, Put
  <2>5. /\ DOMAIN mux \subseteq NamesOf(specs) \cup {DemesneServerName} /\ DOMAIN catalogue = DOMAIN mux
        /\ DemesneServerName \notin DOMAIN mux
        /\ \A k \in DOMAIN mux : mux[k].tools = catalogue[k]
        /\ \A k \in DOMAIN mux \ {DemesneServerName} : \A t \in mux[k].tools : Allowed(AllowOf(k), t)
    BY <1>1, <1>2 DEF Mounted
  <2>6. /\ DOMAIN mux' \subseteq NamesOf(specs)' \cup {DemesneServerName} /\ DOMAIN catalogue' = DOMAIN mux'
        /\ DemesneServerName \notin DOMAIN mux'
    BY <1>1, <1>3, <1>4, <2>3, <2>4, <2>5 DEF NamesOf
  <2>7. \A k \in DOMAIN mux' : mux'[k].tools = catalogue'[k]
    BY <2>3, <2>4, <2>5
  <2>8. \A k \in DOMAIN mux' \ {DemesneServerName} : \A t \in mux'[k].tools : Allowed(AllowOf(k), t)
    BY <2>2, <2>3, <2>5
  <2>9. Mounted'
    BY <1>5, <1>7, <2>6, <2>7, <2>8 DEF Mounted
  <2> QED BY <1>5, <1>6, <1>7, <2>9 DEF AggInv
<1> QED BY <1>8, <1>9 DEF registerUpstream

LEMMA StartKeeps == ASSUME AggInv, Start PROVE AggInv'
<1>1. /\ agg = "starting" /\ todo' = todo /\ MCPServers' = MCPServers
      /\ config' = config /\ allow' = allow /\ specs' = specs
  BY DEF Start
<1>2. /\ ConfigOK /\ Chosen /\ Mounted /\ DemesneServerName \notin DOMAIN mux
  BY <1>1 DEF AggInv, Idle, Mounted
<1>3. /\ mux' = Put(mux, DemesneServerName, Served(DemesneTools, {}))
      /\ catalogue' = Put(catalogue, DemesneServerName, DemesneTools)
      /\ agg' \in {"listening", "off"}
  BY <1>2 DEF Start
<1>4. ConfigOK' /\ Chosen' /\ \A k : AllowOf(k)' = AllowOf(k)
  BY <1>1, <1>2, ChoiceStays
<1>5. Wired'
  BY <1>1, <1>3 DEF AggInv, Wired
<1>6. Served(DemesneTools, {}).tools = DemesneTools
  BY DEF Served
<1>7. /\ DOMAIN mux' = DOMAIN mux \cup {DemesneServerName} /\ mux'[DemesneServerName].tools = DemesneTools
      /\ \A k \in DOMAIN mux : k # DemesneServerName => mux'[k] = mux[k]
  BY <1>3, <1>6 DEF Put
<1>8. /\ DOMAIN catalogue' = DOMAIN catalogue \cup {DemesneServerName}
      /\ catalogue'[DemesneServerName] = DemesneTools
      /\ \A k \in DOMAIN catalogue : k # DemesneServerName => catalogue'[k] = catalogue[k]
  BY <1>3 DEF Put
<1>9. Mounted'
  <2>1. /\ DOMAIN mux \subseteq NamesOf(specs) \cup {DemesneServerName} /\ DOMAIN catalogue = DOMAIN mux
        /\ todo \in Seq(NamesOf(specs))
        /\ \A k \in DOMAIN mux : mux[k].tools = catalogue[k]
        /\ \A k \in DOMAIN mux \ {DemesneServerName} : \A t \in mux[k].tools : Allowed(AllowOf(k), t)
    BY <1>2 DEF Mounted
  <2>2. NamesOf(specs)' = NamesOf(specs)
    BY <1>1 DEF NamesOf
  <2>3. \A k \in DOMAIN mux' : mux'[k].tools = catalogue'[k]
    BY <1>7, <1>8, <2>1
  <2>4. \A k \in DOMAIN mux' \ {DemesneServerName} : \A t \in mux'[k].tools : Allowed(AllowOf(k), t)
    BY <1>7, <2>1
  <2>5. DOMAIN mux' \subseteq NamesOf(specs)' \cup {DemesneServerName} /\ DOMAIN catalogue' = DOMAIN mux'
    BY <1>7, <1>8, <2>1, <2>2
  <2> QED BY <1>1, <1>3, <1>4, <2>1, <2>2, <2>3, <2>4, <2>5 DEF Mounted
<1> QED BY <1>3, <1>4, <1>5, <1>9 DEF AggInv

\* The runner is wired, or the aggregator closes.
LEMMA WiringKeeps == ASSUME AggInv, SetMCPWiring \/ Shutdown PROVE AggInv'
<1>1. /\ agg \in {"listening", "serving"} /\ agg' \in {"serving", "closed"}
      /\ todo' = todo /\ mux' = mux /\ catalogue' = catalogue
      /\ config' = config /\ allow' = allow /\ specs' = specs
  BY DEF SetMCPWiring, Shutdown
<1>2. ConfigOK /\ Chosen /\ Mounted
  BY <1>1 DEF AggInv, Idle
<1>3. ConfigOK' /\ Chosen' /\ \A k : AllowOf(k)' = AllowOf(k)
  BY <1>1, <1>2, ChoiceStays
<1>4. Mounted'
  BY <1>1, <1>2, <1>3 DEF Mounted, NamesOf
<1>5. Wired'
  <2>1. CASE SetMCPWiring
    BY <1>1, <2>1 DEF SetMCPWiring, Servers, Wired
  <2>2. CASE Shutdown
    BY <1>1, <2>2 DEF Shutdown, AggInv, Wired
  <2> QED BY <2>1, <2>2
<1> QED BY <1>1, <1>3, <1>4, <1>5 DEF AggInv

AggNext == NewAggregator \/ registerUpstream \/ Start \/ SetMCPWiring \/ Shutdown

LEMMA AggStays == ASSUME [Next]_vars, ~AggNext PROVE UNCHANGED aggVars
<1>1. CASE UNCHANGED vars
  BY <1>1 DEF vars
<1>2. CASE \E r \in Runs : Register(r) \/ Deregister(r)
  BY <1>2 DEF Register, Deregister
<1>3. CASE AgentCalls
  <2>1. \A c \in Calls, r \in Runs, i \in DOMAIN MCPServers, t \in Tools, sent \in Runs \cup {Nobody} :
          CallTool(c, r, i, t, sent) => UNCHANGED aggVars
    BY DEF CallTool
  <2> QED BY <1>3, <2>1, Zenon DEF AgentCalls
<1>4. CASE \E c \in Calls : UpstreamAnswers(c) \/ Deliver(c) \/ DeliverNext(c) \/ copyFile(c) \/ Answer(c)
  <2>1. \A c \in Calls : UpstreamAnswers(c) => UNCHANGED aggVars
    BY DEF UpstreamAnswers
  <2>2. \A c \in Calls : Deliver(c) => UNCHANGED aggVars
    BY DEF Deliver
  <2>3. \A c \in Calls : DeliverNext(c) => UNCHANGED aggVars
    BY DEF DeliverNext
  <2>4. \A c \in Calls : copyFile(c) => UNCHANGED aggVars
    BY DEF copyFile
  <2>5. \A c \in Calls : Answer(c) => UNCHANGED aggVars
    BY DEF Answer
  <2> QED BY <1>4, <2>1, <2>2, <2>3, <2>4, <2>5
<1> QED BY <1>1, <1>2, <1>3, <1>4 DEF Next, AggNext

LEMMA AggStep == ASSUME AggInv, [Next]_vars PROVE AggInv'
<1>1. CASE AggNext
  BY <1>1, NewAggregatorKeeps, RegisterUpstreamKeeps, StartKeeps, WiringKeeps DEF AggNext
<1>2. CASE ~AggNext
  <2>1. UNCHANGED <<config, agg, todo, specs, allow, mux, catalogue, MCPServers>>
    BY <1>2, AggStays DEF aggVars
  <2> QED BY <2>1 DEF AggInv, ConfigOK, Chosen, Idle, Mounted, NamesOf, AllowOf, Wired
<1> QED BY <1>1, <1>2

LEMMA AlwaysAgg == Spec => []AggInv
BY InitAgg, AggStep, PTL DEF Spec

\* What is launched is what the host's readable configs hold for stdio and the user has not
\* disabled, each server with its own command, and demesne's own handler finds its path free
\* (discoverAllUpstreams, NewAggregator, Start).
THEOREM LaunchesAsConfiguredHolds == Spec => []LaunchesAsConfigured
<1>1. AggInv => LaunchesAsConfigured
  <2> SUFFICES ASSUME AggInv PROVE LaunchesAsConfigured
    OBVIOUS
  <2>1. NeverPanics
    BY DEF AggInv, NeverPanics
  <2>2. SpecsAreConfigured
    <3>1. CASE Chosen
      BY <3>1, KeptSpecs DEF AggInv, SpecsAreConfigured
    <3>2. CASE Idle
      BY <3>2 DEF Idle, SpecsAreConfigured
    <3> QED BY <3>1, <3>2 DEF AggInv
  <2> QED BY <2>1, <2>2, AllAreKept DEF LaunchesAsConfigured
<1> QED BY <1>1, AlwaysAgg, PTL

LEMMA WiredServers ==
  ASSUME AggInv
  PROVE  /\ MCPServers \in Seq(DOMAIN mux)
         /\ agg \in {"serving", "closed"} => ToSet(MCPServers) = DOMAIN mux
<1>1. DOMAIN catalogue = DOMAIN mux /\ DOMAIN mux \in SUBSET Names
  BY ServersAreNames DEF AggInv, Mounted
<1>2. Sorted(DOMAIN mux) \in Seq(DOMAIN mux) /\ ToSet(Sorted(DOMAIN mux)) = DOMAIN mux
  BY <1>1, SortedIs
<1>3. <<>> \in Seq(DOMAIN mux)
  OBVIOUS
<1>4. MCPServers = IF agg \in {"serving", "closed"} THEN Sorted(DOMAIN mux) ELSE <<>>
  BY <1>1 DEF AggInv, Wired
<1> QED BY <1>2, <1>3, <1>4

\* Behind every port that a run is told of is the server it is told of, with the tools it is
\* told of (buildMCPWiring, handlerFor).
THEOREM OfferedIsServedHolds == Spec => []OfferedIsServed
<1>1. AggInv => OfferedIsServed
  <2> SUFFICES ASSUME AggInv PROVE OfferedIsServed
    OBVIOUS
  <2>1. agg = "off" => MCPServers = <<>>
    BY DEF AggInv, Wired
  <2>2. ASSUME agg = "serving", NEW r \in Runs, NEW i \in DOMAIN MCPServers
        PROVE  /\ Binding(r, i).port = AgentServer(i).port /\ Binding(r, i).path = AgentServer(i).name
               /\ AgentServer(i).tools \subseteq mux[Binding(r, i).path].tools
    <3>1. MCPServers[i] \in DOMAIN mux
      BY WiredServers
    <3>2. catalogue[MCPServers[i]] = mux[MCPServers[i]].tools
      BY <3>1 DEF AggInv, Mounted
    <3> QED BY <3>2 DEF Binding, AgentServer
  <2> QED BY <2>1, <2>2, WiredServers DEF OfferedIsServed
<1> QED BY <1>1, AlwaysAgg, PTL

-------------------------------------------------------------------------------
(* What the user allows *)

\* A server in the allowlist is there for a reason, and so is each of its tools.
LEMMA AllowlistIs ==
  ASSUME ConfigOK, Chosen, NEW n \in DOMAIN allow
  PROVE  /\ \A t : Allowed(AllowOf(n), t) => MayExpose(n, t)
         /\ allow[n].all \/ allow[n].tools # {} => Enabled(n)
<1> DEFINE file == config.override
<1>1. file.state \in {"missing", "ok"} /\ AllowOf(n) = allow[n]
  BY DEF ConfigOK, Chosen, OverrideFails, Readable, AllowOf
<1>2. ASSUME n \in DOMAIN defaultAllowlist, allow[n] = Only(defaultAllowlist[n]), Says(n).word = "default"
      PROVE  (\A t : Allowed(AllowOf(n), t) => MayExpose(n, t)) /\ Enabled(n)
  BY <1>1, <1>2 DEF Only, Allowed, MayExpose, Enabled
<1>3. Word("default").word = "default"
  BY DEF Word
<1>4. CASE file.state = "missing"
  <2>1. n \in DOMAIN defaultAllowlist /\ allow[n] = Only(defaultAllowlist[n])
    BY <1>4 DEF Chosen, ResolveAllowlist
  <2>2. Says(n).word = "default"
    BY <1>3, <1>4 DEF Says
  <2> QED BY <1>2, <2>1, <2>2
<1>5. CASE file.state = "ok"
  <2> DEFINE base == [k \in DOMAIN defaultAllowlist |-> Only(defaultAllowlist[k])]
             keys == OverrideKeys(file)
  <2>1. allow = applyOverride(base, file)
    BY <1>5 DEF Chosen, ResolveAllowlist
  <2>2. n \in DOMAIN base \cup keys /\ allow[n] = IF n \in keys THEN parseOverrideEntry(n, file.servers[n]) ELSE base[n]
    BY <2>1 DEF applyOverride
  <2>3. CASE n \in keys
    <3> DEFINE value == file.servers[n]
    <3>1. n \in DOMAIN file.servers /\ Says(n) = value /\ ~Refused(n, value)
      BY <1>5, <2>3 DEF OverrideKeys, Says, Chosen, OverrideFails
    <3>2. allow[n] = parseOverrideEntry(n, value)
      BY <2>2, <2>3
    <3> HIDE DEF value
    <3>3. CASE value.word = "*"
      BY <3>1, <3>3 DEF MayExpose, Enabled
    <3>4. CASE value.word = "default"
      <4>1. n \in DOMAIN defaultAllowlist /\ allow[n] = Only(defaultAllowlist[n])
        BY <3>1, <3>2, <3>4 DEF Refused, parseOverrideEntry
      <4> QED BY <1>2, <3>1, <3>4, <4>1
    <3>5. CASE value.word \notin {"*", "default"}
      <4>1. allow[n] = Only(ToSet(value.list))
        BY <3>2, <3>5 DEF parseOverrideEntry
      <4>2. \A t : Allowed(AllowOf(n), t) => MayExpose(n, t)
        BY <1>1, <3>1, <4>1 DEF Only, Allowed, MayExpose
      <4>3. allow[n].all \/ allow[n].tools # {} => Enabled(n)
        BY <3>1, <4>1 DEF Only, Enabled
      <4> QED BY <4>2, <4>3
    <3> QED BY <3>3, <3>4, <3>5
  <2>4. CASE n \notin keys
    <3>1. n \in DOMAIN defaultAllowlist /\ allow[n] = Only(defaultAllowlist[n])
      BY <2>2, <2>4
    <3>2. n \notin MetadataKeys
      BY <3>1 DEF MetadataKeys, defaultAllowlist
    <3>3. Says(n).word = "default"
      BY <1>3, <2>4, <3>2 DEF Says, OverrideKeys
    <3> QED BY <1>2, <3>1, <3>3
  <2> QED BY <2>3, <2>4
<1> QED BY <1>1, <1>4, <1>5

-------------------------------------------------------------------------------
(* The steps of a call *)

Fields == {"at", "by", "server", "tool", "parent", "name", "reported", "sources", "mapping", "open", "answer",
           "past"}

Shape == DOMAIN call = Calls /\ \A c \in Calls : DOMAIN call[c] = Fields

\* A step of the call c sets no more than the fields F of it.
Sets(c, F) ==
  /\ DOMAIN call' = Calls /\ DOMAIN call'[c] = Fields
  /\ \A d \in Calls : d # c => call'[d] = call[d]
  /\ \A f \in Fields : f \notin F => call'[c][f] = call[c][f]

LEMMA NoCallIs ==
  /\ DOMAIN NoCall = Fields
  /\ NoCall.at = "none" /\ NoCall.by = Nobody /\ NoCall.server = "" /\ NoCall.parent = Nobody
  /\ NoCall.name = <<>> /\ NoCall.reported = <<>> /\ NoCall.sources = <<>> /\ NoCall.mapping = <<>>
  /\ NoCall.open = NoPath /\ NoCall.answer = <<>> /\ NoCall.past = {}
BY DEF NoCall, Fields

LEMMA PathInIs == \A dir, base : PathIn(dir, base).dir = dir /\ PathIn(dir, base).base = base
BY DEF PathIn

LEMMA CleanIs == \A p : Clean(p).dir = p.dir /\ Clean(p).sub = p.sub /\ Clean(p).base = p.base
BY DEF Clean

LEMMA GoSets ==
  ASSUME Shape, NEW c \in Calls, NEW at, Go(c, at)
  PROVE  Sets(c, {"at"}) /\ call'[c].at = at
<1>1. call' = [call EXCEPT ![c] = [call[c] EXCEPT !.at = at]]
  BY DEF Go
<1> QED BY <1>1 DEF Shape, Sets, Fields

LEMMA MadeIs ==
  ASSUME NEW r, NEW b, NEW t, NEW sent, NEW at, NEW name
  PROVE  LET m == Made(r, b, t, sent, at, name) IN
         /\ DOMAIN m = Fields
         /\ m.at = at /\ m.by = r /\ m.server = b.path /\ m.tool = t
         /\ m.parent = b.parentJobID /\ m.name = name
         /\ m.reported = <<>> /\ m.sources = <<>> /\ m.mapping = <<>> /\ m.open = NoPath /\ m.answer = <<>>
         /\ m.past = Over
BY NoCallIs DEF Made, parentHeader, Fields

\* An agent calls, and is refused, fails for want of a directory, or gets through to the upstream.
Refuses(c) == call[c] = NoCall /\ call'[c].at = "refused" /\ Sets(c, {"at"}) /\ UNCHANGED <<mermaidSeq, files>>

Gets(c) ==
  /\ call[c] = NoCall /\ Sets(c, Fields)
  /\ agg = "serving" /\ call'[c].by \in Runs
  /\ call'[c].server \in DOMAIN mux /\ call'[c].tool \in mux[call'[c].server].tools
  /\ call'[c].parent \in {Nobody, call'[c].by}
  /\ HasAdapter(call'[c].server, call'[c].tool) => call'[c].parent = call'[c].by
  /\ call'[c].reported = <<>> /\ call'[c].sources = <<>> /\ call'[c].mapping = <<>>
  /\ call'[c].open = NoPath /\ call'[c].answer = <<>> /\ call'[c].past = Over
  /\ call'[c].at \in {"upstream", "failed"}
  /\ \/ /\ mermaidSeq' = mermaidSeq /\ call'[c].name = <<>>
        /\ call'[c].at = "upstream" /\ HasAdapter(call'[c].server, call'[c].tool) => call'[c].server # "mermaid"
     \/ /\ mermaidSeq' = mermaidSeq + 1 /\ call'[c].at = "upstream" /\ call'[c].server = "mermaid"
        /\ HasAdapter(call'[c].server, call'[c].tool)
        /\ \E stamp \in Stamps : call'[c].name = <<"mermaid", stamp, mermaidSeq'>>
  /\ files' = files

LEMMA AgentCallIs ==
  ASSUME Shape, AggInv, AgentCalls
  PROVE  \E c \in Calls : /\ Refuses(c) \/ Gets(c)
                          /\ c > 1 => call[c - 1] # NoCall
<1>1. PICK c \in Calls, r \in Runs, i \in DOMAIN MCPServers, t \in Tools, sent \in Runs \cup {Nobody} :
        CallTool(c, r, i, t, sent)
  BY DEF AgentCalls
<1> DEFINE b == Binding(r, i)
<1>2. /\ agg = "serving" /\ call[c] = NoCall /\ (c > 1 => call[c - 1] # NoCall) /\ files' = files
  BY <1>1 DEF CallTool
<1>3. b.path = MCPServers[i] /\ b.path \in DOMAIN mux
  BY WiredServers DEF Binding
<1>4. b.parentJobID \in {Nobody, r} /\ (b.path \in FileGen => b.parentJobID = r)
  BY DEF Binding, IsFileGenServer
<1>5. HasAdapter(b.path, t) => b.path \in FileGen
  BY DEF HasAdapter, FileGen
<1> HIDE DEF b
<1>6. ASSUME call' = [call EXCEPT ![c].at = "refused"], UNCHANGED mermaidSeq PROVE Refuses(c)
  <2>1. Go(c, "refused")
    BY <1>6 DEF Go
  <2> QED BY <1>2, <1>6, <2>1, GoSets DEF Refuses
<1>7. ASSUME NEW at \in {"upstream", "failed"}, NEW name, t \in mux[b.path].tools,
             call' = [call EXCEPT ![c] = Made(r, b, t, sent, at, name)],
             \/ /\ mermaidSeq' = mermaidSeq /\ name = <<>>
                /\ at = "upstream" /\ HasAdapter(b.path, t) => b.path # "mermaid"
             \/ /\ mermaidSeq' = mermaidSeq + 1 /\ at = "upstream" /\ b.path = "mermaid" /\ HasAdapter(b.path, t)
                /\ \E stamp \in Stamps : name = <<"mermaid", stamp, mermaidSeq'>>
      PROVE  Gets(c)
  <2>1. call'[c] = Made(r, b, t, sent, at, name) /\ DOMAIN call' = Calls
    BY <1>7 DEF Shape
  <2>2. /\ DOMAIN call'[c] = Fields
        /\ call'[c].at = at /\ call'[c].by = r /\ call'[c].server = b.path /\ call'[c].tool = t
        /\ call'[c].parent = b.parentJobID /\ call'[c].name = name
        /\ call'[c].reported = <<>> /\ call'[c].sources = <<>> /\ call'[c].mapping = <<>>
        /\ call'[c].open = NoPath /\ call'[c].answer = <<>> /\ call'[c].past = Over
    BY <2>1, MadeIs
  <2>3. Sets(c, Fields)
    BY <1>7, <2>1, <2>2 DEF Shape, Sets
  <2> QED BY <1>2, <1>3, <1>4, <1>5, <1>7, <2>2, <2>3 DEF Gets
<1>8. \/ call' = [call EXCEPT ![c].at = "refused"] /\ UNCHANGED mermaidSeq
      \/ /\ t \in mux[b.path].tools /\ ~HasAdapter(b.path, t) /\ UNCHANGED mermaidSeq
         /\ call' = [call EXCEPT ![c] = Made(r, b, t, sent, "upstream", <<>>)]
      \/ /\ t \in mux[b.path].tools /\ UNCHANGED mermaidSeq
         /\ call' = [call EXCEPT ![c] = Made(r, b, t, sent, "failed", <<>>)]
      \/ /\ t \in mux[b.path].tools /\ HasAdapter(b.path, t) /\ b.path = "mermaid"
         /\ \E stamp \in Stamps :
              /\ mermaidSeq' = mermaidSeq + 1
              /\ call' = [call EXCEPT ![c] = Made(r, b, t, sent, "upstream", <<"mermaid", stamp, mermaidSeq'>>)]
      \/ /\ t \in mux[b.path].tools /\ b.path # "mermaid" /\ UNCHANGED mermaidSeq
         /\ call' = [call EXCEPT ![c] = Made(r, b, t, sent, "upstream", <<>>)]
  BY <1>1 DEF CallTool, nextMermaidSeq, b
<1>9. Refuses(c) \/ Gets(c)
  <2>1. CASE /\ t \in mux[b.path].tools /\ ~HasAdapter(b.path, t) /\ UNCHANGED mermaidSeq
             /\ call' = [call EXCEPT ![c] = Made(r, b, t, sent, "upstream", <<>>)]
    BY <1>7, <2>1
  <2>2. CASE /\ t \in mux[b.path].tools /\ UNCHANGED mermaidSeq
             /\ call' = [call EXCEPT ![c] = Made(r, b, t, sent, "failed", <<>>)]
    BY <1>7, <2>2
  <2>3. CASE /\ t \in mux[b.path].tools /\ HasAdapter(b.path, t) /\ b.path = "mermaid"
             /\ \E stamp \in Stamps :
                  /\ mermaidSeq' = mermaidSeq + 1
                  /\ call' = [call EXCEPT ![c] = Made(r, b, t, sent, "upstream", <<"mermaid", stamp, mermaidSeq'>>)]
    <3>1. PICK stamp \in Stamps :
            /\ mermaidSeq' = mermaidSeq + 1
            /\ call' = [call EXCEPT ![c] = Made(r, b, t, sent, "upstream", <<"mermaid", stamp, mermaidSeq'>>)]
      BY <2>3
    <3>2. PICK name : name = <<"mermaid", stamp, mermaidSeq'>>
      OBVIOUS
    <3>3. call' = [call EXCEPT ![c] = Made(r, b, t, sent, "upstream", name)]
      BY <3>1, <3>2
    <3>4. \E st \in Stamps : name = <<"mermaid", st, mermaidSeq'>>
      BY <3>2
    <3>5. "upstream" \in {"upstream", "failed"}
      OBVIOUS
    <3> QED BY <1>7, <2>3, <3>1, <3>3, <3>4, <3>5, Zenon
  <2>4. CASE /\ t \in mux[b.path].tools /\ b.path # "mermaid" /\ UNCHANGED mermaidSeq
             /\ call' = [call EXCEPT ![c] = Made(r, b, t, sent, "upstream", <<>>)]
    BY <1>7, <2>4
  <2> QED BY <1>6, <1>8, <2>1, <2>2, <2>3, <2>4, Zenon
<1> QED BY <1>2, <1>9

\* A call comes from one place to another, and nothing else happens.
Goes(c, from, to) ==
  /\ call[c].at = from /\ call'[c].at = to
  /\ Sets(c, {"at"}) /\ mermaidSeq' = mermaidSeq /\ files' = files

\* The upstream answers with a result, in which its adapter finds paths.
Hears(c, reported) ==
  /\ call[c].at = "upstream" /\ HasAdapter(call[c].server, call[c].tool)
  /\ call'[c].reported = reported /\ call'[c].answer = reported
  /\ call'[c].sources = ExtractHostPaths(call[c].server, reported)
  /\ call'[c].at = IF DOMAIN call'[c].sources = {} THEN "answered" ELSE "produced"
  /\ Sets(c, {"at", "reported", "sources", "answer"}) /\ mermaidSeq' = mermaidSeq
  /\ \/ /\ call[c].server = "mermaid"
        /\ \E how \in Savings :
             /\ reported = <<Saved(c, how)>>
             /\ IF how.sub = "" THEN files' = [files EXCEPT ![Generated(c)] = Put(@, call[c].name, Diagram(c))]
                ELSE files' = files
     \/ /\ call[c].server # "mermaid" /\ reported \in Reports[call[c].server]
        /\ files' = files

Copying(c) == call[c].at = "copying" /\ mermaidSeq' = mermaidSeq

\* A source that lies in the workspace already is taken as it is.
Takes(c) ==
  /\ Copying(c) /\ call[c].open = NoPath /\ Left(c) # {} /\ alreadyUnder(NextSource(c), Generated(c))
  /\ call'[c].mapping = Put(call[c].mapping, NextSource(c), NextSource(c).base)
  /\ Sets(c, {"mapping"}) /\ files' = files

\* The place that a source is copied to.
Target(c) == uniqueBase(NextSource(c).base, Used(c))

Opens(c) ==
  /\ Copying(c) /\ call[c].open = NoPath /\ Left(c) # {} /\ ~alreadyUnder(NextSource(c), Generated(c))
  /\ call'[c].open = PathIn(Generated(c), Target(c))
  /\ Sets(c, {"open"})
  /\ files' = [files EXCEPT ![Generated(c)] = Put(@, Target(c), Empty)]

Writes(c) ==
  /\ Copying(c) /\ call[c].open # NoPath
  /\ call'[c].mapping = Put(call[c].mapping, NextSource(c), call[c].open.base) /\ call'[c].open = NoPath
  /\ Sets(c, {"mapping", "open"})
  /\ \E content :
       /\ files[call[c].open.dir][call[c].open.base] \in {Empty, FileFrom(NextSource(c))} =>
            content = FileFrom(NextSource(c))
       /\ files' = [files EXCEPT ![call[c].open.dir][call[c].open.base] = content]

Answers(c) ==
  /\ Copying(c) /\ call[c].open = NoPath /\ Left(c) = {}
  /\ call'[c].at = "answered"
  /\ call'[c].answer \in RewriteResult(call[c].server, call[c].reported, call[c].mapping)
  /\ Sets(c, {"at", "answer"}) /\ files' = files

CallStep(c) ==
  \/ (Refuses(c) \/ Gets(c)) /\ (c > 1 => call[c - 1] # NoCall)
  \/ Goes(c, "upstream", "failed") \/ Goes(c, "produced", "failed") \/ Goes(c, "copying", "failed")
  \/ Goes(c, "upstream", "answered") /\ ~HasAdapter(call[c].server, call[c].tool)
  \/ \E reported : Hears(c, reported)
  \/ Goes(c, "produced", "copying")
  \/ Takes(c) \/ Opens(c) \/ Writes(c) \/ Answers(c)

LEMMA UpstreamIs == ASSUME Shape, NEW c \in Calls, UpstreamAnswers(c) PROVE CallStep(c)
<1> DEFINE n == call[c].server
<1>1. call[c].at = "upstream" /\ mermaidSeq' = mermaidSeq
  BY DEF UpstreamAnswers
<1>2. ASSUME NEW at, Go(c, at), files' = files PROVE Goes(c, "upstream", at)
  BY <1>1, <1>2, GoSets DEF Goes
<1>3. ASSUME NEW reported, Reported(c, reported), HasAdapter(n, call[c].tool),
             \/ n = "mermaid" /\ \E how \in Savings :
                  /\ reported = <<Saved(c, how)>>
                  /\ IF how.sub = "" THEN files' = [files EXCEPT ![Generated(c)] = Put(@, call[c].name, Diagram(c))]
                     ELSE files' = files
             \/ n # "mermaid" /\ reported \in Reports[n] /\ files' = files
      PROVE  Hears(c, reported)
  <2> DEFINE sources == ExtractHostPaths(n, reported)
             at == IF DOMAIN sources = {} THEN "answered" ELSE "produced"
  <2>1. call' = [call EXCEPT ![c].at = at, ![c].reported = reported, ![c].sources = sources,
                             ![c].answer = reported]
    BY <1>3 DEF Reported
  <2> HIDE DEF sources, at
  <2>2. /\ Sets(c, {"at", "reported", "sources", "answer"})
        /\ call'[c].at = at /\ call'[c].reported = reported /\ call'[c].sources = sources
        /\ call'[c].answer = reported
    BY <2>1 DEF Shape, Sets, Fields
  <2> QED BY <1>1, <1>3, <2>2 DEF Hears, sources, at
<1>4. \/ Go(c, "failed") /\ files' = files
      \/ ~HasAdapter(n, call[c].tool) /\ Go(c, "answered") /\ files' = files
      \/ \E reported : /\ HasAdapter(n, call[c].tool) /\ Reported(c, reported)
                       /\ \/ n = "mermaid" /\ \E how \in Savings :
                               /\ reported = <<Saved(c, how)>>
                               /\ IF how.sub = ""
                                  THEN files' = [files EXCEPT ![Generated(c)] = Put(@, call[c].name, Diagram(c))]
                                  ELSE files' = files
                          \/ n # "mermaid" /\ reported \in Reports[n] /\ files' = files
  <2>1. CASE HasAdapter(n, call[c].tool) /\ n = "mermaid"
    <3>1. ASSUME NEW how \in Savings, Reported(c, <<Saved(c, how)>>),
                 files' = IF how.sub = "" THEN [files EXCEPT ![Generated(c)] = Put(@, call[c].name, Diagram(c))]
                          ELSE files
          PROVE  \E reported : /\ HasAdapter(n, call[c].tool) /\ Reported(c, reported)
                               /\ n = "mermaid" /\ \E h \in Savings :
                                    /\ reported = <<Saved(c, h)>>
                                    /\ IF h.sub = ""
                                       THEN files' = [files EXCEPT ![Generated(c)] = Put(@, call[c].name, Diagram(c))]
                                       ELSE files' = files
      <4>1. IF how.sub = "" THEN files' = [files EXCEPT ![Generated(c)] = Put(@, call[c].name, Diagram(c))]
            ELSE files' = files
        BY <3>1
      <4>2. PICK reported : reported = <<Saved(c, how)>>
        OBVIOUS
      <4>3. Reported(c, reported)
        BY <3>1, <4>2
      <4> QED BY <2>1, <4>1, <4>2, <4>3, Zenon
    <3> QED BY <2>1, <3>1, Zenon DEF UpstreamAnswers
  <2>2. CASE ~(HasAdapter(n, call[c].tool) /\ n = "mermaid")
    BY <2>2 DEF UpstreamAnswers
  <2> QED BY <2>1, <2>2
<1> QED BY <1>2, <1>3, <1>4 DEF CallStep

LEMMA DeliverIs == ASSUME Shape, NEW c \in Calls, Deliver(c) PROVE CallStep(c)
<1>1. call[c].at = "produced" /\ mermaidSeq' = mermaidSeq /\ files' = files
  BY DEF Deliver
<1>2. Go(c, "copying") \/ Go(c, "failed")
  BY DEF Deliver
<1> QED BY <1>1, <1>2, GoSets DEF CallStep, Goes

LEMMA DeliverNextIs == ASSUME Shape, NEW c \in Calls, DeliverNext(c) PROVE CallStep(c)
<1> DEFINE src == NextSource(c)
           dst == uniqueBase(src.base, Used(c))
<1>1. call[c].at = "copying" /\ call[c].open = NoPath /\ Left(c) # {} /\ mermaidSeq' = mermaidSeq
  BY DEF DeliverNext
<1>2. CASE alreadyUnder(src, Generated(c))
  <2>1. call' = [call EXCEPT ![c].mapping = Put(@, src, src.base)] /\ files' = files
    BY <1>2 DEF DeliverNext
  <2> HIDE DEF src
  <2>2. Sets(c, {"mapping"}) /\ call'[c].mapping = Put(call[c].mapping, src, src.base)
    BY <2>1 DEF Shape, Sets, Fields
  <2> QED BY <1>1, <1>2, <2>1, <2>2 DEF CallStep, Takes, Copying, src
<1>3. CASE ~alreadyUnder(src, Generated(c))
  <2>1. \/ Go(c, "failed") /\ files' = files
        \/ /\ call' = [call EXCEPT ![c].open = PathIn(Generated(c), dst)]
           /\ files' = [files EXCEPT ![Generated(c)] = Put(@, dst, Empty)]
    BY <1>3 DEF DeliverNext
  <2> HIDE DEF src
  <2>2. CASE Go(c, "failed") /\ files' = files
    BY <1>1, <2>2, GoSets DEF CallStep, Goes
  <2>3. CASE /\ call' = [call EXCEPT ![c].open = PathIn(Generated(c), dst)]
             /\ files' = [files EXCEPT ![Generated(c)] = Put(@, dst, Empty)]
    <3> DEFINE place == PathIn(Generated(c), dst)
    <3> HIDE DEF place
    <3>1. call' = [call EXCEPT ![c].open = place]
      BY <2>3 DEF place
    <3>2. Sets(c, {"open"}) /\ call'[c].open = place
      BY <3>1 DEF Shape, Sets, Fields
    <3> QED BY <1>1, <1>3, <2>3, <3>2 DEF CallStep, Opens, Copying, Target, place, src
  <2> QED BY <2>1, <2>2, <2>3
<1> QED BY <1>2, <1>3

LEMMA CopyFileIs == ASSUME Shape, NEW c \in Calls, copyFile(c) PROVE CallStep(c)
<1> DEFINE src == NextSource(c)
           dst == call[c].open
           mine == FileFrom(src)
<1>1. call[c].at = "copying" /\ call[c].open # NoPath /\ mermaidSeq' = mermaidSeq
  BY DEF copyFile
<1>2. \/ Go(c, "failed") /\ files' = files
      \/ \E content \in IF files[dst.dir][dst.base] \in {Empty, mine} THEN {mine} ELSE {mine, Torn} :
           /\ files' = [files EXCEPT ![dst.dir][dst.base] = content]
           /\ call' = [call EXCEPT ![c].mapping = Put(@, src, dst.base), ![c].open = NoPath]
  BY DEF copyFile
<1>3. CASE Go(c, "failed") /\ files' = files
  BY <1>1, <1>3, GoSets DEF CallStep, Goes
<1>4. ASSUME NEW content, files[dst.dir][dst.base] \in {Empty, mine} => content = mine,
             files' = [files EXCEPT ![dst.dir][dst.base] = content],
             call' = [call EXCEPT ![c].mapping = Put(@, src, dst.base), ![c].open = NoPath]
      PROVE  CallStep(c)
  <2>1. /\ Sets(c, {"mapping", "open"})
        /\ call'[c].mapping = Put(call[c].mapping, src, dst.base) /\ call'[c].open = NoPath
    <3> HIDE DEF src
    <3> QED BY <1>4 DEF Shape, Sets, Fields
  <2>2. Writes(c)
    BY <1>1, <1>4, <2>1 DEF Writes, Copying
  <2> QED BY <2>2 DEF CallStep
<1> QED BY <1>2, <1>3, <1>4

LEMMA AnswerIs == ASSUME Shape, NEW c \in Calls, Answer(c) PROVE CallStep(c)
<1>1. /\ call[c].at = "copying" /\ call[c].open = NoPath /\ Left(c) = {} /\ mermaidSeq' = mermaidSeq
      /\ files' = files
  BY DEF Answer
<1>2. PICK told \in RewriteResult(call[c].server, call[c].reported, call[c].mapping) :
        call' = [call EXCEPT ![c].at = "answered", ![c].answer = told]
  BY DEF Answer
<1>3. Sets(c, {"at", "answer"}) /\ call'[c].at = "answered" /\ call'[c].answer = told
  BY <1>2 DEF Shape, Sets, Fields
<1> QED BY <1>1, <1>2, <1>3 DEF CallStep, Answers, Copying

LEMMA StepCases ==
  ASSUME Shape, AggInv, [Next]_vars
  PROVE  \/ call' = call /\ files' = files /\ mermaidSeq' = mermaidSeq
         \/ UNCHANGED <<aggVars, run, workspace>> /\ \E c \in Calls : CallStep(c)
<1>1. CASE UNCHANGED vars
  BY <1>1 DEF vars, callVars
<1>2. CASE AggNext
  BY <1>2 DEF AggNext, NewAggregator, registerUpstream, Start, SetMCPWiring, Shutdown, callVars
<1>3. CASE \E r \in Runs : Register(r) \/ Deregister(r)
  BY <1>3 DEF Register, Deregister, callVars
<1>4. CASE AgentCalls
  <2>1. \A c \in Calls, r \in Runs, i \in DOMAIN MCPServers, t \in Tools, sent \in Runs \cup {Nobody} :
          CallTool(c, r, i, t, sent) => UNCHANGED <<aggVars, run, workspace>>
    BY DEF CallTool, runVars
  <2> QED BY <1>4, <2>1, AgentCallIs DEF AgentCalls, CallStep
<1>5. CASE \E c \in Calls : UpstreamAnswers(c) \/ Deliver(c) \/ DeliverNext(c) \/ copyFile(c) \/ Answer(c)
  <2>1. \E c \in Calls : CallStep(c)
    BY <1>5, UpstreamIs, DeliverIs, DeliverNextIs, CopyFileIs, AnswerIs
  <2>2. UNCHANGED <<aggVars, run, workspace>>
    <3>1. \A c \in Calls : UpstreamAnswers(c) => UNCHANGED <<aggVars, runVars>>
      BY DEF UpstreamAnswers
    <3>2. \A c \in Calls : Deliver(c) => UNCHANGED <<aggVars, runVars>>
      BY DEF Deliver
    <3>3. \A c \in Calls : DeliverNext(c) => UNCHANGED <<aggVars, runVars>>
      BY DEF DeliverNext
    <3>4. \A c \in Calls : copyFile(c) => UNCHANGED <<aggVars, runVars>>
      BY DEF copyFile
    <3>5. \A c \in Calls : Answer(c) => UNCHANGED <<aggVars, runVars>>
      BY DEF Answer
    <3>6. UNCHANGED <<aggVars, runVars>>
      BY <1>5, <3>1, <3>2, <3>3, <3>4, <3>5
    <3> QED BY <3>6 DEF runVars
  <2> QED BY <2>1, <2>2
<1> QED BY <1>1, <1>2, <1>3, <1>4, <1>5 DEF Next, AggNext

-------------------------------------------------------------------------------
(* Who calls what *)

Started(c) == call[c].at \notin {"none", "refused"}

\* A call that got through to a server has its run as its caller, and as its parent if it has one.
Called(c) ==
  /\ call[c].at \in {"none", "refused", "upstream", "failed", "produced", "copying", "answered"}
  /\ call[c].at = "none" => call[c] = NoCall
  /\ ~Started(c) => /\ call[c].by = Nobody /\ call[c].parent = Nobody
                    /\ call[c].server = "" /\ call[c].name = <<>>
  /\ Started(c) =>
       /\ agg \in {"serving", "closed"} /\ call[c].by \in Runs
       /\ call[c].server \in DOMAIN mux /\ call[c].tool \in mux[call[c].server].tools
       /\ call[c].parent \in {Nobody, call[c].by}
       /\ HasAdapter(call[c].server, call[c].tool) => call[c].parent = call[c].by
  /\ call[c].at \in {"none", "refused", "upstream"} \/ ~HasAdapter(call[c].server, call[c].tool) =>
       /\ call[c].sources = <<>> /\ call[c].mapping = <<>> /\ call[c].open = NoPath
       /\ call[c].reported = <<>>
  /\ ~HasAdapter(call[c].server, call[c].tool) => call[c].at \notin {"produced", "copying"}

CallsOK == Shape /\ \A c \in Calls : Called(c)

LEMMA NobodyHasAdapter == \A t : ~HasAdapter("", t)
BY DEF HasAdapter

\* While there are calls, what is mounted stays.
LEMMA ServingStays ==
  ASSUME agg \in {"serving", "closed"}, [Next]_vars
  PROVE  agg' \in {"serving", "closed"} /\ mux' = mux
<1>1. CASE AggNext
  BY <1>1 DEF AggNext, NewAggregator, registerUpstream, Start, SetMCPWiring, Shutdown
<1>2. CASE ~AggNext
  BY <1>2, AggStays DEF aggVars
<1> QED BY <1>1, <1>2

LEMMA InitCalls == Init => CallsOK
<1> SUFFICES ASSUME Init PROVE CallsOK
  OBVIOUS
<1>1. DOMAIN call = Calls /\ \A c \in Calls : call[c] = NoCall
  BY DEF Init
<1>2. Shape
  BY <1>1, NoCallIs DEF Shape
<1>3. \A c \in Calls : Called(c)
  BY <1>1, NoCallIs DEF Called, Started
<1> QED BY <1>2, <1>3 DEF CallsOK

\* What Called says of a call is kept when the call is left alone.
LEMMA CalledStays ==
  ASSUME NEW c \in Calls, Called(c), call'[c] = call[c],
         agg \in {"serving", "closed"} => agg' \in {"serving", "closed"} /\ mux' = mux
  PROVE  Called(c)'
BY DEF Called, Started

LEMMA SetsShape == ASSUME Shape, NEW c \in Calls, NEW F, Sets(c, F) PROVE Shape'
BY DEF Shape, Sets

\* A step of c that sets none of the fields of the request.
LEMMA CallerStays ==
  ASSUME NEW c \in Calls, NEW F, Sets(c, F),
         F \subseteq {"at", "reported", "sources", "mapping", "open", "answer"}
  PROVE  /\ call'[c].by = call[c].by /\ call'[c].server = call[c].server /\ call'[c].tool = call[c].tool
         /\ call'[c].parent = call[c].parent /\ call'[c].name = call[c].name
         /\ call'[c].past = call[c].past
<1>1. \A f \in {"by", "server", "tool", "parent", "name", "past"} : f \in Fields /\ f \notin F
  BY DEF Fields
<1> QED BY <1>1 DEF Sets

LEMMA CalledStep ==
  ASSUME CallsOK, NEW c \in Calls, CallStep(c), agg' = agg, mux' = mux
  PROVE  Called(c)'
<1>1. Called(c)
  BY DEF CallsOK
<1>2. CASE Refuses(c)
  <2>1. /\ call'[c].at = "refused" /\ call'[c].sources = <<>> /\ call'[c].mapping = <<>>
        /\ call'[c].open = NoPath /\ call'[c].reported = <<>>
        /\ call'[c].by = Nobody /\ call'[c].parent = Nobody /\ call'[c].server = "" /\ call'[c].name = <<>>
    BY <1>2, NoCallIs DEF Refuses, Sets, Fields
  <2> QED BY <2>1, NobodyHasAdapter DEF Called, Started
<1>3. CASE Gets(c)
  BY <1>3 DEF Gets, Called, Started
<1>4. ASSUME NEW from, NEW to, Goes(c, from, to),
             from \in {"upstream", "produced", "copying"},
             \/ to = "failed"
             \/ to = "answered" /\ ~HasAdapter(call[c].server, call[c].tool)
             \/ from = "produced" /\ to = "copying"
      PROVE  Called(c)'
  <2>1. /\ call'[c].by = call[c].by /\ call'[c].server = call[c].server /\ call'[c].tool = call[c].tool
        /\ call'[c].parent = call[c].parent
    BY <1>4, CallerStays DEF Goes
  <2>2. /\ call'[c].sources = call[c].sources /\ call'[c].mapping = call[c].mapping
        /\ call'[c].open = call[c].open /\ call'[c].reported = call[c].reported
        /\ call'[c].at = to /\ call[c].at = from
    BY <1>4 DEF Goes, Sets, Fields
  <2> QED BY <1>1, <1>4, <2>1, <2>2 DEF Called, Started
<1>5. ASSUME NEW reported, Hears(c, reported) PROVE Called(c)'
  <2>1. /\ call'[c].by = call[c].by /\ call'[c].server = call[c].server /\ call'[c].tool = call[c].tool
        /\ call'[c].parent = call[c].parent
    BY <1>5, CallerStays DEF Hears
  <2>2. call'[c].at \in {"answered", "produced"} /\ call[c].at = "upstream" /\ HasAdapter(call[c].server, call[c].tool)
    BY <1>5 DEF Hears
  <2> QED BY <1>1, <2>1, <2>2 DEF Called, Started
<1>6. CASE Takes(c) \/ Opens(c) \/ Writes(c) \/ Answers(c)
  <2>1. /\ call'[c].by = call[c].by /\ call'[c].server = call[c].server /\ call'[c].tool = call[c].tool
        /\ call'[c].parent = call[c].parent
    <3>1. \A F \in {{"mapping"}, {"open"}, {"mapping", "open"}, {"at", "answer"}} :
            F \subseteq {"at", "reported", "sources", "mapping", "open", "answer"}
      OBVIOUS
    <3> QED BY <1>6, <3>1, CallerStays DEF Takes, Opens, Writes, Answers
  <2>2. call[c].at = "copying"
    BY <1>6 DEF Takes, Opens, Writes, Answers, Copying
  <2>3. call'[c].at \in {"copying", "answered"}
    <3>1. \A F \in {{"mapping"}, {"open"}, {"mapping", "open"}} : Sets(c, F) => call'[c].at = call[c].at
      BY DEF Sets, Fields
    <3> QED BY <1>6, <2>2, <3>1 DEF Takes, Opens, Writes, Answers
  <2> QED BY <1>1, <2>1, <2>2, <2>3 DEF Called, Started
<1> QED BY <1>1, <1>2, <1>3, <1>4, <1>5, <1>6 DEF CallStep, Called

LEMMA CallsStep == ASSUME AggInv, CallsOK, [Next]_vars PROVE CallsOK'
<1>1. agg \in {"serving", "closed"} => agg' \in {"serving", "closed"} /\ mux' = mux
  BY ServingStays
<1>2. CASE call' = call
  BY <1>1, <1>2, CalledStays DEF CallsOK, Shape
<1>3. ASSUME NEW c \in Calls, CallStep(c), UNCHANGED aggVars PROVE CallsOK'
  <2>1. PICK F : Sets(c, F)
    BY <1>3 DEF CallStep, Refuses, Gets, Goes, Hears, Takes, Opens, Writes, Answers
  <2>2. Shape' /\ \A d \in Calls : d # c => call'[d] = call[d]
    BY <2>1, SetsShape DEF Sets, CallsOK
  <2>3. \A d \in Calls : d # c => Called(d)'
    BY <1>1, <2>2, CalledStays DEF CallsOK
  <2>4. Called(c)'
    BY <1>3, CalledStep DEF aggVars
  <2> QED BY <2>2, <2>3, <2>4 DEF CallsOK
<1> QED BY <1>2, <1>3, StepCases DEF CallsOK

LEMMA AlwaysCalls == Spec => [](AggInv /\ CallsOK)
<1>1. AggInv /\ CallsOK /\ [Next]_vars => (AggInv /\ CallsOK)'
  BY AggStep, CallsStep
<1> QED BY InitAgg, InitCalls, <1>1, PTL DEF Spec

\* Of an upstream nothing shows that the user did not allow: no tool, no resource, no prompt
\* (NewAggregator, registerUpstream).
THEOREM OnlyAllowedHolds == Spec => []OnlyAllowed
<1>1. AggInv /\ CallsOK => OnlyAllowed
  <2> SUFFICES ASSUME AggInv, CallsOK PROVE OnlyAllowed
    OBVIOUS
  <2>1. CASE Idle
    <3>1. DOMAIN mux = {}
      BY <2>1 DEF Idle
    <3>2. \A c \in Calls : ~Started(c)
      BY <3>1 DEF CallsOK, Called
    <3> QED BY <3>1, <3>2 DEF OnlyAllowed, AllowedTools, DisabledIsSilent, Started
  <2>2. CASE Chosen
    <3>1. ASSUME NEW n \in DOMAIN mux \ {DemesneServerName}
          PROVE  /\ \A t \in mux[n].tools : MayExpose(n, t)
                 /\ Enabled(n)
      <4>1. n \in NamesOf(specs) /\ \A t \in mux[n].tools : Allowed(AllowOf(n), t)
        BY DEF AggInv, Mounted
      <4>2. n \in DOMAIN allow /\ (allow[n].all \/ allow[n].tools # {})
        BY <2>2, <4>1, KeptSpecs DEF AggInv, NamesOf
      <4> QED BY <2>2, <4>1, <4>2, AllowlistIs DEF AggInv
    <3>2. AllowedTools
      BY <3>1 DEF AllowedTools, CallsOK, Called, Started
    <3>3. DisabledIsSilent
      BY <3>1 DEF DisabledIsSilent
    <3> QED BY <3>2, <3>3 DEF OnlyAllowed
  <2> QED BY <2>1, <2>2 DEF AggInv
<1> QED BY <1>1, AlwaysCalls, PTL

-------------------------------------------------------------------------------
(* What a call has read, and where it puts it *)

\* What an adapter finds: each path that it reads once, at its first mention.
LEMMA ExtractIs ==
  ASSUME NEW n, NEW reported, IsSequence(reported)
  PROVE  LET sources == ExtractHostPaths(n, reported) IN
         /\ DOMAIN sources \subseteq DOMAIN reported /\ DOMAIN reported = 1..Len(reported)
         /\ IsInjective(sources)
         /\ \A i \in DOMAIN sources : sources[i] = reported[i].path /\ Reads(n, reported[i])
         /\ \A i \in DOMAIN reported : Reads(n, reported[i]) => reported[i].path \in ToSet(sources)
<1> DEFINE sources == ExtractHostPaths(n, reported)
           First(i) == \A j \in 1..(i - 1) : Reads(n, reported[j]) => reported[j].path # reported[i].path
<1>1. DOMAIN reported = 1..Len(reported) /\ Len(reported) \in Nat
  BY DEF IsSequence
<1>2. /\ DOMAIN sources = {i \in DOMAIN reported : Reads(n, reported[i]) /\ First(i)}
      /\ \A i \in DOMAIN sources : sources[i] = reported[i].path
  BY DEF ExtractHostPaths
<1> HIDE DEF sources
<1>3. ASSUME NEW i \in DOMAIN sources, NEW j \in DOMAIN sources, i < j PROVE sources[i] # sources[j]
  <2>1. i \in 1..(j - 1) /\ Reads(n, reported[i]) /\ First(j)
    BY <1>1, <1>2, <1>3
  <2> QED BY <1>2, <2>1
<1>4. \A i, j \in DOMAIN sources : sources[i] = sources[j] => i = j
  <2>1. \A i, j \in DOMAIN sources : i \in Nat /\ j \in Nat /\ (i = j \/ i < j \/ j < i)
    BY <1>1, <1>2
  <2> QED BY <1>3, <2>1
<1>5. ASSUME NEW i \in DOMAIN reported, Reads(n, reported[i]) PROVE reported[i].path \in ToSet(sources)
  <2> DEFINE N == {j \in DOMAIN reported : Reads(n, reported[j]) /\ reported[j].path = reported[i].path}
  <2>1. N \in SUBSET Nat /\ N # {}
    BY <1>1, <1>5
  <2>2. PICK j \in N : \A k \in N : j <= k
    BY <2>1, LeastElement
  <2>3. First(j)
    BY <1>1, <2>2
  <2> QED BY <1>2, <2>2, <2>3 DEF ToSet
<1>6. DOMAIN sources \subseteq DOMAIN reported
  BY <1>2
<1>7. \A i \in DOMAIN sources : sources[i] = reported[i].path /\ Reads(n, reported[i])
  BY <1>2
<1>8. IsInjective(sources)
  BY <1>4 DEF IsInjective
<1>9. \A i \in DOMAIN reported : Reads(n, reported[i]) => reported[i].path \in ToSet(sources)
  BY <1>5
<1> QED BY <1>1, <1>6, <1>7, <1>8, <1>9 DEF sources

Sourced(c) ==
  /\ IsSequence(call[c].reported)
  /\ call[c].sources \in {<<>>, ExtractHostPaths(call[c].server, call[c].reported)}
  /\ DOMAIN call[c].mapping \subseteq {Clean(p) : p \in ToSet(call[c].sources)}
  /\ call[c].open # NoPath => Left(c) # {} /\ call[c].open.dir = Generated(c)

\* The sources of a call are different, and there are finitely many.
LEMMA SourcesAre ==
  ASSUME NEW c, Sourced(c)
  PROVE  /\ IsInjective(call[c].sources)
         /\ DOMAIN call[c].sources \in SUBSET Nat /\ IsFiniteSet(DOMAIN call[c].sources)
<1>1. CASE call[c].sources = <<>>
  BY <1>1, FS_EmptySet DEF IsInjective
<1>2. CASE call[c].sources = ExtractHostPaths(call[c].server, call[c].reported)
  <2>1. Len(call[c].reported) \in Nat
    BY DEF Sourced, IsSequence
  <2>2. IsInjective(call[c].sources) /\ DOMAIN call[c].sources \in SUBSET (1..Len(call[c].reported))
    BY <1>2, ExtractIs DEF Sourced
  <2>3. IsFiniteSet(1..Len(call[c].reported))
    BY <2>1, FS_Interval
  <2>4. IsFiniteSet(DOMAIN call[c].sources)
    BY <2>2, <2>3, FS_Subset
  <2>5. 1..Len(call[c].reported) \in SUBSET Nat
    BY <2>1
  <2> QED BY <2>2, <2>4, <2>5
<1> QED BY <1>1, <1>2 DEF Sourced

LEMMA NextIs ==
  ASSUME NEW c, Sourced(c), Left(c) # {}
  PROVE  /\ \E p \in ToSet(call[c].sources) : NextSource(c) = Clean(p)
         /\ NextSource(c) \notin DOMAIN call[c].mapping
<1>1. Left(c) \in SUBSET Nat
  BY SourcesAre DEF Left
<1>2. PICK i \in Left(c) : \A j \in Left(c) : i <= j
  BY <1>1, LeastElement
<1>3. Min(Left(c)) \in Left(c)
  BY <1>2 DEF Min
<1>4. PICK k : k = Min(Left(c))
  OBVIOUS
<1>5. k \in DOMAIN call[c].sources /\ Clean(call[c].sources[k]) \notin DOMAIN call[c].mapping
  BY <1>3, <1>4 DEF Left
<1>6. NextSource(c) = Clean(call[c].sources[k]) /\ call[c].sources[k] \in ToSet(call[c].sources)
  BY <1>4, <1>5 DEF NextSource, ToSet
<1> QED BY <1>5, <1>6

\* Left of a call that has read the same and mapped the same.
LEMMA LeftStays ==
  ASSUME NEW c, call'[c].sources = call[c].sources, call'[c].mapping = call[c].mapping
  PROVE  Left(c)' = Left(c) /\ Used(c)' = Used(c)
BY DEF Left, Used

LEMMA SourcedStays ==
  ASSUME NEW c \in Calls, Sourced(c), workspace' = workspace,
         call'[c].reported = call[c].reported, call'[c].sources = call[c].sources,
         call'[c].mapping = call[c].mapping, call'[c].open = call[c].open,
         call'[c].server = call[c].server, call'[c].parent = call[c].parent
  PROVE  Sourced(c)'
<1>1. Generated(c)' = Generated(c)
  BY DEF Generated
<1> QED BY <1>1, LeftStays DEF Sourced

LEMMA EmptySourced ==
  ASSUME NEW c \in Calls, call[c].reported = <<>>, call[c].sources = <<>>, call[c].mapping = <<>>,
         call[c].open = NoPath
  PROVE  Sourced(c)
<1>1. IsSequence(<<>>)
  BY DEF IsSequence
<1> QED BY <1>1 DEF Sourced, ToSet

SourcesOK == workspace \in Workspaces /\ \A c \in Calls : Sourced(c)

LEMMA SourcedStep ==
  ASSUME AggInv, CallsOK, SourcesOK, NEW c \in Calls, CallStep(c), workspace' = workspace
  PROVE  Sourced(c)'
<1>1. Sourced(c) /\ Called(c)
  BY DEF CallsOK, SourcesOK
<1>2. CASE Refuses(c)
  <2>1. \A f \in {"server", "parent", "reported", "sources", "mapping", "open"} : call'[c][f] = call[c][f]
    BY <1>2 DEF Refuses, Sets, Fields
  <2> QED BY <1>1, <2>1, SourcedStays
<1>3. CASE Gets(c)
  <2>1. /\ call'[c].reported = <<>> /\ call'[c].sources = <<>> /\ call'[c].mapping = <<>>
        /\ call'[c].open = NoPath
    BY <1>3 DEF Gets
  <2>2. IsSequence(<<>>) /\ ToSet(<<>>) = {}
    BY DEF IsSequence, ToSet
  <2> QED BY <2>1, <2>2 DEF Sourced
<1>4. ASSUME NEW from, NEW to, Goes(c, from, to) PROVE Sourced(c)'
  <2>1. \A f \in {"server", "parent", "reported", "sources", "mapping", "open"} : call'[c][f] = call[c][f]
    BY <1>4 DEF Goes, Sets, Fields
  <2> QED BY <1>1, <2>1, SourcedStays
<1>5. ASSUME NEW reported, Hears(c, reported) PROVE Sourced(c)'
  <2>1. call[c].mapping = <<>> /\ call[c].open = NoPath
    BY <1>1, <1>5 DEF Called, Hears
  <2>2. \A f \in {"server", "mapping", "open"} : call'[c][f] = call[c][f]
    BY <1>5 DEF Hears, Sets, Fields
  <2>3. IsSequence(reported)
    <3>1. CASE call[c].server = "mermaid"
      <4>1. PICK how \in Savings : reported = <<Saved(c, how)>>
        BY <1>5, <3>1 DEF Hears
      <4>2. PICK m : m = Saved(c, how) /\ reported = <<m>>
        BY <4>1
      <4> QED BY <4>2 DEF IsSequence
    <3>2. CASE call[c].server # "mermaid"
      <4>1. call[c].server \in FileGen
        BY <1>5 DEF Hears, HasAdapter, FileGen
      <4> QED BY <1>5, <3>2, <4>1, ReportsAssumption DEF Hears
    <3> QED BY <3>1, <3>2
  <2>4. DOMAIN <<>> = {}
    OBVIOUS
  <2> QED BY <1>5, <2>1, <2>2, <2>3, <2>4 DEF Sourced, Hears
<1>6. CASE Takes(c)
  <2>1. \A f \in {"server", "parent", "reported", "sources", "open"} : call'[c][f] = call[c][f]
    BY <1>6 DEF Takes, Sets, Fields
  <2>2. DOMAIN call'[c].mapping = DOMAIN call[c].mapping \cup {NextSource(c)}
    BY <1>6 DEF Takes, Put
  <2>3. (\E p \in ToSet(call[c].sources) : NextSource(c) = Clean(p)) /\ call[c].open = NoPath
    BY <1>1, <1>6, NextIs DEF Takes
  <2>4. DOMAIN call'[c].mapping \subseteq {Clean(p) : p \in ToSet(call[c].sources)}
    BY <1>1, <2>2, <2>3 DEF Sourced
  <2> QED BY <1>1, <2>1, <2>3, <2>4 DEF Sourced
<1>7. CASE Opens(c)
  <2>1. \A f \in {"server", "parent", "reported", "sources", "mapping"} : call'[c][f] = call[c][f]
    BY <1>7 DEF Opens, Sets, Fields
  <2>2. call'[c].open.dir = Generated(c) /\ Left(c) # {}
    BY <1>7, PathInIs DEF Opens
  <2>3. Left(c)' = Left(c)
    BY <2>1, LeftStays
  <2>4. Generated(c)' = Generated(c)
    BY <2>1 DEF Generated
  <2> QED BY <1>1, <2>1, <2>2, <2>3, <2>4 DEF Sourced
<1>8. CASE Writes(c)
  <2>1. \A f \in {"server", "parent", "reported", "sources"} : call'[c][f] = call[c][f]
    BY <1>8 DEF Writes, Sets, Fields
  <2>2. DOMAIN call'[c].mapping = DOMAIN call[c].mapping \cup {NextSource(c)} /\ call'[c].open = NoPath
    BY <1>8 DEF Writes, Put
  <2>3. \E p \in ToSet(call[c].sources) : NextSource(c) = Clean(p)
    BY <1>1, <1>8, NextIs DEF Writes, Sourced
  <2>4. DOMAIN call'[c].mapping \subseteq {Clean(p) : p \in ToSet(call[c].sources)}
    BY <1>1, <2>2, <2>3 DEF Sourced
  <2> QED BY <1>1, <2>1, <2>2, <2>4 DEF Sourced
<1>9. CASE Answers(c)
  <2>1. \A f \in {"server", "parent", "reported", "sources", "mapping", "open"} : call'[c][f] = call[c][f]
    BY <1>9 DEF Answers, Sets, Fields
  <2> QED BY <1>1, <2>1, SourcedStays
<1> QED BY <1>2, <1>3, <1>4, <1>5, <1>6, <1>7, <1>8, <1>9 DEF CallStep

\* A run keeps its workspace.
LEMMA WorkspaceStays == ASSUME [Next]_vars PROVE workspace' = workspace
<1>1. CASE UNCHANGED vars
  BY <1>1 DEF vars, runVars
<1>2. CASE AggNext
  BY <1>2 DEF AggNext, NewAggregator, registerUpstream, Start, SetMCPWiring, Shutdown, runVars
<1>3. CASE \E r \in Runs : Register(r) \/ Deregister(r)
  BY <1>3 DEF Register, Deregister
<1>4. CASE AgentCalls
  <2>1. \A c \in Calls, r \in Runs, i \in DOMAIN MCPServers, t \in Tools, sent \in Runs \cup {Nobody} :
          CallTool(c, r, i, t, sent) => workspace' = workspace
    BY DEF CallTool, runVars
  <2> QED BY <1>4, <2>1, Zenon DEF AgentCalls
<1>5. CASE \E c \in Calls : UpstreamAnswers(c) \/ Deliver(c) \/ DeliverNext(c) \/ copyFile(c) \/ Answer(c)
  <2>1. \A c \in Calls : UpstreamAnswers(c) => workspace' = workspace
    BY DEF UpstreamAnswers, runVars
  <2>2. \A c \in Calls : Deliver(c) => workspace' = workspace
    BY DEF Deliver, runVars
  <2>3. \A c \in Calls : DeliverNext(c) => workspace' = workspace
    BY DEF DeliverNext, runVars
  <2>4. \A c \in Calls : copyFile(c) => workspace' = workspace
    BY DEF copyFile, runVars
  <2>5. \A c \in Calls : Answer(c) => workspace' = workspace
    BY DEF Answer, runVars
  <2> QED BY <1>5, <2>1, <2>2, <2>3, <2>4, <2>5
<1> QED BY <1>1, <1>2, <1>3, <1>4, <1>5 DEF Next, AggNext

LEMMA InitSources == Init => SourcesOK
<1> SUFFICES ASSUME Init PROVE SourcesOK
  OBVIOUS
<1>1. workspace \in Workspaces /\ \A c \in Calls : call[c] = NoCall
  BY DEF Init
<1> QED BY <1>1, NoCallIs, EmptySourced DEF SourcesOK

\* A step of one call leaves the others alone.
LEMMA OthersStay == ASSUME NEW c \in Calls, CallStep(c) PROVE \A d \in Calls : d # c => call'[d] = call[d]
<1>1. PICK F : Sets(c, F)
  BY DEF CallStep, Refuses, Gets, Goes, Hears, Takes, Opens, Writes, Answers
<1> QED BY <1>1 DEF Sets

LEMMA SourcesStep == ASSUME AggInv, CallsOK, SourcesOK, [Next]_vars PROVE SourcesOK'
<1>1. workspace' = workspace
  BY WorkspaceStays
<1>2. CASE call' = call
  BY <1>1, <1>2, SourcedStays DEF SourcesOK
<1>3. ASSUME NEW c \in Calls, CallStep(c) PROVE SourcesOK'
  <2>1. \A d \in Calls : d # c => Sourced(d)'
    BY <1>1, <1>3, OthersStay, SourcedStays DEF SourcesOK
  <2>2. Sourced(c)'
    BY <1>1, <1>3, SourcedStep
  <2> QED BY <1>1, <2>1, <2>2 DEF SourcesOK
<1> QED BY <1>2, <1>3, StepCases DEF CallsOK

-------------------------------------------------------------------------------
(* Who generates what *)

\* What is asked of an upstream does not change once it is asked.
LEMMA RequestStays ==
  ASSUME NEW c \in Calls, CallStep(c), ~Gets(c)
  PROVE  /\ call'[c].by = call[c].by /\ call'[c].server = call[c].server /\ call'[c].tool = call[c].tool
         /\ call'[c].parent = call[c].parent /\ call'[c].name = call[c].name
         /\ call'[c].past = call[c].past
         /\ mermaidSeq' = mermaidSeq
<1>1. \A F \in {{"at"}, {"mapping"}, {"open"}, {"mapping", "open"}, {"at", "answer"},
                {"at", "reported", "sources", "answer"}} :
        F \subseteq {"at", "reported", "sources", "mapping", "open", "answer"}
  OBVIOUS
<1>2. \E F \in {{"at"}, {"mapping"}, {"open"}, {"mapping", "open"}, {"at", "answer"},
                {"at", "reported", "sources", "answer"}} : Sets(c, F)
  BY DEF CallStep, Refuses, Goes, Hears, Takes, Opens, Writes, Answers
<1>3. mermaidSeq' = mermaidSeq
  BY DEF CallStep, Refuses, Goes, Hears, Takes, Opens, Writes, Answers, Copying
<1> QED BY <1>1, <1>2, <1>3, CallerStays

\* A call of mermaid for a diagram
Draws(c) == call[c].server = "mermaid" /\ HasAdapter(call[c].server, call[c].tool)

Named(c) ==
  /\ call[c].name # <<>> =>
       Draws(c) /\ \E stamp \in Stamps, k \in 1..mermaidSeq : call[c].name = <<"mermaid", stamp, k>>
  /\ Draws(c) /\ call[c].at # "failed" => call[c].name # <<>>

\* Each diagram has a name of its own, by its number.
NamesOK ==
  /\ mermaidSeq \in Nat
  /\ \A c \in Calls : Named(c)
  /\ \A c, d \in Calls : c # d /\ call[c].name # <<>> => call[c].name # call[d].name

LEMMA InitNames == Init => NamesOK
<1> SUFFICES ASSUME Init PROVE NamesOK
  OBVIOUS
<1>1. mermaidSeq = 0 /\ \A c \in Calls : call[c] = NoCall
  BY DEF Init
<1> QED BY <1>1, NoCallIs, NobodyHasAdapter DEF NamesOK, Named, Draws

LEMMA NamesStep == ASSUME AggInv, CallsOK, NamesOK, [Next]_vars PROVE NamesOK'
<1>1. CASE call' = call /\ mermaidSeq' = mermaidSeq
  BY <1>1 DEF NamesOK, Named, Draws
<1>2. ASSUME NEW c \in Calls, CallStep(c), ~Gets(c) PROVE NamesOK'
  <2>1. \A d \in Calls : /\ call'[d].server = call[d].server /\ call'[d].tool = call[d].tool
                         /\ call'[d].name = call[d].name
    BY <1>2, OthersStay, RequestStays
  <2>2. mermaidSeq' = mermaidSeq
    BY <1>2, RequestStays
  <2>3. \A d \in Calls : Draws(d) /\ call'[d].at # "failed" => call[d].at # "failed"
    <3>1. \A d \in Calls : d # c => call'[d] = call[d]
      BY <1>2, OthersStay
    <3>2. call[c].at # "failed"
      BY <1>2, NoCallIs DEF CallStep, Refuses, Goes, Hears, Takes, Opens, Writes, Answers, Copying
    <3> QED BY <3>1, <3>2
  <2> QED BY <2>1, <2>2, <2>3 DEF NamesOK, Named, Draws
<1>3. ASSUME NEW c \in Calls, Gets(c) PROVE NamesOK'
  <2>1. \A d \in Calls : d # c => call'[d] = call[d]
    BY <1>3 DEF Gets, Sets
  <2>2. CASE mermaidSeq' = mermaidSeq /\ call'[c].name = <<>> /\ (Draws(c)' => call'[c].at = "failed")
    BY <2>1, <2>2 DEF NamesOK, Named, Draws
  <2>3. CASE /\ mermaidSeq' = mermaidSeq + 1 /\ Draws(c)'
             /\ \E stamp \in Stamps : call'[c].name = <<"mermaid", stamp, mermaidSeq'>>
    <3>1. PICK stamp \in Stamps : call'[c].name = <<"mermaid", stamp, mermaidSeq'>>
      BY <2>3
    <3>2. mermaidSeq' \in Nat /\ mermaidSeq' \in 1..mermaidSeq' /\ mermaidSeq' \notin 1..mermaidSeq
          /\ 1..mermaidSeq \subseteq 1..mermaidSeq'
      BY <2>3 DEF NamesOK
    <3>3. call'[c].name # <<>>
      BY <3>1
    <3>4. Named(c)'
      BY <2>3, <3>1, <3>2, <3>3 DEF Named
    <3>5. \A d \in Calls : d # c => Named(d)'
      BY <2>1, <3>2 DEF NamesOK, Named, Draws
    <3>6. ASSUME NEW d \in Calls, d # c PROVE call'[d].name # call'[c].name
      <4>1. call'[d].name = call[d].name
        BY <2>1, <3>6
      <4>2. CASE call[d].name = <<>>
        BY <3>3, <4>1, <4>2
      <4>3. CASE call[d].name # <<>>
        <5>1. PICK t \in Stamps, k \in 1..mermaidSeq : call[d].name = <<"mermaid", t, k>>
          BY <4>3 DEF NamesOK, Named
        <5>2. k # mermaidSeq'
          BY <3>2
        <5> QED BY <3>1, <4>1, <5>1, <5>2
      <4> QED BY <4>2, <4>3
    <3>7. \A d, e \in Calls : d # e /\ call'[d].name # <<>> => call'[d].name # call'[e].name
      BY <2>1, <3>6 DEF NamesOK
    <3> QED BY <3>2, <3>4, <3>5, <3>7 DEF NamesOK
  <2> QED BY <1>3, <2>2, <2>3 DEF Gets, Draws
<1> QED BY <1>1, <1>2, <1>3, StepCases DEF CallsOK

-------------------------------------------------------------------------------
(* What a call is to deliver *)

\* A path of a server that picks its directories
Foreign(p) ==
  /\ IsSequence(p.base) /\ p.base # <<>> /\ Head(p.base) # "mermaid"
  /\ \A w \in Workspaces : p.dir \notin ToSet(w)

Paths(c) ==
  /\ \A m \in ToSet(call[c].reported) : DOMAIN m = {"at", "scheme", "path"}
  /\ \A p \in ToSet(call[c].sources) :
       IF call[c].server = "mermaid" THEN p.dir = Generated(c) /\ p.base = call[c].name ELSE Foreign(p)
  /\ call[c].at = "answered" /\ DOMAIN call[c].sources # {} =>
       /\ call[c].answer \in RewriteResult(call[c].server, call[c].reported, call[c].mapping)
       /\ Left(c) = {}

LEMMA PathsStay ==
  ASSUME NEW c, Paths(c), workspace' = workspace,
         \A f \in {"server", "parent", "name", "reported", "sources"} : call'[c][f] = call[c][f],
         \/ call'[c].at # "answered"
         \/ call'[c].at = call[c].at /\ call'[c].mapping = call[c].mapping /\ call'[c].answer = call[c].answer
         \/ DOMAIN call[c].sources = {}
  PROVE  Paths(c)'
<1>1. Generated(c)' = Generated(c)
  BY DEF Generated
<1>2. call'[c].mapping = call[c].mapping => Left(c)' = Left(c)
  BY LeftStays
<1> QED BY <1>1, <1>2 DEF Paths

\* Nothing is found in what a server reports that is a path of ours already.
LEMMA FoundIs ==
  ASSUME NEW n \in FileGen \ {"mermaid"}, NEW reported \in Reports[n]
  PROVE  /\ \A m \in ToSet(reported) : DOMAIN m = {"at", "scheme", "path"}
         /\ \A p \in ToSet(ExtractHostPaths(n, reported)) : Foreign(p)
<1>1. /\ IsSequence(reported)
      /\ \A m \in ToSet(reported) :
           /\ DOMAIN m = {"at", "scheme", "path"} /\ (m.scheme = "file" => m.path # NoPath)
           /\ m.path # NoPath => Foreign(m.path)
  BY ReportsAssumption DEF Foreign
<1>2. ASSUME NEW p \in ToSet(ExtractHostPaths(n, reported)) PROVE Foreign(p)
  <2> DEFINE sources == ExtractHostPaths(n, reported)
  <2>1. /\ DOMAIN sources \subseteq DOMAIN reported
        /\ \A i \in DOMAIN sources : sources[i] = reported[i].path /\ Reads(n, reported[i])
    BY <1>1, ExtractIs
  <2>2. \E i \in DOMAIN sources : sources[i] = p
    BY <1>2 DEF ToSet
  <2> HIDE DEF sources
  <2>3. PICK m \in ToSet(reported) : p = m.path /\ Reads(n, m)
    BY <2>1, <2>2 DEF ToSet
  <2>4. m.scheme = "file" \/ m.path # NoPath
    BY <2>3 DEF Reads, imageGenReads, assetsReads
  <2> QED BY <1>1, <2>3, <2>4
<1> QED BY <1>1, <1>2

LEMMA OneIs ==
  ASSUME NEW m
  PROVE  /\ IsSequence(<<m>>) /\ \A k \in ToSet(<<m>>) : k = m
         /\ DOMAIN <<m>> = {1} /\ <<m>>[1] = m
<1>1. DOMAIN <<m>> = {1} /\ <<m>>[1] = m
  OBVIOUS
<1>2. IsSequence(<<m>>)
  BY DEF IsSequence
<1> QED BY <1>1, <1>2 DEF ToSet

LEMMA FoundOne ==
  ASSUME NEW n, NEW m, NEW reported, reported = <<m>>
  PROVE  \A p \in ToSet(ExtractHostPaths(n, reported)) : p = m.path
<1>1. IsSequence(reported) /\ DOMAIN reported = {1} /\ reported[1] = m
  BY OneIs
<1>2. \A i \in DOMAIN ExtractHostPaths(n, reported) :
        i \in DOMAIN reported /\ ExtractHostPaths(n, reported)[i] = reported[i].path
  BY DEF ExtractHostPaths
<1> QED BY <1>1, <1>2 DEF ToSet

\* Of a diagram, the file is found that mermaid says it has written.
LEMMA DrawnIs ==
  ASSUME NEW m, DOMAIN m = {"at", "scheme", "path"}, NEW reported, reported = <<m>>
  PROVE  /\ IsSequence(reported)
         /\ \A k \in ToSet(reported) : DOMAIN k = {"at", "scheme", "path"}
         /\ \A p \in ToSet(ExtractHostPaths("mermaid", reported)) : p = m.path
BY OneIs, FoundOne

LEMMA EmptyPaths ==
  ASSUME NEW c, call[c].reported = <<>>, call[c].sources = <<>>
  PROVE  Paths(c)
<1>1. ToSet(<<>>) = {} /\ DOMAIN <<>> = {}
  BY DEF ToSet
<1> QED BY <1>1 DEF Paths

PathsOK == \A c \in Calls : Paths(c)

LEMMA InitPaths == Init => PathsOK
<1>1. Init => \A c \in Calls : call[c] = NoCall
  BY DEF Init
<1> QED BY <1>1, NoCallIs, EmptyPaths DEF PathsOK

LEMMA PathsOfStep ==
  ASSUME NEW c \in Calls, Called(c), Paths(c), CallStep(c), workspace' = workspace
  PROVE  Paths(c)'
<1>0. ToSet(<<>>) = {} /\ DOMAIN <<>> = {}
  BY DEF ToSet
<1>1. CASE Refuses(c) \/ Gets(c)
  <2>1. call'[c].reported = <<>> /\ call'[c].sources = <<>>
    BY <1>1, NoCallIs DEF Refuses, Gets, Sets, Fields
  <2> QED BY <1>0, <2>1 DEF Paths
<1>2. ASSUME NEW from, NEW to, Goes(c, from, to), to = "answered" => DOMAIN call[c].sources = {} PROVE Paths(c)'
  <2>1. \A f \in {"server", "parent", "name", "reported", "sources"} : call'[c][f] = call[c][f]
    BY <1>2 DEF Goes, Sets, Fields
  <2>2. call'[c].at # "answered" \/ DOMAIN call[c].sources = {}
    BY <1>2 DEF Goes
  <2> QED BY <2>1, <2>2, PathsStay
<1>3. ASSUME NEW reported, Hears(c, reported) PROVE Paths(c)'
  <2>1. \A f \in {"server", "parent", "name"} : call'[c][f] = call[c][f]
    BY <1>3 DEF Hears, Sets, Fields
  <2>2. /\ call'[c].server = call[c].server /\ Generated(c)' = Generated(c)
        /\ call'[c].name = call[c].name
    BY <2>1 DEF Generated
  <2>3. /\ call'[c].reported = reported /\ call'[c].sources = ExtractHostPaths(call[c].server, reported)
        /\ call'[c].at = "answered" => DOMAIN call'[c].sources = {}
    BY <1>3 DEF Hears
  <2>4. CASE call[c].server = "mermaid"
    <3>0. PICK how \in Savings : reported = <<Saved(c, how)>>
      BY <1>3, <2>4 DEF Hears
    <3>1. PICK m : m = Saved(c, how)
      OBVIOUS
    <3>2. /\ reported = <<m>> /\ DOMAIN m = {"at", "scheme", "path"}
          /\ m.path.dir = Generated(c) /\ m.path.base = call[c].name
      BY <3>0, <3>1 DEF Saved
    <3>3. /\ \A k \in ToSet(reported) : DOMAIN k = {"at", "scheme", "path"}
          /\ \A p \in ToSet(ExtractHostPaths("mermaid", reported)) : p = m.path
      BY <3>2, DrawnIs
    <3> QED BY <2>2, <2>3, <2>4, <3>2, <3>3 DEF Paths
  <2>5. CASE call[c].server # "mermaid"
    <3>1. call[c].server \in FileGen \ {"mermaid"} /\ reported \in Reports[call[c].server]
      BY <1>3, <2>5 DEF Hears, HasAdapter, FileGen
    <3>2. /\ \A m \in ToSet(reported) : DOMAIN m = {"at", "scheme", "path"}
          /\ \A p \in ToSet(ExtractHostPaths(call[c].server, reported)) : Foreign(p)
      BY <3>1, FoundIs
    <3> QED BY <2>2, <2>3, <2>5, <3>2 DEF Paths
  <2> QED BY <2>4, <2>5
<1>4. CASE Takes(c) \/ Opens(c) \/ Writes(c)
  <2>1. \A f \in {"server", "parent", "name", "reported", "sources"} : call'[c][f] = call[c][f]
    BY <1>4 DEF Takes, Opens, Writes, Sets, Fields
  <2>2. call'[c].at # "answered"
    BY <1>4 DEF Takes, Opens, Writes, Copying, Sets, Fields
  <2> QED BY <2>1, <2>2, PathsStay
<1>5. CASE Answers(c)
  <2>1. \A f \in {"server", "parent", "name", "reported", "sources", "mapping"} : call'[c][f] = call[c][f]
    BY <1>5 DEF Answers, Sets, Fields
  <2>2. Left(c)' = Left(c) /\ Generated(c)' = Generated(c)
    BY <2>1, LeftStays DEF Generated
  <2>3. Left(c)' = {}
    BY <1>5, <2>2 DEF Answers
  <2>4. call'[c].answer \in RewriteResult(call'[c].server, call'[c].reported, call'[c].mapping)
    BY <1>5, <2>1 DEF Answers
  <2> QED BY <2>1, <2>2, <2>3, <2>4 DEF Paths
<1>6. ~HasAdapter(call[c].server, call[c].tool) => DOMAIN call[c].sources = {}
  BY <1>0 DEF Called
<1> QED BY <1>1, <1>2, <1>3, <1>4, <1>5, <1>6 DEF CallStep

LEMMA PathsStep == ASSUME AggInv, CallsOK, PathsOK, [Next]_vars PROVE PathsOK'
<1>1. workspace' = workspace
  BY WorkspaceStays
<1>2. CASE call' = call
  <2>1. \A c \in Calls : \A f \in {"server", "parent", "name", "reported", "sources"} : call'[c][f] = call[c][f]
    BY <1>2
  <2> QED BY <1>1, <1>2, <2>1, PathsStay DEF PathsOK
<1>3. ASSUME NEW c \in Calls, CallStep(c) PROVE PathsOK'
  <2>1. \A d \in Calls : d # c => call'[d] = call[d]
    BY <1>3, OthersStay
  <2>2. ASSUME NEW d \in Calls, d # c PROVE Paths(d)'
    <3>1. Paths(d) /\ call'[d] = call[d]
      BY <2>1, <2>2 DEF PathsOK
    <3>2. \A f \in {"server", "parent", "name", "reported", "sources"} : call'[d][f] = call[d][f]
      BY <3>1
    <3> QED BY <1>1, <3>1, <3>2, PathsStay
  <2>3. Paths(c)'
    BY <1>1, <1>3, PathsOfStep DEF CallsOK, PathsOK
  <2> QED BY <2>2, <2>3 DEF PathsOK
<1> QED BY <1>2, <1>3, StepCases DEF CallsOK

-------------------------------------------------------------------------------
(* Names that are not taken *)

LEMMA AppendIs ==
  ASSUME NEW s, IsSequence(s), s # <<>>, NEW i
  PROVE  /\ Append(s, i)[Len(s) + 1] = i
         /\ Append(s, i) # <<>> /\ Head(Append(s, i)) = Head(s)
<1> DEFINE S == {s[j] : j \in 1..Len(s)} \cup {i}
<1>1. s \in Seq(S)
  BY DEF IsSequence
<1> HIDE DEF S
<1>2. i \in S
  BY DEF S
<1> QED BY <1>1, <1>2

LEMMA ImageFinite ==
  ASSUME NEW f, IsFiniteSet(DOMAIN f)
  PROVE  IsFiniteSet({f[x] : x \in DOMAIN f})
<1> DEFINE T == {f[x] : x \in DOMAIN f}
           g == [x \in DOMAIN f |-> f[x]]
<1>1. g \in Surjection(DOMAIN f, T)
  BY DEF Surjection
<1> HIDE DEF T, g
<1>2. IsFiniteSet(T)
  BY <1>1, FS_Surjection
<1> QED BY <1>2 DEF T

\* uniqueBase answers a name that is not used, and begins as the base does.
LEMMA UniqueBaseIs ==
  ASSUME NEW base, IsSequence(base), base # <<>>, NEW used, IsFiniteSet(used)
  PROVE  uniqueBase(base, used) \notin used /\ Head(uniqueBase(base, used)) = Head(base)
<1>1. CASE base \notin used
  BY <1>1 DEF uniqueBase
<1>2. CASE base \in used
  <2> DEFINE n == Cardinality(used)
             I == {i \in 1..(n + 1) : Append(base, i) \notin used}
             f == [i \in 1..(n + 1) |-> Append(base, i)]
  <2>1. n \in Nat
    BY FS_CardinalityType
  <2>2. IsFiniteSet(1..(n + 1)) /\ Cardinality(1..(n + 1)) = n + 1
    BY <2>1, FS_Interval
  <2>3. I # {}
    <3>1. SUFFICES ASSUME I = {} PROVE FALSE
      OBVIOUS
    <3>2. \A i \in 1..(n + 1) : Append(base, i) \in used
      BY <3>1
    <3>3. f \in [1..(n + 1) -> used]
      BY <3>2
    <3>4. Cardinality(used) < Cardinality(1..(n + 1))
      BY <2>1, <2>2
    <3> HIDE DEF f, n
    <3>5. PICK i \in 1..(n + 1), j \in 1..(n + 1) : i # j /\ f[i] = f[j]
      BY <2>2, <3>3, <3>4, FS_PigeonHole
    <3>6. Append(base, i) = Append(base, j)
      BY <3>5 DEF f
    <3>7. Append(base, i)[Len(base) + 1] = i /\ Append(base, j)[Len(base) + 1] = j
      BY AppendIs
    <3> QED BY <3>5, <3>6, <3>7
  <2>4. I \in SUBSET Nat
    BY <2>1
  <2>5. PICK i \in I : \A j \in I : i <= j
    BY <2>3, <2>4, LeastElement
  <2>6. Min(I) \in I
    BY <2>5 DEF Min
  <2>7. uniqueBase(base, used) = Append(base, Min(I))
    BY <1>2 DEF uniqueBase
  <2> QED BY <2>6, <2>7, AppendIs
<1> QED BY <1>1, <1>2

-------------------------------------------------------------------------------
(* The calls that are over *)

\* A call that is over takes no more steps, and what a call remembers to be over is.
PastOK == \A c \in Calls : call[c].past \subseteq Over

LEMMA OverStays == ASSUME NEW c \in Calls, CallStep(c) PROVE c \notin Over /\ Over \subseteq Over'
<1>1. call[c].at \in {"none", "upstream", "produced", "copying"}
  BY NoCallIs DEF CallStep, Refuses, Gets, Goes, Hears, Takes, Opens, Writes, Answers, Copying
<1>2. c \notin Over
  BY <1>1 DEF Over
<1>3. \A d \in Calls : d # c => call'[d] = call[d]
  BY OthersStay
<1> QED BY <1>2, <1>3 DEF Over

LEMMA PastStep == ASSUME AggInv, CallsOK, PastOK, [Next]_vars PROVE PastOK'
<1>1. CASE call' = call
  BY <1>1 DEF PastOK, Over
<1>2. ASSUME NEW c \in Calls, CallStep(c) PROVE PastOK'
  <2>1. Over \subseteq Over' /\ \A d \in Calls : d # c => call'[d] = call[d]
    BY <1>2, OverStays, OthersStay
  <2>2. call'[c].past \subseteq Over
    <3>1. CASE Gets(c)
      BY <3>1 DEF Gets
    <3>2. CASE ~Gets(c)
      BY <1>2, <3>2, RequestStays DEF PastOK
    <3> QED BY <3>1, <3>2
  <2> QED BY <2>1, <2>2 DEF PastOK
<1> QED BY <1>1, <1>2, StepCases DEF CallsOK

LEMMA InitPast == Init => PastOK
<1>1. Init => \A c \in Calls : call[c] = NoCall
  BY DEF Init
<1> QED BY <1>1, NoCallIs DEF PastOK

-------------------------------------------------------------------------------
(* What a call places in a workspace *)

CallInv == AggInv /\ CallsOK /\ SourcesOK /\ NamesOK /\ PathsOK /\ PastOK

LEMMA CallInvStep == ASSUME CallInv, [Next]_vars PROVE CallInv'
BY AggStep, CallsStep, SourcesStep, NamesStep, PathsStep, PastStep DEF CallInv

LEMMA AlwaysCallInv == Spec => []CallInv
<1>1. Init => CallInv
  BY InitAgg, InitCalls, InitSources, InitNames, InitPaths, InitPast DEF CallInv
<1> QED BY <1>1, CallInvStep, PTL DEF Spec

\* A call that generates files has its caller's workspace for them.
LEMMA GeneratedIs ==
  ASSUME CallInv, NEW c \in Calls, call[c].parent # Nobody
  PROVE  /\ call[c].parent = call[c].by /\ call[c].by \in Runs
         /\ Generated(c) \in ToSet(workspace) /\ Generated(c) # ""
<1>1. call[c].parent = call[c].by /\ call[c].by \in Runs
  BY DEF CallInv, CallsOK, Called
<1>2. workspace \in Workspaces /\ DOMAIN workspace = Runs /\ "" \notin ToSet(workspace)
  BY WorkspacesAssumption DEF CallInv, SourcesOK
<1>3. Generated(c) \in ToSet(workspace)
  BY <1>1, <1>2 DEF Generated, ToSet
<1> QED BY <1>1, <1>2, <1>3

\* The next source of a diagram is below where mermaid was told to put it; of the others, elsewhere.
LEMMA NextPath ==
  ASSUME CallInv, NEW c \in Calls, call[c].at = "copying", Left(c) # {}
  PROVE  /\ NextSource(c) \notin DOMAIN call[c].mapping /\ IsFiniteSet(Used(c))
         /\ HasAdapter(call[c].server, call[c].tool) /\ call[c].parent # Nobody
         /\ call[c].server = "mermaid" =>
              /\ alreadyUnder(NextSource(c), Generated(c)) /\ NextSource(c).base = call[c].name
              /\ NextSource(c).sub = "" => Direct(c)
         /\ call[c].server # "mermaid" =>
              /\ ~alreadyUnder(NextSource(c), Generated(c))
              /\ Target(c) \notin Used(c) /\ Head(Target(c)) # "mermaid"
<1>1. Sourced(c) /\ Called(c) /\ Paths(c) /\ workspace \in Workspaces
  BY DEF CallInv, CallsOK, SourcesOK, PathsOK
<1>2. NextSource(c) \notin DOMAIN call[c].mapping
  BY <1>1, NextIs
<1>0. PICK p \in ToSet(call[c].sources) : NextSource(c) = Clean(p)
  BY <1>1, NextIs
<1>9. NextSource(c).dir = p.dir /\ NextSource(c).sub = p.sub /\ NextSource(c).base = p.base
  BY <1>0, CleanIs
<1>3. IsFiniteSet(Used(c))
  <2> DEFINE f == [i \in DOMAIN call[c].sources |-> Clean(call[c].sources[i])]
  <2>1. IsFiniteSet({f[i] : i \in DOMAIN f})
    <3>1. IsFiniteSet(DOMAIN f)
      BY <1>1, SourcesAre
    <3> HIDE DEF f
    <3> QED BY <3>1, ImageFinite
  <2>2. {Clean(q) : q \in ToSet(call[c].sources)} \subseteq {f[i] : i \in DOMAIN f}
    BY DEF ToSet
  <2>3. IsFiniteSet(DOMAIN call[c].mapping)
    BY <1>1, <2>1, <2>2, FS_Subset DEF Sourced
  <2> QED BY <2>3, ImageFinite DEF Used
<1>4. HasAdapter(call[c].server, call[c].tool) /\ call[c].parent = call[c].by /\ call[c].by \in Runs
  BY <1>1 DEF Called, Started
<1>5. call[c].parent # Nobody
  BY <1>4, WorkspacesAssumption
<1>6. Generated(c) \in ToSet(workspace)
  BY <1>5, GeneratedIs
<1>7. CASE call[c].server = "mermaid"
  <2>1. NextSource(c).dir = Generated(c) /\ NextSource(c).base = call[c].name
    BY <1>0, <1>1, <1>7, <1>9 DEF Paths
  <2>2. NextSource(c).sub = "" => Direct(c)
    BY <1>0, <1>9 DEF Direct
  <2> QED BY <1>2, <1>3, <1>4, <1>5, <1>7, <2>1, <2>2 DEF alreadyUnder
<1>8. CASE call[c].server # "mermaid"
  <2>1. Foreign(NextSource(c))
    BY <1>0, <1>1, <1>8, <1>9 DEF Paths, Foreign
  <2>2. ~alreadyUnder(NextSource(c), Generated(c))
    BY <1>1, <1>6, <2>1 DEF Foreign, alreadyUnder
  <2>3. Target(c) \notin Used(c) /\ Head(Target(c)) # "mermaid"
    BY <1>3, <2>1, UniqueBaseIs DEF Foreign, Target
  <2> QED BY <1>2, <1>3, <1>4, <1>5, <1>8, <2>2, <2>3
<1> QED BY <1>7, <1>8

LEMMA UsedGrows ==
  ASSUME NEW c, NEW src, NEW base, src \notin DOMAIN call[c].mapping,
         call'[c].mapping = Put(call[c].mapping, src, base)
  PROVE  Used(c)' = Used(c) \cup {base}
<1>1. /\ DOMAIN call'[c].mapping = DOMAIN call[c].mapping \cup {src}
      /\ call'[c].mapping[src] = base
      /\ \A p \in DOMAIN call[c].mapping : call'[c].mapping[p] = call[c].mapping[p]
  BY DEF Put
<1> QED BY <1>1 DEF Used

\* What a step of a call adds to its places
Adds(c, B) ==
  /\ Placed(c)' = Placed(c) \cup B
  /\ call'[c].name = call[c].name /\ call'[c].server = call[c].server /\ call'[c].tool = call[c].tool
  /\ call'[c].parent = call[c].parent

LEMMA PlacedSame ==
  ASSUME NEW c, call'[c].mapping = call[c].mapping, call'[c].open = call[c].open, call'[c].name = call[c].name
  PROVE  Placed(c)' = Placed(c)
BY LeftStays DEF Placed, Used

LEMMA PlacedGrows ==
  ASSUME CallInv, NEW c \in Calls, CallStep(c)
  PROVE  \/ /\ Gets(c) /\ Placed(c) = {} /\ call[c].parent = Nobody
            /\ Placed(c)' = IF call'[c].name = <<>> THEN {} ELSE {call'[c].name}
         \/ /\ ~Gets(c) /\ ~Takes(c) /\ ~Opens(c) /\ Adds(c, {})
         \/ Takes(c) /\ Adds(c, {NextSource(c).base})
         \/ Opens(c) /\ Adds(c, {Target(c)})
<1>1. CASE Gets(c)
  <2>1. /\ call[c].mapping = <<>> /\ call[c].open = NoPath /\ call[c].name = <<>> /\ call[c].parent = Nobody
        /\ call'[c].mapping = <<>> /\ call'[c].open = NoPath
    BY <1>1, NoCallIs DEF Gets
  <2>2. Used(c) = {} /\ Used(c)' = {}
    BY <2>1 DEF Used
  <2> QED BY <1>1, <2>1, <2>2 DEF Placed
<1>2. ASSUME ~Gets(c)
      PROVE  /\ call'[c].server = call[c].server /\ call'[c].tool = call[c].tool
             /\ call'[c].parent = call[c].parent /\ call'[c].name = call[c].name
  BY <1>2, RequestStays
<1>3. CASE Takes(c)
  <2>1. ~Gets(c) /\ call[c].at = "copying" /\ Left(c) # {}
    BY <1>3, NoCallIs DEF Takes, Copying, Gets
  <2>2. NextSource(c) \notin DOMAIN call[c].mapping
    BY <2>1, NextPath
  <2>3. Used(c)' = Used(c) \cup {NextSource(c).base}
    BY <1>3, <2>2, UsedGrows DEF Takes
  <2>4. call[c].open = NoPath /\ call'[c].open = NoPath
    BY <1>3 DEF Takes, Sets, Fields
  <2>5. Placed(c)' = Placed(c) \cup {NextSource(c).base}
    BY <1>2, <2>1, <2>3, <2>4 DEF Placed
  <2> QED BY <1>2, <1>3, <2>1, <2>5 DEF Adds
<1>4. CASE Opens(c)
  <2>1. ~Gets(c)
    BY <1>4, NoCallIs DEF Opens, Copying, Gets
  <2>2. /\ call[c].open = NoPath /\ call'[c].open = PathIn(Generated(c), Target(c))
        /\ call'[c].mapping = call[c].mapping /\ Left(c) # {} /\ call[c].at = "copying"
    BY <1>4 DEF Opens, Sets, Fields, Copying
  <2>3. Generated(c) # ""
    BY <2>2, NextPath, GeneratedIs
  <2>4. call'[c].open # NoPath /\ call'[c].open.base = Target(c)
    <3>1. call'[c].open.dir = Generated(c) /\ call'[c].open.base = Target(c)
      BY <2>2, PathInIs
    <3>2. NoPath.dir = ""
      BY PathInIs DEF NoPath
    <3> QED BY <2>3, <3>1, <3>2
  <2>5. Used(c)' = Used(c)
    BY <2>2 DEF Used
  <2>6. Placed(c)' = Placed(c) \cup {Target(c)}
    BY <1>2, <2>1, <2>2, <2>4, <2>5 DEF Placed
  <2> QED BY <1>2, <1>4, <2>1, <2>6 DEF Adds
<1>5. CASE Writes(c)
  <2>1. ~Gets(c) /\ ~Takes(c) /\ ~Opens(c) /\ call[c].at = "copying" /\ call[c].open # NoPath
    BY <1>5, NoCallIs DEF Writes, Copying, Gets, Takes, Opens
  <2>2. Left(c) # {}
    BY <2>1 DEF CallInv, SourcesOK, Sourced
  <2>3. NextSource(c) \notin DOMAIN call[c].mapping
    BY <2>1, <2>2, NextPath
  <2>4. Used(c)' = Used(c) \cup {call[c].open.base}
    BY <1>5, <2>3, UsedGrows DEF Writes
  <2>5. call'[c].open = NoPath
    BY <1>5 DEF Writes
  <2>6. Placed(c)' = Placed(c)
    BY <1>2, <2>1, <2>4, <2>5 DEF Placed
  <2> QED BY <1>2, <2>1, <2>6 DEF Adds
<1>6. CASE ~Gets(c) /\ ~Takes(c) /\ ~Opens(c) /\ ~Writes(c)
  <2>1. call'[c].mapping = call[c].mapping /\ call'[c].open = call[c].open
    BY <1>6 DEF CallStep, Refuses, Goes, Hears, Answers, Sets, Fields
  <2>2. Placed(c)' = Placed(c)
    BY <1>2, <1>6, <2>1, PlacedSame
  <2> QED BY <1>2, <1>6, <2>2 DEF Adds
<1> QED BY <1>1, <1>3, <1>4, <1>5, <1>6

\* No call lets go of a place.
Grows ==
  /\ workspace' = workspace
  /\ \A c \in Calls : Placed(c) \subseteq Placed(c)' /\ (call[c].parent # Nobody => call'[c].parent = call[c].parent)

LEMMA AllGrow == ASSUME CallInv, [Next]_vars PROVE Grows
<1>1. workspace' = workspace
  BY WorkspaceStays
<1>2. CASE call' = call
  BY <1>1, <1>2, PlacedSame DEF Grows
<1>3. ASSUME NEW c \in Calls, CallStep(c) PROVE Grows
  <2>1. \A d \in Calls : d # c => Placed(d)' = Placed(d) /\ call'[d].parent = call[d].parent
    BY <1>3, OthersStay, PlacedSame
  <2>2. Placed(c) \subseteq Placed(c)' /\ (call[c].parent # Nobody => call'[c].parent = call[c].parent)
    BY <1>3, PlacedGrows DEF Adds
  <2> QED BY <1>1, <2>1, <2>2 DEF Grows
<1> QED BY <1>2, <1>3, StepCases DEF CallInv, CallsOK

-------------------------------------------------------------------------------
(* The files of the workspaces *)

\* Call c, that is not over, stores a file of base b in its workspace, and it is one of its places.
Stores(c, b, content) ==
  /\ c \notin Over /\ call[c].parent # Nobody /\ b \in Placed(c)' /\ Generated(c) \in DOMAIN files
  /\ DOMAIN files' = DOMAIN files
  /\ \A w \in DOMAIN files : w # Generated(c) => files'[w] = files[w]
  /\ DOMAIN files'[Generated(c)] = DOMAIN files[Generated(c)] \cup {b}
  /\ \A k \in DOMAIN files[Generated(c)] : k # b => files'[Generated(c)][k] = files[Generated(c)][k]
  /\ files'[Generated(c)][b] = content

LEMMA StoresIs ==
  ASSUME NEW c, NEW b, NEW content, c \notin Over, call[c].parent # Nobody, b \in Placed(c)', Generated(c) \in DOMAIN files,
         \/ files' = [files EXCEPT ![Generated(c)] = Put(@, b, content)]
         \/ /\ b \in DOMAIN files[Generated(c)]
            /\ files' = [files EXCEPT ![Generated(c)][b] = content]
  PROVE  Stores(c, b, content)
<1> DEFINE w == Generated(c)
           F == files'[w]
<1>1. DOMAIN files' = DOMAIN files /\ \A v \in DOMAIN files : v # w => files'[v] = files[v]
  OBVIOUS
<1>2. CASE files' = [files EXCEPT ![w] = Put(@, b, content)]
  <2>1. F = Put(files[w], b, content)
    BY <1>2
  <2>2. /\ DOMAIN F = DOMAIN files[w] \cup {b} /\ F[b] = content
        /\ \A k \in DOMAIN files[w] : k # b => F[k] = files[w][k]
    BY <2>1 DEF Put
  <2> QED BY <1>1, <2>2 DEF Stores
<1>3. CASE b \in DOMAIN files[w] /\ files' = [files EXCEPT ![w][b] = content]
  <2>1. F = [files[w] EXCEPT ![b] = content]
    BY <1>3
  <2>2. /\ DOMAIN F = DOMAIN files[w] /\ F[b] = content
        /\ \A k \in DOMAIN files[w] : k # b => F[k] = files[w][k]
    BY <1>3, <2>1
  <2>3. DOMAIN F = DOMAIN files[w] \cup {b}
    BY <1>3, <2>2
  <2> QED BY <1>1, <2>2, <2>3 DEF Stores
<1> QED BY <1>2, <1>3

\* What base b of the workspace of c holds, unless another call has a file of that name there
Holds(c, b, content) ==
  /\ Generated(c) \in DOMAIN files /\ b \in DOMAIN files[Generated(c)]
  /\ Contended(c, b) \/ files[Generated(c)][b] = content

\* The names of the files that a call copies are none that mermaid gives its own.
Bases(c) == \A b \in Placed(c) : IF call[c].server = "mermaid" THEN b = call[c].name ELSE Head(b) # "mermaid"

Drawn(c) == call[c].name # <<>> /\ Direct(c) /\ call[c].at \in {"produced", "copying", "answered"}

\* Not a diagram that was written below the directory
Plain(c, p) == call[c].server = "mermaid" => p.sub = ""

Stored(c) ==
  /\ \A p \in DOMAIN call[c].mapping : Plain(c, p) => Holds(c, call[c].mapping[p], Original(c, p))
  /\ call[c].open # NoPath =>
       call[c].server # "mermaid" /\ call[c].open.base \notin Used(c) /\ Holds(c, call[c].open.base, Empty)
  /\ Drawn(c) => /\ call[c].name \in DOMAIN files[Generated(c)]
                 /\ files[Generated(c)][call[c].name] = Diagram(c)

Owned ==
  /\ DOMAIN files = ToSet(workspace)
  /\ \A w \in DOMAIN files : \A b \in DOMAIN files[w] :
       \E c \in Calls : call[c].parent # Nobody /\ Generated(c) = w /\ b \in Placed(c)

FilesOK == Owned /\ \A c \in Calls : Bases(c) /\ Stored(c)

LEMMA InitFiles == Init => FilesOK
<1> SUFFICES ASSUME Init PROVE FilesOK
  OBVIOUS
<1>1. /\ DOMAIN files = ToSet(workspace) /\ \A w \in DOMAIN files : files[w] = <<>>
      /\ \A c \in Calls : call[c] = NoCall
  BY DEF Init
<1>2. Owned
  BY <1>1 DEF Owned
<1>3. ASSUME NEW c \in Calls PROVE Bases(c) /\ Stored(c)
  <2>1. call[c].mapping = <<>> /\ call[c].open = NoPath /\ call[c].name = <<>>
    BY <1>1, NoCallIs
  <2>2. DOMAIN <<>> = {}
    OBVIOUS
  <2>3. Placed(c) = {}
    BY <2>1, <2>2 DEF Placed, Used
  <2> QED BY <2>1, <2>2, <2>3 DEF Bases, Stored, Drawn
<1> QED BY <1>2, <1>3 DEF FilesOK

\* What each step stores
StoreCases(c) ==
  \/ /\ files' = files /\ ~Opens(c) /\ ~Writes(c)
     /\ Draws(c) /\ call[c].at = "upstream" => call'[c].at = "failed" \/ ~Direct(c)'
  \/ Draws(c) /\ call[c].at = "upstream" /\ Stores(c, call[c].name, Diagram(c))
  \/ Opens(c) /\ Stores(c, Target(c), Empty)
  \/ /\ Writes(c)
     /\ \E content :
          /\ Stores(c, call[c].open.base, content)
          /\ files[Generated(c)][call[c].open.base] = Empty => content = FileFrom(NextSource(c))

LEMMA StepStores == ASSUME CallInv, FilesOK, NEW c \in Calls, CallStep(c) PROVE StoreCases(c)
<1>1. Sourced(c) /\ Called(c) /\ Named(c) /\ Stored(c) /\ DOMAIN files = ToSet(workspace)
  BY DEF CallInv, CallsOK, SourcesOK, NamesOK, FilesOK, Owned
<1>2. call[c].parent # Nobody => Generated(c) \in DOMAIN files
  BY <1>1, GeneratedIs
<1>0. c \notin Over
  BY OverStays
<1>3. CASE Opens(c)
  <2>1. call[c].parent # Nobody /\ Target(c) \in Placed(c)'
    <3>1. call[c].at = "copying" /\ Left(c) # {} /\ ~Gets(c) /\ ~Takes(c)
      BY <1>3, NoCallIs DEF Opens, Copying, Gets, Takes
    <3> QED BY <1>3, <3>1, NextPath, PlacedGrows DEF Adds
  <2>2. files' = [files EXCEPT ![Generated(c)] = Put(@, Target(c), Empty)]
    BY <1>3 DEF Opens
  <2> QED BY <1>0, <1>2, <1>3, <2>1, <2>2, StoresIs DEF StoreCases
<1>4. CASE Writes(c)
  <2>1. call[c].at = "copying" /\ call[c].open # NoPath /\ ~Gets(c) /\ ~Takes(c) /\ ~Opens(c)
    BY <1>4, NoCallIs DEF Writes, Copying, Gets, Takes, Opens
  <2>2. Left(c) # {} /\ call[c].open.dir = Generated(c) /\ call[c].open.base \in DOMAIN files[Generated(c)]
    BY <1>1, <2>1 DEF Sourced, Stored, Holds
  <2>3. call[c].parent # Nobody
    BY <2>1, <2>2, NextPath
  <2>4. call[c].open.base \in Placed(c)'
    <3>1. Placed(c)' = Placed(c) \cup {}
      BY <2>1, PlacedGrows DEF Adds
    <3> QED BY <2>1, <3>1 DEF Placed
  <2>5. PICK content :
          /\ files[call[c].open.dir][call[c].open.base] \in {Empty, FileFrom(NextSource(c))} =>
               content = FileFrom(NextSource(c))
          /\ files' = [files EXCEPT ![call[c].open.dir][call[c].open.base] = content]
    BY <1>4 DEF Writes
  <2>6. Stores(c, call[c].open.base, content)
    BY <1>0, <1>2, <2>2, <2>3, <2>4, <2>5, StoresIs
  <2> QED BY <1>4, <2>2, <2>5, <2>6 DEF StoreCases
<1>5. ASSUME NEW reported, Hears(c, reported), call[c].server = "mermaid" PROVE StoreCases(c)
  <2>1. call[c].at = "upstream" /\ Draws(c)
    BY <1>5 DEF Hears, Draws
  <2>2. call[c].name # <<>> /\ call[c].parent # Nobody
    BY <1>1, <2>1, WorkspacesAssumption DEF Named, Called, Started, Draws
  <2>3. ~Gets(c) /\ ~Takes(c) /\ ~Opens(c)
    BY <2>1, NoCallIs DEF Gets, Takes, Opens, Copying
  <2>4. call[c].name \in Placed(c)'
    <3>1. Placed(c)' = Placed(c) \cup {}
      BY <2>3, PlacedGrows DEF Adds
    <3> QED BY <2>2, <3>1 DEF Placed
  <2>5. PICK how \in Savings :
          /\ reported = <<Saved(c, how)>>
          /\ IF how.sub = "" THEN files' = [files EXCEPT ![Generated(c)] = Put(@, call[c].name, Diagram(c))]
             ELSE files' = files
    BY <1>5 DEF Hears
  <2>6. CASE how.sub = ""
    <3>1. files' = [files EXCEPT ![Generated(c)] = Put(@, call[c].name, Diagram(c))]
      BY <2>5, <2>6
    <3> QED BY <1>0, <1>2, <2>1, <2>2, <2>4, <3>1, StoresIs DEF StoreCases
  <2>7. CASE how.sub # ""
    <3>1. files' = files /\ ~Writes(c)
      BY <2>1, <2>5, <2>7 DEF Writes, Copying
    <3>2. PICK m : m = Saved(c, how)
      OBVIOUS
    <3>3. reported = <<m>> /\ m.path.sub # ""
      BY <2>5, <2>7, <3>2 DEF Saved
    <3>4. \A p \in ToSet(call'[c].sources) : p = m.path
      BY <1>5, <3>3, FoundOne DEF Hears
    <3>5. ~Direct(c)'
      BY <3>3, <3>4 DEF Direct
    <3> QED BY <2>3, <3>1, <3>5 DEF StoreCases
  <2> QED BY <2>6, <2>7
<1>6. ASSUME ~Opens(c), ~Writes(c), \A reported : Hears(c, reported) => call[c].server # "mermaid"
      PROVE  StoreCases(c)
  <2>1. files' = files
    BY <1>6 DEF CallStep, Refuses, Gets, Goes, Hears, Takes, Answers
  <2>2. Draws(c) /\ call[c].at = "upstream" => call'[c].at = "failed"
    BY <1>6, NoCallIs DEF CallStep, Refuses, Gets, Goes, Takes, Answers, Copying, Draws
  <2> QED BY <1>6, <2>1, <2>2 DEF StoreCases
<1> QED BY <1>3, <1>4, <1>5, <1>6

\* What a call holds it keeps: another that stores a file of the same name contends for it.
LEMMA ContendedStays ==
  ASSUME Grows, NEW d \in Calls, NEW b, Generated(d)' = Generated(d), call'[d].past = call[d].past,
         Contended(d, b)
  PROVE  Contended(d, b)'
<1>1. PICK e \in Calls \ ({d} \cup call[d].past) : call[e].parent # Nobody /\ Generated(e) = Generated(d) /\ b \in Placed(e)
  BY DEF Contended
<1>2. call'[e].parent = call[e].parent /\ b \in Placed(e)' /\ workspace' = workspace
  BY <1>1 DEF Grows
<1>3. Generated(e)' = Generated(e)
  BY <1>2 DEF Generated
<1> QED BY <1>1, <1>2, <1>3 DEF Contended

LEMMA HoldsStays ==
  ASSUME Grows, PastOK, NEW d \in Calls, NEW b, NEW what, Holds(d, b, what),
         Generated(d)' = Generated(d), call'[d].past = call[d].past,
         \/ files' = files
         \/ \E c \in Calls : \E k, content : Stores(c, k, content) /\ (c # d \/ k # b)
  PROVE  Holds(d, b, what)'
<1> DEFINE w == Generated(d)
<1>1. w \in DOMAIN files /\ b \in DOMAIN files[w] /\ (Contended(d, b) \/ files[w][b] = what)
  BY DEF Holds
<1>2. CASE files' = files
  BY <1>1, <1>2, ContendedStays DEF Holds
<1>3. ASSUME NEW c \in Calls, NEW k, NEW content, Stores(c, k, content), c # d \/ k # b
      PROVE  Holds(d, b, what)'
  <2>1. w \in DOMAIN files'
    BY <1>1, <1>3 DEF Stores
  <2>2. CASE Generated(c) = w /\ k = b
    <3>1. c # d /\ call'[c].parent # Nobody /\ b \in Placed(c)' /\ workspace' = workspace
      BY <1>3, <2>2 DEF Stores, Grows
    <3>2. Generated(c)' = w
      BY <1>3, <2>2, <3>1 DEF Generated, Grows, Stores
    <3>0. c \notin call'[d].past
      BY <1>3 DEF Stores, PastOK
    <3>3. Contended(d, b)'
      BY <3>0, <3>1, <3>2 DEF Contended
    <3>4. b \in DOMAIN files'[w]
      BY <1>3, <2>2 DEF Stores
    <3> QED BY <2>1, <3>3, <3>4 DEF Holds
  <2>3. CASE Generated(c) = w /\ k # b
    <3>1. b \in DOMAIN files'[w] /\ files'[w][b] = files[w][b]
      BY <1>1, <1>3, <2>3 DEF Stores
    <3> QED BY <1>1, <2>1, <3>1, ContendedStays DEF Holds
  <2>4. CASE Generated(c) # w
    <3>1. files'[w] = files[w]
      BY <1>1, <1>3, <2>4 DEF Stores
    <3> QED BY <1>1, <2>1, <3>1, ContendedStays DEF Holds
  <2> QED BY <2>2, <2>3, <2>4
<1> QED BY <1>2, <1>3

LEMMA OwnedStays ==
  ASSUME Owned, Grows, files' = files \/ \E c \in Calls : \E b, content : Stores(c, b, content)
  PROVE  Owned'
<1>1. DOMAIN files' = DOMAIN files /\ workspace' = workspace
  BY DEF Stores, Grows
<1>2. ASSUME NEW w \in DOMAIN files, NEW b \in DOMAIN files[w]
      PROVE  \E c \in Calls : call'[c].parent # Nobody /\ Generated(c)' = w /\ b \in Placed(c)'
  <2>1. PICK c \in Calls : call[c].parent # Nobody /\ Generated(c) = w /\ b \in Placed(c)
    BY <1>2 DEF Owned
  <2>2. call'[c].parent = call[c].parent /\ b \in Placed(c)'
    BY <2>1 DEF Grows
  <2>3. Generated(c)' = Generated(c)
    BY <1>1, <2>2 DEF Generated
  <2> QED BY <2>1, <2>2, <2>3
<1>3. CASE files' = files
  BY <1>1, <1>2, <1>3 DEF Owned
<1>4. ASSUME NEW c \in Calls, NEW k, NEW content, Stores(c, k, content) PROVE Owned'
  <2>1. call'[c].parent # Nobody /\ Generated(c)' = Generated(c) /\ k \in Placed(c)'
    BY <1>4 DEF Stores, Grows, Generated
  <2>2. ASSUME NEW w \in DOMAIN files, NEW b \in DOMAIN files'[w]
        PROVE  \E d \in Calls : call'[d].parent # Nobody /\ Generated(d)' = w /\ b \in Placed(d)'
    <3>1. b \in DOMAIN files[w] \/ (w = Generated(c) /\ b = k)
      BY <1>4, <2>2 DEF Stores
    <3> QED BY <1>2, <2>1, <3>1
  <2> QED BY <1>1, <2>2 DEF Owned
<1> QED BY <1>3, <1>4

LEMMA BasesStep ==
  ASSUME CallInv, CallInv', NEW c \in Calls, Bases(c), CallStep(c)
  PROVE  Bases(c)'
<1>1. Named(c)'
  BY DEF CallInv, NamesOK
<1>2. CASE Gets(c)
  <2>1. Placed(c)' = IF call'[c].name = <<>> THEN {} ELSE {call'[c].name}
    BY <1>2, PlacedGrows, NoCallIs DEF Gets, Takes, Opens, Copying
  <2> QED BY <1>1, <2>1 DEF Bases, Named, Draws
<1>3. CASE ~Gets(c) /\ ~Takes(c) /\ ~Opens(c) /\ Adds(c, {})
  BY <1>3 DEF Adds, Bases
<1>4. CASE Takes(c) /\ Adds(c, {NextSource(c).base})
  <2>1. call[c].at = "copying" /\ Left(c) # {} /\ alreadyUnder(NextSource(c), Generated(c))
    BY <1>4 DEF Takes, Copying
  <2>2. call[c].server = "mermaid" /\ NextSource(c).base = call[c].name
    BY <2>1, NextPath
  <2> QED BY <1>4, <2>2 DEF Adds, Bases
<1>5. CASE Opens(c) /\ Adds(c, {Target(c)})
  <2>1. call[c].at = "copying" /\ Left(c) # {} /\ ~alreadyUnder(NextSource(c), Generated(c))
    BY <1>5 DEF Opens, Copying
  <2>2. call[c].server # "mermaid" /\ Head(Target(c)) # "mermaid"
    BY <2>1, NextPath
  <2> QED BY <1>5, <2>2 DEF Adds, Bases
<1> QED BY <1>2, <1>3, <1>4, <1>5, PlacedGrows

\* A call that steps aside keeps its files.
LEMMA StoredStays ==
  ASSUME CallInv, CallInv', Owned, Grows, NEW c \in Calls, Bases(c)', NEW d \in Calls, d # c,
         Stored(d), call'[d] = call[d],
         files' = files \/ \E b, content : Stores(c, b, content)
  PROVE  Stored(d)'
<1>1. Generated(d)' = Generated(d)
  BY DEF Generated, Grows
<1>2. Used(d)' = Used(d) /\ Diagram(d)' = Diagram(d) /\ (Drawn(d)' <=> Drawn(d))
  BY <1>1 DEF Used, Diagram, Drawn, Direct
<1>3. \A b, what : Holds(d, b, what) => Holds(d, b, what)'
  BY <1>1, HoldsStays DEF CallInv
<1>4. ASSUME NEW p \in DOMAIN call'[d].mapping, Plain(d, p)
      PROVE  Holds(d, call[d].mapping[p], Original(d, p))'
  <2>1. Original(d, p)' = Original(d, p)
    BY <1>2 DEF Original
  <2>2. Holds(d, call[d].mapping[p], Original(d, p))
    BY <1>4 DEF Stored
  <2>3. PICK b, what : b = call[d].mapping[p] /\ what = Original(d, p)
    OBVIOUS
  <2>4. Holds(d, b, what)'
    BY <1>3, <2>2, <2>3
  <2> QED BY <2>1, <2>3, <2>4
<1>5. call[d].open # NoPath => Holds(d, call[d].open.base, Empty)'
  <2>1. PICK b : b = call[d].open.base
    OBVIOUS
  <2> QED BY <1>3, <2>1 DEF Stored
<1>6. ASSUME Drawn(d)
      PROVE  call[d].name \in DOMAIN files'[Generated(d)] /\ files'[Generated(d)][call[d].name] = Diagram(d)
  <2> DEFINE w == Generated(d)
             n == call[d].name
  <2>1. n \in DOMAIN files[w] /\ files[w][n] = Diagram(d)
    BY <1>6 DEF Stored
  <2>2. CASE files' = files
    BY <2>1, <2>2
  <2>3. ASSUME NEW b, NEW content, Stores(c, b, content)
        PROVE  n \in DOMAIN files'[w] /\ files'[w][n] = Diagram(d)
    <3>1. b \in Placed(c)' /\ NamesOK' /\ n # <<>> /\ Named(d)
      BY <1>6, <2>3 DEF Stores, CallInv, NamesOK, Drawn
    <3>2. b # n
      <4>1. CASE call'[c].server = "mermaid"
        BY <3>1, <4>1 DEF Bases, NamesOK
      <4>2. CASE call'[c].server # "mermaid"
        <5>1. Head(b) # "mermaid"
          BY <3>1, <4>2 DEF Bases
        <5>2. Head(n) = "mermaid"
          BY <3>1 DEF Named
        <5> QED BY <5>1, <5>2
      <4> QED BY <4>1, <4>2
    <3>3. CASE Generated(c) = w
      BY <2>1, <2>3, <3>2, <3>3 DEF Stores
    <3>4. CASE Generated(c) # w
      <4>1. w \in DOMAIN files
        <5>1. call[d].parent # Nobody
          <6>1. Called(d) /\ Draws(d) /\ Started(d)
            BY <1>6, <3>1 DEF CallInv, CallsOK, Named, Drawn, Started
          <6> QED BY <6>1, WorkspacesAssumption DEF Called, Draws
        <5> QED BY <5>1, GeneratedIs DEF Owned
      <4> QED BY <2>1, <2>3, <3>4, <4>1 DEF Stores
    <3> QED BY <3>3, <3>4
  <2> QED BY <2>2, <2>3
<1> QED BY <1>1, <1>2, <1>4, <1>5, <1>6 DEF Stored, Plain

\* What is copied is the host's file, or another call has a file of that name.
LEMMA StoredStep ==
  ASSUME CallInv, CallInv', FilesOK, Grows, NEW c \in Calls, CallStep(c), StoreCases(c)
  PROVE  Stored(c)'
<1>1. Sourced(c) /\ Called(c) /\ Named(c) /\ Stored(c) /\ Bases(c) /\ workspace' = workspace
  BY DEF CallInv, CallsOK, SourcesOK, NamesOK, FilesOK, Grows
<1>2. DOMAIN <<>> = {}
  OBVIOUS
<1>3. CASE Gets(c) \/ Refuses(c)
  <2>1. call'[c].mapping = <<>> /\ call'[c].open = NoPath /\ call'[c].at \in {"refused", "upstream", "failed"}
    BY <1>3, NoCallIs DEF Gets, Refuses, Sets, Fields
  <2> QED BY <1>2, <2>1 DEF Stored, Drawn
<1>4. ASSUME ~Gets(c), ~Refuses(c)
      PROVE  /\ Generated(c)' = Generated(c) /\ Diagram(c)' = Diagram(c) /\ call'[c].server = call[c].server
             /\ call'[c].name = call[c].name /\ call'[c].past = call[c].past
             /\ \A p : Original(c, p)' = Original(c, p) /\ (Plain(c, p)' <=> Plain(c, p))
  <2>1. /\ call'[c].server = call[c].server /\ call'[c].parent = call[c].parent
        /\ call'[c].name = call[c].name /\ call'[c].past = call[c].past
    BY <1>4, RequestStays
  <2>2. Generated(c)' = Generated(c)
    BY <1>1, <2>1 DEF Generated
  <2>3. Diagram(c)' = Diagram(c)
    BY <2>1, <2>2 DEF Diagram
  <2> QED BY <2>1, <2>2, <2>3 DEF Original, Plain
<1>5. ASSUME ~Gets(c), ~Refuses(c), NEW b, NEW what, Holds(c, b, what),
             files' = files \/ \E k, content : Stores(c, k, content) /\ k # b
      PROVE  Holds(c, b, what)'
  BY <1>4, <1>5, HoldsStays DEF CallInv
\* What is mapped stays, and what is stored now is none of it.
<1>6. ASSUME ~Gets(c), ~Refuses(c), files' = files \/ \E k, content : Stores(c, k, content) /\ k \notin Used(c),
             NEW p \in DOMAIN call[c].mapping, Plain(c, p), call'[c].mapping[p] = call[c].mapping[p]
      PROVE  Holds(c, call[c].mapping[p], Original(c, p))'
  <2>1. PICK b, what : b = call[c].mapping[p] /\ what = Original(c, p)
    OBVIOUS
  <2>2. Holds(c, b, what) /\ b \in Used(c)
    BY <1>1, <1>6, <2>1 DEF Stored, Used
  <2>3. Holds(c, b, what)'
    BY <1>5, <1>6, <2>2
  <2>4. Original(c, p)' = Original(c, p)
    BY <1>4, <1>6
  <2> QED BY <1>6, <2>1, <2>3, <2>4
\* What is open stays so, and what is stored now is not that.
<1>7. ASSUME ~Gets(c), ~Refuses(c), call[c].open # NoPath, call'[c].open = call[c].open, files' = files,
             call'[c].mapping = call[c].mapping
      PROVE  /\ call'[c].server # "mermaid" /\ call'[c].open.base \notin Used(c)'
             /\ Holds(c, call[c].open.base, Empty)'
  <2>1. Used(c)' = Used(c)
    BY <1>7 DEF Used
  <2>2. PICK b : b = call[c].open.base
    OBVIOUS
  <2>3. Holds(c, b, Empty)
    BY <1>1, <1>7, <2>2 DEF Stored
  <2>4. Holds(c, b, Empty)'
    BY <1>5, <1>7, <2>3
  <2> QED BY <1>1, <1>4, <1>7, <2>1, <2>2, <2>4 DEF Stored
\* A step that neither maps nor stores.
<1>8. ASSUME ~Gets(c), ~Refuses(c), files' = files, call'[c].mapping = call[c].mapping,
             call'[c].open = call[c].open, Drawn(c)' => Drawn(c)
      PROVE  Stored(c)'
  <2>1. \A p \in DOMAIN call'[c].mapping : Plain(c, p) => Holds(c, call[c].mapping[p], Original(c, p))'
    BY <1>6, <1>8
  <2>2. Drawn(c)' => /\ call'[c].name \in DOMAIN files'[Generated(c)]
                     /\ files'[Generated(c)][call'[c].name] = Diagram(c)
    BY <1>1, <1>4, <1>8 DEF Stored
  <2>3. call'[c].open # NoPath =>
          call'[c].server # "mermaid" /\ call'[c].open.base \notin Used(c)' /\ Holds(c, call[c].open.base, Empty)'
    BY <1>7, <1>8
  <2> QED BY <1>4, <1>8, <2>1, <2>2, <2>3 DEF Stored
<1>9. ASSUME NEW from, NEW to, Goes(c, from, to), from \in {"upstream", "produced", "copying"},
             \/ to = "failed"
             \/ from = "produced" /\ to = "copying"
             \/ to = "answered" /\ ~HasAdapter(call[c].server, call[c].tool)
      PROVE  Stored(c)'
  <2>1. /\ call'[c].mapping = call[c].mapping /\ call'[c].open = call[c].open /\ call'[c].name = call[c].name
        /\ files' = files /\ call'[c].sources = call[c].sources
    BY <1>9 DEF Goes, Sets, Fields
  <2>2. ~Gets(c) /\ ~Refuses(c)
    BY <1>9, NoCallIs DEF Goes, Gets, Refuses
  <2>3. Drawn(c)' => Drawn(c)
    BY <1>1, <1>9, <2>1 DEF Drawn, Goes, Named, Draws, Direct
  <2> QED BY <1>8, <2>1, <2>2, <2>3
<1>10. ASSUME NEW reported, Hears(c, reported) PROVE Stored(c)'
  <2>1. /\ ~Gets(c) /\ ~Refuses(c) /\ ~Opens(c) /\ ~Writes(c)
        /\ call[c].at = "upstream" /\ call'[c].at # "failed"
    BY <1>10, NoCallIs DEF Hears, Gets, Refuses, Opens, Writes, Copying
  <2>2. /\ call'[c].mapping = call[c].mapping /\ call'[c].open = call[c].open /\ call'[c].name = call[c].name
    BY <1>10 DEF Hears, Sets, Fields
  <2>3. CASE ~Draws(c)
    <3>1. files' = files /\ ~Drawn(c)'
      BY <1>1, <1>10, <2>1, <2>2, <2>3 DEF StoreCases, Named, Drawn
    <3> QED BY <1>8, <2>1, <2>2, <3>1
  <2>5. CASE Draws(c) /\ files' = files /\ ~Direct(c)'
    <3>1. ~Drawn(c)'
      BY <2>5 DEF Drawn
    <3> QED BY <1>8, <2>1, <2>2, <2>5, <3>1
  <2>4. CASE Draws(c) /\ ~(files' = files /\ ~Direct(c)')
    <3>1. Stores(c, call[c].name, Diagram(c))
      BY <2>1, <2>4 DEF StoreCases
    <3>2. call[c].mapping = <<>> /\ call[c].open = NoPath
      BY <1>1, <2>1 DEF Called
    <3>3. call'[c].name \in DOMAIN files'[Generated(c)] /\ files'[Generated(c)][call'[c].name] = Diagram(c)
      BY <2>2, <3>1 DEF Stores
    <3> QED BY <1>2, <1>4, <2>1, <2>2, <3>2, <3>3 DEF Stored
  <2> QED BY <2>3, <2>4, <2>5
<1>11. CASE Answers(c)
  <2>1. ~Gets(c) /\ ~Refuses(c) /\ files' = files
    BY <1>11, NoCallIs DEF Answers, Copying, Gets, Refuses
  <2>2. /\ call'[c].mapping = call[c].mapping /\ call'[c].open = call[c].open /\ call'[c].name = call[c].name
        /\ call'[c].sources = call[c].sources
    BY <1>11 DEF Answers, Sets, Fields
  <2>3. Drawn(c)' => Drawn(c)
    BY <1>11, <2>2 DEF Drawn, Answers, Copying, Direct
  <2> QED BY <1>8, <2>1, <2>2, <2>3
<1>12. CASE Takes(c)
  <2>0. PICK src : src = NextSource(c)
    OBVIOUS
  <2>1. /\ ~Gets(c) /\ ~Refuses(c) /\ files' = files /\ call[c].at = "copying" /\ Left(c) # {}
        /\ call[c].open = NoPath /\ alreadyUnder(src, Generated(c))
        /\ call'[c].mapping = Put(call[c].mapping, src, src.base)
    BY <1>12, <2>0, NoCallIs DEF Takes, Copying, Gets, Refuses
  <2>2. /\ call'[c].open = NoPath /\ call'[c].name = call[c].name /\ call'[c].at = "copying"
        /\ call'[c].sources = call[c].sources
    BY <1>12, <2>1 DEF Takes, Sets, Fields
  <2>3. /\ call[c].server = "mermaid" /\ src.base = call[c].name /\ HasAdapter(call[c].server, call[c].tool)
        /\ src \notin DOMAIN call[c].mapping /\ call[c].parent # Nobody
        /\ src.sub = "" => Direct(c)
    BY <2>0, <2>1, NextPath
  <2>4. Direct(c) => Drawn(c)
    BY <1>1, <2>1, <2>3 DEF Drawn, Named, Draws
  <2>5. Generated(c) \in DOMAIN files
    BY <2>3, GeneratedIs DEF FilesOK, Owned
  <2>6. PICK n : n = call[c].name
    OBVIOUS
  <2>7. Original(c, src) = Diagram(c)
    BY <2>3 DEF Original
  <2>8. Direct(c) => n \in DOMAIN files[Generated(c)] /\ files[Generated(c)][n] = Diagram(c)
    BY <1>1, <2>4, <2>6 DEF Stored
  <2>9. PICK what : what = Diagram(c)
    OBVIOUS
  <2>10. Direct(c) => Holds(c, n, what)
    BY <2>5, <2>8, <2>9 DEF Holds
  <2>11. Direct(c) => Holds(c, n, what)'
    BY <1>5, <2>1, <2>10
  <2>12. /\ DOMAIN call'[c].mapping = DOMAIN call[c].mapping \cup {src} /\ call'[c].mapping[src] = n
         /\ \A p \in DOMAIN call[c].mapping : call'[c].mapping[p] = call[c].mapping[p]
    BY <2>1, <2>3, <2>6 DEF Put
  <2>13. Plain(c, src) => Holds(c, call[c].mapping[src], Original(c, src))'
    <3>1. Original(c, src)' = what
      BY <1>4, <2>1, <2>3, <2>9 DEF Original
    <3>2. Plain(c, src) => Direct(c)
      BY <2>3 DEF Plain
    <3> QED BY <2>11, <2>12, <3>1, <3>2
  <2>14. \A p \in DOMAIN call'[c].mapping : Plain(c, p) => Holds(c, call[c].mapping[p], Original(c, p))'
    BY <1>6, <2>1, <2>12, <2>13
  <2>15. Drawn(c)' => /\ call'[c].name \in DOMAIN files'[Generated(c)]
                      /\ files'[Generated(c)][call'[c].name] = Diagram(c)
    <3>1. Drawn(c)' => Direct(c)
      BY <2>2 DEF Drawn, Direct
    <3> QED BY <2>1, <2>2, <2>6, <2>8, <3>1
  <2> QED BY <1>4, <2>1, <2>2, <2>14, <2>15 DEF Stored
<1>13. CASE Opens(c)
  <2>0. PICK b : b = Target(c)
    OBVIOUS
  <2>1. /\ ~Gets(c) /\ ~Refuses(c) /\ ~Writes(c) /\ call[c].at = "copying" /\ Left(c) # {}
        /\ call[c].open = NoPath /\ ~alreadyUnder(NextSource(c), Generated(c)) /\ call'[c].open.base = b
    <3>1. call[c].at = "copying" /\ call[c].open = NoPath
      BY <1>13 DEF Opens, Copying
    <3>2. Left(c) # {} /\ ~alreadyUnder(NextSource(c), Generated(c)) /\ call'[c].open.base = b
      BY <1>13, <2>0, PathInIs DEF Opens
    <3> QED BY <3>1, <3>2, NoCallIs DEF Gets, Refuses, Writes
  <2>2. call'[c].mapping = call[c].mapping /\ call'[c].name = call[c].name
    BY <1>13 DEF Opens, Sets, Fields
  <2>3. call[c].server # "mermaid" /\ b \notin Used(c)
    BY <2>0, <2>1, NextPath
  <2>4. Stores(c, b, Empty)
    BY <1>13, <2>0, <2>1 DEF StoreCases
  <2>5. \A p \in DOMAIN call'[c].mapping : Plain(c, p) => Holds(c, call[c].mapping[p], Original(c, p))'
    BY <1>6, <2>1, <2>2, <2>3, <2>4
  <2>6. Used(c)' = Used(c) /\ ~Drawn(c)'
    BY <1>1, <2>2, <2>3 DEF Used, Drawn, Named, Draws
  <2>7. Holds(c, b, Empty)'
    BY <1>4, <2>1, <2>4 DEF Stores, Holds
  <2> QED BY <1>4, <2>1, <2>3, <2>5, <2>6, <2>7 DEF Stored
<1>14. CASE Writes(c)
  <2>0. PICK b, src : b = call[c].open.base /\ src = NextSource(c)
    OBVIOUS
  <2>1. /\ ~Gets(c) /\ ~Refuses(c) /\ ~Opens(c) /\ call[c].at = "copying" /\ call[c].open # NoPath
        /\ call'[c].mapping = Put(call[c].mapping, src, b) /\ call'[c].open = NoPath
    BY <1>14, <2>0, NoCallIs DEF Writes, Copying, Gets, Refuses, Opens
  <2>2. Left(c) # {} /\ src \notin DOMAIN call[c].mapping
    BY <1>1, <2>0, <2>1, NextPath DEF Sourced
  <2>3. call[c].server # "mermaid" /\ b \notin Used(c) /\ Holds(c, b, Empty)
    BY <1>1, <2>0, <2>1 DEF Stored
  <2>4. PICK content : /\ Stores(c, b, content)
                       /\ files[Generated(c)][b] = Empty => content = FileFrom(src)
    BY <2>0, <2>1, <2>3, <1>14 DEF StoreCases, Opens, Writes
  <2>5. /\ DOMAIN call'[c].mapping = DOMAIN call[c].mapping \cup {src} /\ call'[c].mapping[src] = b
        /\ \A p \in DOMAIN call[c].mapping : call'[c].mapping[p] = call[c].mapping[p]
    BY <2>1, <2>2 DEF Put
  <2>6. ~Drawn(c)'
    BY <1>1, <1>4, <2>1, <2>3 DEF Drawn, Named, Draws
  <2>7. PICK what : what = FileFrom(src)
    OBVIOUS
  <2>8. Holds(c, b, what)'
    <3>1. b \in DOMAIN files'[Generated(c)] /\ Generated(c) \in DOMAIN files'
      BY <2>4 DEF Stores
    <3>2. CASE Contended(c, b)
      <4>1. Contended(c, b)'
        BY <1>4, <2>1, <3>2, ContendedStays
      <4> QED BY <1>4, <2>1, <3>1, <4>1 DEF Holds
    <3>3. CASE ~Contended(c, b)
      <4>1. files'[Generated(c)][b] = what
        BY <2>3, <2>4, <2>7, <3>3 DEF Holds, Stores
      <4> QED BY <1>4, <2>1, <3>1, <4>1 DEF Holds
    <3> QED BY <3>2, <3>3
  <2>9. Holds(c, call[c].mapping[src], Original(c, src))'
    <3>1. Original(c, src)' = what
      BY <1>4, <2>1, <2>3, <2>7 DEF Original
    <3> QED BY <2>5, <2>8, <3>1
  <2>10. \A p \in DOMAIN call[c].mapping : Plain(c, p) => Holds(c, call[c].mapping[p], Original(c, p))'
    BY <1>6, <2>1, <2>3, <2>4, <2>5
  <2> QED BY <1>4, <2>1, <2>5, <2>6, <2>9, <2>10 DEF Stored
<1> QED BY <1>3, <1>9, <1>10, <1>11, <1>12, <1>13, <1>14 DEF CallStep

LEMMA FilesStep == ASSUME CallInv, CallInv', FilesOK, [Next]_vars PROVE FilesOK'
<1>1. Grows
  BY AllGrow
<1>2. CASE call' = call /\ files' = files
  <2>1. workspace' = workspace
    BY <1>1 DEF Grows
  <2>2. Owned'
    BY <1>2, <2>1 DEF FilesOK, Owned, Placed, Used, Generated
  <2>3. ASSUME NEW c \in Calls PROVE Bases(c)' /\ Stored(c)'
    <3>1. Bases(c)'
      BY <1>2 DEF FilesOK, Bases, Placed, Used
    <3>2. \A b, what : Holds(c, b, what)' <=> Holds(c, b, what)
      BY <1>2, <2>1 DEF Holds, Contended, Placed, Used, Generated
    <3>3. /\ Diagram(c)' = Diagram(c) /\ Generated(c)' = Generated(c) /\ (Drawn(c)' <=> Drawn(c))
          /\ Used(c)' = Used(c)
      BY <1>2, <2>1 DEF Drawn, Direct, Used, Diagram, Generated
    <3>4. \A p : Original(c, p)' = Original(c, p) /\ (Plain(c, p)' <=> Plain(c, p))
      BY <1>2, <3>3 DEF Original, Plain
    <3>5. Stored(c)
      BY DEF FilesOK
    <3>6. ASSUME NEW p \in DOMAIN call[c].mapping, Plain(c, p) PROVE Holds(c, call[c].mapping[p], Original(c, p))'
      <4>1. PICK b, what : b = call[c].mapping[p] /\ what = Original(c, p)
        OBVIOUS
      <4>2. Holds(c, b, what)'
        BY <3>2, <3>5, <3>6, <4>1 DEF Stored
      <4>3. Original(c, p)' = what
        BY <3>4, <4>1
      <4> QED BY <1>2, <4>1, <4>2, <4>3
    <3>7. call[c].open # NoPath => Holds(c, call[c].open.base, Empty)'
      <4>1. PICK b : b = call[c].open.base
        OBVIOUS
      <4> QED BY <1>2, <3>2, <3>5, <4>1 DEF Stored
    <3>8. \A p \in DOMAIN call'[c].mapping : Plain(c, p)' => Holds(c, call[c].mapping[p], Original(c, p))'
      BY <1>2, <3>4, <3>6
    <3>9. Drawn(c)' => /\ call'[c].name \in DOMAIN files'[Generated(c)']
                       /\ files'[Generated(c)'][call'[c].name] = Diagram(c)'
      BY <1>2, <3>3, <3>5 DEF Stored
    <3>10. call'[c].open # NoPath =>
             call'[c].server # "mermaid" /\ call'[c].open.base \notin Used(c)' /\ Holds(c, call[c].open.base, Empty)'
      BY <1>2, <3>3, <3>5, <3>7 DEF Stored
    <3> QED BY <3>1, <3>8, <3>9, <3>10 DEF Stored
  <2> QED BY <2>2, <2>3 DEF FilesOK
<1>3. ASSUME NEW c \in Calls, CallStep(c) PROVE FilesOK'
  <2>1. StoreCases(c)
    BY <1>3, StepStores
  <2>2. files' = files \/ \E b, content : Stores(c, b, content)
    BY <2>1 DEF StoreCases
  <2>3. Owned'
    BY <1>1, <2>2, OwnedStays DEF FilesOK
  <2>4. Bases(c)'
    BY <1>3, BasesStep DEF FilesOK
  <2>5. Stored(c)'
    BY <1>1, <1>3, <2>1, StoredStep
  <2>6. ASSUME NEW d \in Calls, d # c PROVE Bases(d)' /\ Stored(d)'
    <3>1. call'[d] = call[d] /\ Bases(d) /\ Stored(d)
      BY <1>3, <2>6, OthersStay DEF FilesOK
    <3>2. Placed(d)' = Placed(d)
      BY <3>1, PlacedSame
    <3>3. Bases(d)'
      BY <3>1, <3>2 DEF Bases
    <3>4. Stored(d)'
      BY <1>1, <2>2, <2>4, <2>6, <3>1, StoredStays DEF FilesOK
    <3> QED BY <3>3, <3>4
  <2> QED BY <2>3, <2>4, <2>5, <2>6 DEF FilesOK
<1> QED BY <1>2, <1>3, StepCases DEF CallInv, CallsOK

LEMMA AlwaysFiles == Spec => [](CallInv /\ FilesOK)
<1>1. CallInv /\ FilesOK /\ [Next]_vars => FilesOK'
  BY CallInvStep, FilesStep
<1> QED BY AlwaysCallInv, InitFiles, <1>1, PTL DEF Spec

\* Whatever parent an agent claims to be, its calls act for itself, and the files they generate
\* are in the workspaces of their callers (handlerFor, parentFromHTTP, DeliveryDir).
THEOREM ActsForCallerHolds == Spec => []ActsForCaller
<1>1. CallInv /\ FilesOK => ActsForCaller
  <2> SUFFICES ASSUME CallInv, FilesOK PROVE ActsForCaller
    OBVIOUS
  <2>1. \A c \in Calls : call[c].parent # Nobody => call[c].parent = call[c].by
    BY GeneratedIs
  <2>2. ASSUME NEW w \in DOMAIN files, NEW b \in DOMAIN files[w]
        PROVE  \E c \in Calls : call[c].by # Nobody /\ workspace[call[c].by] = w /\ b \in Placed(c)
    <3>1. PICK c \in Calls : call[c].parent # Nobody /\ Generated(c) = w /\ b \in Placed(c)
      BY <2>2 DEF FilesOK, Owned
    <3> QED BY <2>1, <3>1 DEF Generated
  <2> QED BY <2>1, <2>2 DEF ActsForCaller
<1> QED BY <1>1, AlwaysFiles, PTL

\* What the rewriting may make of a path that an adapter reads: its place in the sandbox, or
\* where that can be missed the path itself, or a spoiled one.
LEMMA RewriteIs ==
  ASSUME NEW n, NEW m, Reads(n, m), NEW mapping, NEW p \in Rewrite(n, m, mapping)
  PROVE  /\ \/ m.path \in DOMAIN mapping /\ p = Sandboxed(mapping[m.path])
            \/ p \in {m.path, Garbled}
         /\ m.path \in DOMAIN mapping =>
              \/ p = Sandboxed(mapping[m.path])
              \/ ~(n = "assets" /\ m.at = "structured") /\ \E host \in DOMAIN mapping : <<host, m.path>> \in Within
<1>1. ASSUME p \in ReplacedIn(m.path, mapping)
      PROVE  /\ \/ m.path \in DOMAIN mapping /\ p = Sandboxed(mapping[m.path])
                \/ p \in {m.path, Garbled}
             /\ m.path \in DOMAIN mapping =>
                  \/ p = Sandboxed(mapping[m.path])
                  \/ \E host \in DOMAIN mapping : <<host, m.path>> \in Within
  BY <1>1 DEF ReplacedIn
<1>2. CASE n = "mermaid"
  <2>1. m.at = "text" /\ p \in ReplacedIn(m.path, mapping)
    BY <1>2 DEF Reads, mermaidReads, Rewrite, mermaidRewrite
  <2> QED BY <1>1, <1>2, <2>1
<1>3. CASE n = "image-gen-mcp"
  <2>1. m.scheme = "file" /\ p \in imageGenRewrite(m, mapping)
    BY <1>3 DEF Reads, imageGenReads, Rewrite
  <2>2. p \in ReplacedIn(m.path, mapping)
    BY <2>1 DEF imageGenRewrite
  <2> QED BY <1>1, <1>3, <2>2
<1>4. CASE n = "assets"
  <2>1. m.scheme = "" /\ p \in assetsRewrite(m, mapping)
    BY <1>4 DEF Reads, assetsReads, Rewrite
  <2>2. CASE m.at = "text"
    <3>1. p \in ReplacedIn(m.path, mapping)
      BY <2>1, <2>2 DEF assetsRewrite
    <3> QED BY <1>1, <2>2, <3>1
  <2>3. CASE m.at # "text"
    BY <2>1, <2>3 DEF assetsRewrite
  <2> QED BY <2>2, <2>3
<1> QED BY <1>2, <1>3, <1>4 DEF Reads

\* Each mention of an answer is what the rewriting may make of the mention reported.
LEMMA AnswerOf ==
  ASSUME NEW n, NEW reported, NEW mapping, NEW answer \in RewriteResult(n, reported, mapping),
         NEW i \in DOMAIN reported, DOMAIN reported[i] = {"at", "scheme", "path"}
  PROVE  answer[i].path \in Rewrite(n, reported[i], mapping)
<1>1. PICK m : m = reported[i]
  OBVIOUS
<1>2. PICK p \in Rewrite(n, m, mapping) :
        answer[i] = [m EXCEPT !.path = p, !.scheme = IF n = "image-gen-mcp" /\ p # m.path THEN "" ELSE @]
  BY <1>1 DEF RewriteResult
<1>3. DOMAIN m = {"at", "scheme", "path"}
  BY <1>1
<1>4. answer[i].path = p
  BY <1>2, <1>3
<1> QED BY <1>1, <1>2, <1>4

\* The files that answers name are the files that the upstreams made for them; what a call that
\* was over has left is not in the way of it, and diagrams stay for good (fileGenHandler,
\* Deliver, RewriteResult).
THEOREM AnswersAreTrueHolds == Spec => []AnswersAreTrue
<1>1. CallInv /\ FilesOK => AnswersAreTrue
  <2> SUFFICES ASSUME CallInv, FilesOK PROVE AnswersAreTrue
    OBVIOUS
  <2>1. DiagramsKept
    BY DEF FilesOK, Stored, Drawn, DiagramsKept
  <2>2. ASSUME NEW c \in Delivered, NEW i \in DOMAIN call[c].reported, NEW told, NEW got,
               told = call[c].reported[i], got = call[c].answer[i].path,
               Reads(call[c].server, told), told.path.dir = Generated(c) => told.path.sub = "",
               Legible(c, told) \/ got \notin {told.path, Garbled}
        PROVE  /\ got.dir = "/workspace/generated" /\ got.base \in DOMAIN files[Generated(c)]
               /\ Contended(c, got.base) \/ files[Generated(c)][got.base] = Original(c, told.path)
    <3> DEFINE n == call[c].server
               mapping == call[c].mapping
    <3>1. /\ c \in Calls /\ call[c].at = "answered" /\ DOMAIN call[c].sources # {}
          /\ Sourced(c) /\ Paths(c) /\ Stored(c)
      BY DEF Delivered, CallInv, SourcesOK, PathsOK, FilesOK
    <3>2. call[c].sources = ExtractHostPaths(n, call[c].reported) /\ IsSequence(call[c].reported)
      BY <3>1 DEF Sourced
    <3>3. told.path \in ToSet(call[c].sources)
      BY <2>2, <3>2, ExtractIs
    <3>4. call[c].answer \in RewriteResult(n, call[c].reported, mapping) /\ Left(c) = {}
      BY <3>1 DEF Paths
    <3>5. Clean(told.path) \in DOMAIN mapping
      BY <3>3, <3>4 DEF Left, ToSet
    <3>6. got \in Rewrite(n, told, mapping)
      <4>1. DOMAIN call[c].reported[i] = {"at", "scheme", "path"}
        BY <3>1 DEF Paths, ToSet
      <4> HIDE DEF n, mapping
      <4> QED BY <2>2, <3>4, <4>1, AnswerOf
    <3>7. told.path \in DOMAIN mapping /\ got = Sandboxed(mapping[told.path])
      <4>1. CASE Legible(c, told)
        <5>1. told.path \in DOMAIN mapping
          BY <3>5, <4>1 DEF Legible
        <5>2. \/ n = "assets" /\ told.at = "structured"
              \/ ~\E host \in DOMAIN mapping : <<host, told.path>> \in Within
          BY <3>1, <4>1 DEF Legible, Sourced
        <5> HIDE DEF n, mapping
        <5>3. Reads(n, told)
          BY <2>2 DEF n
        <5> QED BY <3>6, <5>1, <5>2, <5>3, RewriteIs
      <4>2. CASE got \notin {told.path, Garbled}
        <5>1. Reads(n, told)
          BY <2>2
        <5> HIDE DEF n, mapping
        <5> QED BY <3>6, <4>2, <5>1, RewriteIs
      <4> QED BY <2>2, <4>1, <4>2
    <3>8. got.dir = "/workspace/generated" /\ got.base = mapping[told.path]
      <4> HIDE DEF mapping
      <4> QED BY <3>7 DEF Sandboxed, PathIn
    <3>9. Plain(c, told.path)
      BY <2>2, <3>1, <3>3 DEF Paths, Plain
    <3>10. Holds(c, mapping[told.path], Original(c, told.path))
      BY <3>1, <3>7, <3>9 DEF Stored
    <3> QED BY <3>8, <3>10 DEF Holds
  <2>3. AnswersHold
    BY <2>2 DEF AnswersHold
  <2> QED BY <2>1, <2>3 DEF AnswersAreTrue
<1> QED BY <1>1, AlwaysFiles, PTL

-------------------------------------------------------------------------------
(* Types *)

Runnable == run \in [Runs -> {"none", "live", "ended"}]

\* Calls are made in turn, and no more diagrams are numbered than calls made.
Counted == \E k \in 0..MaxCalls : mermaidSeq <= k /\ \A c \in Calls : call[c].at # "none" <=> c <= k

LEMMA RunStays == ASSUME AggInv, Shape, Runnable, [Next]_vars PROVE Runnable'
<1>1. CASE UNCHANGED vars
  BY <1>1 DEF vars, runVars, Runnable
<1>2. CASE AggNext
  BY <1>2 DEF AggNext, NewAggregator, registerUpstream, Start, SetMCPWiring, Shutdown, runVars, Runnable
<1>3. CASE \E r \in Runs : Register(r) \/ Deregister(r)
  <2>1. PICK r \in Runs, s \in {"live", "ended"} : run' = [run EXCEPT ![r] = s]
    BY <1>3 DEF Register, Deregister
  <2> QED BY <2>1 DEF Runnable
<1>4. CASE AgentCalls
  <2>1. \A c \in Calls, r \in Runs, i \in DOMAIN MCPServers, t \in Tools, sent \in Runs \cup {Nobody} :
          CallTool(c, r, i, t, sent) => run' = run
    BY DEF CallTool, runVars
  <2>2. run' = run
    BY <1>4, <2>1, Zenon DEF AgentCalls
  <2> QED BY <2>2 DEF Runnable
<1>5. CASE \E c \in Calls : UpstreamAnswers(c) \/ Deliver(c) \/ DeliverNext(c) \/ copyFile(c) \/ Answer(c)
  <2>1. run' = run
    <3>1. \A c \in Calls : UpstreamAnswers(c) => run' = run
      BY DEF UpstreamAnswers, runVars
    <3>2. \A c \in Calls : Deliver(c) => run' = run
      BY DEF Deliver, runVars
    <3>3. \A c \in Calls : DeliverNext(c) => run' = run
      BY DEF DeliverNext, runVars
    <3>4. \A c \in Calls : copyFile(c) => run' = run
      BY DEF copyFile, runVars
    <3>5. \A c \in Calls : Answer(c) => run' = run
      BY DEF Answer, runVars
    <3> QED BY <1>5, <3>1, <3>2, <3>3, <3>4, <3>5
  <2> QED BY <2>1 DEF Runnable
<1> QED BY <1>1, <1>2, <1>3, <1>4, <1>5 DEF Next, AggNext

LEMMA UpToNext == \A d, k \in Nat : d # k + 1 => (d <= k + 1 <=> d <= k)
OBVIOUS

LEMMA CountedStep == ASSUME CallInv, Counted, [Next]_vars PROVE Counted'
<1>1. PICK k \in 0..MaxCalls : mermaidSeq <= k /\ \A c \in Calls : call[c].at # "none" <=> c <= k
  BY DEF Counted
<1>2. MaxCalls \in Nat /\ mermaidSeq \in Nat /\ Calls = 1..MaxCalls
  BY GatewayBounds DEF CallInv, NamesOK, Calls
<1>3. CASE call' = call /\ mermaidSeq' = mermaidSeq
  BY <1>1, <1>3 DEF Counted
<1>4. ASSUME NEW c \in Calls, Refuses(c) \/ Gets(c), c > 1 => call[c - 1] # NoCall PROVE Counted'
  <2>1. call[c] = NoCall /\ call'[c].at # "none"
    BY <1>4 DEF Refuses, Gets
  <2>2. \A d \in Calls : d # c => call'[d] = call[d]
    BY <1>4 DEF Refuses, Gets, Sets
  <2>3. mermaidSeq' \in {mermaidSeq, mermaidSeq + 1}
    BY <1>4 DEF Refuses, Gets
  <2>4. ~(c <= k)
    BY <1>1, <2>1, NoCallIs
  <2>5. c > 1 => c - 1 <= k
    <3>1. ASSUME c > 1 PROVE c - 1 <= k
      <4>1. c - 1 \in Calls
        BY <1>2, <3>1
      <4>2. call[c - 1].at # "none"
        BY <1>4, <3>1, <4>1 DEF CallInv, CallsOK, Called
      <4> QED BY <1>1, <4>1, <4>2
    <3> QED BY <3>1
  <2>6. c = k + 1 /\ k + 1 \in 0..MaxCalls
    BY <1>2, <2>4, <2>5
  <2>7. mermaidSeq' <= k + 1
    BY <1>1, <1>2, <2>3
  <2>8. ASSUME NEW d \in Calls PROVE call'[d].at # "none" <=> d <= k + 1
    <3>1. CASE d = c
      BY <1>2, <2>1, <2>6, <3>1
    <3>2. CASE d # c
      <4>1. d \in Nat /\ k \in Nat /\ d # k + 1
        BY <1>2, <2>6, <3>2
      <4>2. d <= k + 1 <=> d <= k
        BY <4>1, UpToNext
      <4> QED BY <1>1, <2>2, <3>2, <4>2
    <3> QED BY <3>1, <3>2
  <2> QED BY <2>6, <2>7, <2>8 DEF Counted
<1>5. ASSUME NEW c \in Calls, CallStep(c), ~Refuses(c), ~Gets(c) PROVE Counted'
  <2>1. mermaidSeq' = mermaidSeq
    BY <1>5, RequestStays
  <2>2. \A d \in Calls : d # c => call'[d] = call[d]
    BY <1>5, OthersStay
  <2>3. call[c].at # "none"
    BY <1>5 DEF CallStep, Goes, Hears, Takes, Opens, Writes, Answers, Copying
  <2>4. call'[c].at # "none"
    <3>1. CASE Takes(c) \/ Opens(c) \/ Writes(c)
      <4>1. \A F \in {{"mapping"}, {"open"}, {"mapping", "open"}} : Sets(c, F) => call'[c].at = call[c].at
        BY DEF Sets, Fields
      <4> QED BY <2>3, <3>1, <4>1 DEF Takes, Opens, Writes
    <3>2. CASE ~Takes(c) /\ ~Opens(c) /\ ~Writes(c)
      BY <1>5, <3>2 DEF CallStep, Goes, Hears, Answers
    <3> QED BY <3>1, <3>2
  <2> QED BY <1>1, <2>1, <2>2, <2>3, <2>4 DEF Counted
<1>6. ASSUME NEW c \in Calls, CallStep(c) PROVE Counted'
  <2>1. CASE Refuses(c) \/ Gets(c)
    <3>1. call[c].at = "none"
      BY <2>1, NoCallIs DEF Refuses, Gets
    <3>2. c > 1 => call[c - 1] # NoCall
      BY <1>6, <3>1 DEF CallStep, Goes, Hears, Takes, Opens, Writes, Answers, Copying
    <3> QED BY <1>4, <2>1, <3>2
  <2>2. CASE ~Refuses(c) /\ ~Gets(c)
    BY <1>5, <1>6, <2>2
  <2> QED BY <2>1, <2>2
<1> QED BY <1>3, <1>6, StepCases DEF CallInv, CallsOK

LEMMA InitTypes == Init => Runnable /\ Counted
<1> SUFFICES ASSUME Init PROVE Runnable /\ Counted
  OBVIOUS
<1>1. run = [r \in Runs |-> "none"] /\ mermaidSeq = 0 /\ \A c \in Calls : call[c] = NoCall
  BY DEF Init
<1>2. Calls = 1..MaxCalls /\ 0 \in 0..MaxCalls
  BY GatewayBounds DEF Calls
<1>3. PICK k \in 0..MaxCalls : k = 0
  BY <1>2
<1>4. mermaidSeq <= k /\ \A c \in Calls : call[c].at # "none" <=> c <= k
  <2>1. \A c \in Calls : call[c].at = "none"
    BY <1>1, NoCallIs
  <2>2. \A c \in Calls : ~(c <= k)
    BY <1>2, <1>3, GatewayBounds
  <2>3. mermaidSeq <= k
    BY <1>1, <1>3
  <2> QED BY <2>1, <2>2, <2>3
<1>5. Counted
  BY <1>4 DEF Counted
<1>6. Runnable
  BY <1>1 DEF Runnable
<1> QED BY <1>5, <1>6

\* The variables keep their types; a call delivers each path it read once, and places only those
\* (ExtractHostPaths, Deliver).
THEOREM TypeCorrect == Spec => []TypeOK
<1>1. CallInv /\ Runnable /\ Counted => TypeOK
  <2> SUFFICES ASSUME CallInv, Runnable, Counted PROVE TypeOK
    OBVIOUS
  <2>1. /\ agg \in {"new", "starting", "listening", "serving", "off", "closed", "panicked"}
        /\ todo \in Seq(NamesOf(specs)) /\ DOMAIN catalogue = DOMAIN mux
    BY DEF CallInv, AggInv, Mounted
  <2>2. ToSet(todo) \subseteq {s.name : s \in specs}
    BY <2>1 DEF ToSet, NamesOf
  <2>3. DOMAIN mux \subseteq ToSet(Alphabet)
    BY ServersAreNames DEF CallInv, Names
  <2>4. ToSet(MCPServers) \subseteq DOMAIN catalogue
    BY <2>1, WiredServers DEF CallInv, ToSet
  <2>5. mermaidSeq \in 0..MaxCalls
    BY GatewayBounds DEF Counted, CallInv, NamesOK
  <2>6. ASSUME NEW c \in Calls
        PROVE  /\ call[c].at \in {"none", "refused", "upstream", "failed", "produced", "copying", "answered"}
               /\ {call[c].by, call[c].parent} \subseteq Runs \cup {Nobody}
               /\ IsInjective(call[c].sources)
               /\ DOMAIN call[c].mapping \subseteq {Clean(p) : p \in ToSet(call[c].sources)}
    <3>1. Called(c) /\ Sourced(c)
      BY DEF CallInv, CallsOK, SourcesOK
    <3> QED BY <3>1, SourcesAre DEF Called, Sourced
  <2>7. workspace \in Workspaces
    BY DEF CallInv, SourcesOK
  <2> QED BY <2>1, <2>2, <2>3, <2>4, <2>5, <2>6, <2>7 DEF TypeOK, Runnable
<1>2. CallInv /\ Runnable /\ Counted /\ [Next]_vars => (Runnable /\ Counted)'
  BY RunStays, CountedStep DEF CallInv, CallsOK
<1> QED BY <1>1, <1>2, AlwaysCallInv, InitTypes, PTL DEF Spec
==============================================================================
