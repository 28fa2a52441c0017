--------------------------- MODULE StartupProofs ---------------------------
(* Theorems about MCStartup, for any environments, .env files, requests and *)
(* chat that its assumptions allow, however long their lists are.           *)
EXTENDS MCStartup, ListFacts

-----------------------------------------------------------------------------
(* Requests                                                                 *)

(* The operators of the instances are those of the modules they instantiate. *)
LEMMA SameLists ==
  /\ Q!Blank = Blank /\ B!Blank = Blank /\ Q!Settings = Settings
  /\ \A list, i : Q!Entry(list, i) = Entry(list, i) /\ B!Entry(list, i) = Entry(list, i)
  /\ \A e, settings : Q!Pairs(e, settings) = Pairs(e, settings)
  /\ \A values : Q!DistinctParts(values) = DistinctParts(values)
  /\ \A values : B!DistinctParts(values) = DistinctParts(values)
  /\ \A ts, I : Q!Select(ts, I) = Select(ts, I) /\ B!Select(ts, I) = Select(ts, I)
  /\ \A value : Q!normalizeTargetTransport(value) = normalizeTargetTransport(value)
  /\ \A value : B!normalizeTargetTransport(value) = normalizeTargetTransport(value)
  /\ \A ts : Q!ToSet(ts) = ToSet(ts) /\ B!ToSet(ts) = ToSet(ts)
  /\ \A ts : Q!Refs(ts) = Refs(ts) /\ B!Refs(ts) = Refs(ts)
  /\ \A S : Q!Max(S) = Max(S) /\ B!Max(S) = Max(S)
BY DEF Q!Blank, B!Blank, Blank, Q!Settings, Settings, Q!Pairs, Pairs, Q!Entry, B!Entry, Entry,
       Q!DistinctParts, B!DistinctParts, DistinctParts, Q!FlattenSeq, B!FlattenSeq, FlattenSeq,
       Q!Select, B!Select, Select, Q!normalizeTargetTransport, B!normalizeTargetTransport,
       normalizeTargetTransport, Q!ToSet, B!ToSet, ToSet, Q!Refs, B!Refs, Refs, Q!Max, B!Max, Max

LEMMA SameCommander ==
  /\ \A e : Q!FromEnv(e) = FromEnv(e) /\ B!FromEnv(e) = FromEnv(e)
  /\ \A cfg : Q!NewDockerCommander(cfg) = NewDockerCommander(cfg)
  /\ \A cfg : B!NewDockerCommander(cfg) = NewDockerCommander(cfg)
<1>1. \A e : Q!FromEnv(e) = FromEnv(e) /\ B!FromEnv(e) = FromEnv(e)
  BY SameLists DEF Q!FromEnv, B!FromEnv, FromEnv, Q!parseDelimitedList, B!parseDelimitedList,
                   parseDelimitedList
<1>2. /\ \A values : /\ Q!normalizeContainerRefs(values) = normalizeContainerRefs(values)
                     /\ B!normalizeContainerRefs(values) = normalizeContainerRefs(values)
      /\ \A t : /\ Q!normalizeConfiguredConnectionTransport(t)
                     = normalizeConfiguredConnectionTransport(t)
                /\ B!normalizeConfiguredConnectionTransport(t)
                     = normalizeConfiguredConnectionTransport(t)
  BY SameLists DEF Q!normalizeContainerRefs, B!normalizeContainerRefs, normalizeContainerRefs,
       Q!normalizeConfiguredConnectionTransport, B!normalizeConfiguredConnectionTransport,
       normalizeConfiguredConnectionTransport
<1>5. ASSUME NEW a, NEW b, NEW c, NEW d
      PROVE  /\ Q!buildDefaultRCONTargets(a, b, c, d) = buildDefaultRCONTargets(a, b, c, d)
             /\ B!buildDefaultRCONTargets(a, b, c, d) = buildDefaultRCONTargets(a, b, c, d)
  <2>1. Q!buildDefaultRCONTargets(a, b, c, d) = buildDefaultRCONTargets(a, b, c, d)
    BY SameLists, <1>2, Zenon DEF Q!buildDefaultRCONTargets, buildDefaultRCONTargets
  <2>2. B!buildDefaultRCONTargets(a, b, c, d) = buildDefaultRCONTargets(a, b, c, d)
    BY SameLists, <1>2, Zenon DEF B!buildDefaultRCONTargets, buildDefaultRCONTargets
  <2> QED  BY <2>1, <2>2
<1>3. \A a, b :
        /\ Q!buildDefaultBroadcastTargets(a, b) = buildDefaultBroadcastTargets(a, b)
        /\ B!buildDefaultBroadcastTargets(a, b) = buildDefaultBroadcastTargets(a, b)
  BY SameLists DEF Q!buildDefaultBroadcastTargets, B!buildDefaultBroadcastTargets,
       buildDefaultBroadcastTargets, Q!normalizeContainerRefs, B!normalizeContainerRefs,
       normalizeContainerRefs
<1>4. \A ts : /\ Q!buildBroadcastTargetLookup(ts) = buildBroadcastTargetLookup(ts)
              /\ B!buildBroadcastTargetLookup(ts) = buildBroadcastTargetLookup(ts)
  BY SameLists DEF Q!buildBroadcastTargetLookup, B!buildBroadcastTargetLookup,
       buildBroadcastTargetLookup
<1> QED  BY <1>1, <1>5, <1>3, <1>4 DEF Q!NewDockerCommander, B!NewDockerCommander, NewDockerCommander

LEMMA SameResolution ==
  /\ \A d, q, g : Q!resolveTargets(d, q, g) = resolveTargets(d, q, g)
  /\ \A d, q : Q!resolveBroadcastTargets(d, q) = resolveBroadcastTargets(d, q)
  /\ \A d, q : B!resolveBroadcastTargets(d, q) = resolveBroadcastTargets(d, q)
  /\ \A d, q : Q!resolveCommandTargets(d, q) = resolveCommandTargets(d, q)
<1>1. \A ts : /\ Q!buildBroadcastTargetLookup(ts) = buildBroadcastTargetLookup(ts)
              /\ B!buildBroadcastTargetLookup(ts) = buildBroadcastTargetLookup(ts)
  BY SameLists DEF Q!buildBroadcastTargetLookup, B!buildBroadcastTargetLookup,
       buildBroadcastTargetLookup
<1>2. \A c, r :
        /\ Q!mergeDefaultTargetsPreferRCON(c, r) = mergeDefaultTargetsPreferRCON(c, r)
        /\ B!mergeDefaultTargetsPreferRCON(c, r) = mergeDefaultTargetsPreferRCON(c, r)
  BY SameLists, <1>1 DEF Q!mergeDefaultTargetsPreferRCON, B!mergeDefaultTargetsPreferRCON,
       mergeDefaultTargetsPreferRCON
<1>3. \A t, g : Q!WithGame(t, g) = WithGame(t, g) /\ B!WithGame(t, g) = WithGame(t, g)
  BY SameLists DEF Q!WithGame, B!WithGame, WithGame
<1>4. \A t, q : /\ Q!WithCredentials(t, q) = WithCredentials(t, q)
                /\ B!WithCredentials(t, q) = WithCredentials(t, q)
  BY SameLists DEF Q!WithCredentials, B!WithCredentials, WithCredentials
<1>5. ASSUME NEW refs, NEW g, NEW q, NEW c, NEW r
      PROVE  /\ Q!buildTargetsForRefs(refs, g, q, c, r) = buildTargetsForRefs(refs, g, q, c, r)
             /\ B!buildTargetsForRefs(refs, g, q, c, r) = buildTargetsForRefs(refs, g, q, c, r)
  <2>1. Q!buildTargetsForRefs(refs, g, q, c, r) = buildTargetsForRefs(refs, g, q, c, r)
    BY SameLists, <1>3, <1>4, Zenon DEF Q!buildTargetsForRefs, buildTargetsForRefs
  <2>2. B!buildTargetsForRefs(refs, g, q, c, r) = buildTargetsForRefs(refs, g, q, c, r)
    BY SameLists, <1>3, <1>4, Zenon DEF B!buildTargetsForRefs, buildTargetsForRefs
  <2> QED  BY <2>1, <2>2
<1>6. \A d, q, g : /\ Q!resolveTargets(d, q, g) = resolveTargets(d, q, g)
                   /\ B!resolveTargets(d, q, g) = resolveTargets(d, q, g)
  BY SameLists, <1>2, <1>3, <1>5 DEF Q!resolveTargets, B!resolveTargets, resolveTargets,
       Q!normalizeContainerRefs, B!normalizeContainerRefs, normalizeContainerRefs
<1>7. \A ts, t : /\ Q!filterTargetsByTransport(ts, t) = filterTargetsByTransport(ts, t)
                 /\ B!filterTargetsByTransport(ts, t) = filterTargetsByTransport(ts, t)
  BY SameLists DEF Q!filterTargetsByTransport, B!filterTargetsByTransport, filterTargetsByTransport
<1> QED  BY SameLists, <1>6, <1>7 DEF Q!resolveBroadcastTargets, B!resolveBroadcastTargets,
              resolveBroadcastTargets, Q!resolveCommandTargets, resolveCommandTargets

(* A request's targets are those of the last query, resolved by the          *)
(* commander that the environment asks for.                                 *)
RequestInv ==
  part = "requests" =>
    /\ env \in Envs /\ commander = NewDockerCommander(FromEnv(env)) /\ query \in Queries
    /\ \/ resolved = <<>>
       \/ resolved = resolveBroadcastTargets(commander, query)
       \/ resolved = resolveCommandTargets(commander, query)

LEMMA Requests == Spec => []RequestInv
<1>1. Init => RequestInv
  BY SameCommander DEF Init, Q!Init, RequestInv
<1>2. RequestInv /\ [Next]_vars => RequestInv'
  <2> SUFFICES ASSUME RequestInv, [Next]_vars, part' = "requests" PROVE RequestInv'
    BY DEF RequestInv
  <2>1. CASE UNCHANGED vars
    BY <2>1 DEF vars, resolving, RequestInv
  <2>2. CASE Next
    <3>1. part = "requests" /\ Q!Next
      BY <2>2 DEF Next
    <3>2. PICK q \in Queries : Q!Broadcast(q) \/ Q!Send(q)
      BY <3>1 DEF Q!Next
    <3>3. UNCHANGED <<env, commander>> /\ query' = q
      BY <3>2 DEF Q!Broadcast, Q!Send
    <3>4. \/ resolved' = resolveBroadcastTargets(commander, q)
          \/ resolved' = resolveCommandTargets(commander, q)
      BY <3>2, SameResolution DEF Q!Broadcast, Q!Send
    <3> QED  BY <3>1, <3>3, <3>4 DEF RequestInv
  <2> QED  BY <2>1, <2>2
<1> QED  BY <1>1, <1>2, PTL DEF Spec

LEMMA QueryTyped ==
  ASSUME NEW q \in Queries
  PROVE  q \in QuerySpace /\ IsQuery(q)
BY QueryAssumption DEF QuerySpace, IsQuery, Texts

(* What a request resolves to: a list of targets, each served the way the    *)
(* configuration or the request says.                                       *)
LEMMA ResolvedFacts ==
  ASSUME part = "requests", RequestInv
  PROVE  /\ Pairs(env, Settings) /\ WellBuilt(commander)
         /\ TargetList(resolved) /\ \A i \in DOMAIN resolved : Served(commander, query, resolved[i])
<1>1. /\ env \in Envs /\ commander = NewDockerCommander(FromEnv(env)) /\ query \in Queries
      /\ \/ resolved = <<>>
         \/ resolved = resolveBroadcastTargets(commander, query)
         \/ resolved = resolveCommandTargets(commander, query)
  BY DEF RequestInv
<1>2. Pairs(env, Settings)
  BY <1>1, EnvAssumption, SameLists
<1>3. WellBuilt(commander)
  BY <1>1, <1>2, CommanderFacts
<1>4. IsQuery(query) /\ query.game \in Texts /\ Blank \in Texts
  BY <1>1, QueryTyped DEF Texts, IsQuery
<1>5. CASE resolved = <<>>
  BY <1>2, <1>3, <1>5 DEF TargetList, DistinctRefs
<1>6. CASE resolved = resolveCommandTargets(commander, query)
  BY <1>2, <1>3, <1>4, <1>6, ResolveFacts DEF resolveCommandTargets
<1>7. CASE resolved = resolveBroadcastTargets(commander, query)
  <2> DEFINE ts == resolveTargets(commander, query, query.game)
  <2>1. TargetList(ts) /\ \A i \in DOMAIN ts : Served(commander, query, ts[i])
    BY <1>3, <1>4, ResolveFacts
  <2>2. \/ resolved = ts
        \/ resolved = filterTargetsByTransport(ts, normalizeTargetTransport(query.transport))
    BY <1>7 DEF resolveBroadcastTargets
  <2> HIDE DEF ts
  <2>3. CASE resolved = ts
    BY <1>2, <1>3, <2>1, <2>3
  <2>4. CASE resolved = filterTargetsByTransport(ts, normalizeTargetTransport(query.transport))
    <3>1. TargetList(resolved) /\ \A k \in DOMAIN resolved : \E i \in DOMAIN ts : resolved[k] = ts[i]
      BY <2>1, <2>4, FilterFacts
    <3> QED  BY <1>2, <1>3, <2>1, <3>1
  <2> QED  BY <2>2, <2>3, <2>4
<1> QED  BY <1>1, <1>5, <1>6, <1>7

(* No container is targeted twice by one request, whatever the environment   *)
(* and the request (resolveBroadcastTargets, resolveCommandTargets).         *)
THEOREM EachContainerOnceHolds == Spec => []EachContainerOnce
<1>1. RequestInv => EachContainerOnce
  <2> SUFFICES ASSUME RequestInv, part = "requests" PROVE Q!EachContainerOnce
    BY DEF EachContainerOnce
  <2>1. DistinctRefs(resolved)
    BY ResolvedFacts DEF TargetList
  <2> QED  BY <2>1 DEF DistinctRefs, Q!EachContainerOnce, Q!IsInjective
<1> QED  BY <1>1, Requests, PTL

(* Naming the default containers one by one gives the targets that naming    *)
(* none gives, with the address and password of the request, which a request *)
(* that names none gives in vain: the lookup maps agree with the merged      *)
(* default lists.                                                            *)
THEOREM NamingDefaultsHolds == Spec => []NamingDefaultsOnlyOverrides
<1>1. RequestInv => NamingDefaultsOnlyOverrides
  <2> SUFFICES ASSUME RequestInv, part = "requests" PROVE Q!NamingDefaultsOnlyOverrides
    BY DEF NamingDefaultsOnlyOverrides
  <2>1. WellBuilt(commander) /\ query \in QuerySpace /\ query.game \in Texts
    BY ResolvedFacts, QueryTyped DEF RequestInv, IsQuery
  <2>2. OnlyOverrides(commander, query, query.game)
    BY <2>1, NamingDefaults
  <2>3. \A t : Q!Overridden(t) = Overrides(t, query)
    BY SameLists DEF Q!Overridden, Overrides
  <2> QED  BY <2>2, <2>3, SameResolution, SameLists, Zenon DEF OnlyOverrides, Q!NamingDefaultsOnlyOverrides
<1> QED  BY <1>1, Requests, PTL

(* An operator who wrote no entry of the RCON lists twice and left none      *)
(* blank: parseDelimitedList, which drops both, keeps the rows.              *)
KeptAsWritten(e, settings) ==
  \A s \in settings : IsInjective(WrittenIn(e, s)) /\ Blank \notin ToSet(WrittenIn(e, s))

RowSettings == {"RCON_DEFAULT_CONTAINER_NAMES", "RCON_DEFAULT_CONTAINER_TRANSPORTS",
                "RCON_DEFAULT_CONTAINER_ADDRESSES", "RCON_DEFAULT_CONTAINER_PASSWORDS"}

(* Lists kept as written are the lists of the configuration.                 *)
LEMMA KeptFacts ==
  ASSUME NEW e, NEW some, Pairs(e, some), KeptAsWritten(e, some), NEW s \in some
  PROVE  FromEnv(e)[s] = WrittenIn(e, s) /\ WrittenIn(e, s) \in Seq(STRING)
<1>1. s \in DOMAIN e /\ e[s] \in Seq(STRING) \X Seq(STRING)
  BY DEF Pairs
<1>2. IsInjective(WrittenIn(e, s)) /\ Blank \notin ToSet(WrittenIn(e, s))
  BY DEF KeptAsWritten
<1> QED  BY <1>1, <1>2, SettingFacts

(* Every target is reached as the operator wrote in its own row, or with the *)
(* address and password of a request that names it.  Without the hypothesis  *)
(* it is not so: a list with a repeated entry loses it and shifts            *)
(* (config.go parseDelimitedList).                                           *)
THEOREM AlignedByPositionHolds ==
  ASSUME \A e \in Envs : KeptAsWritten(e, RowSettings)
  PROVE  Spec => []AlignedByPosition
<1>1. ASSUME RequestInv, part = "requests", NEW i \in DOMAIN resolved
      PROVE  LET t == resolved[i]
             IN  IF t.ref \in ToSet(Q!Listed("RCON_DEFAULT_CONTAINER_NAMES"))
                 THEN /\ t.transport = normalizeTargetTransport(
                                         Q!Written("RCON_DEFAULT_CONTAINER_TRANSPORTS", t.ref))
                      /\ t.transport # "docker" =>
                           /\ t.addr = Q!Due(t, query.addr, "RCON_DEFAULT_CONTAINER_ADDRESSES")
                           /\ t.pass = Q!Due(t, query.pass, "RCON_DEFAULT_CONTAINER_PASSWORDS")
                 ELSE t.transport = "docker" /\ t.addr = Blank /\ t.pass = Blank
  <2> DEFINE t == resolved[i]
             names == "RCON_DEFAULT_CONTAINER_NAMES"
             cfg == FromEnv(env)
             ByRow == \E j : \E u :
               /\ InRow(cfg, u, j) /\ u.ref = t.ref /\ t.transport = u.transport
               /\ t.addr = Given(query, t, query.addr, u.addr)
               /\ t.pass = Given(query, t, query.pass, u.pass)
             Unlisted == /\ t.ref \notin ToSet(cfg[names])
                         /\ t.transport = "docker" /\ t.addr = Blank /\ t.pass = Blank
  <2>1. /\ Pairs(env, Settings) /\ env \in Envs /\ IsQuery(query)
        /\ commander = NewDockerCommander(cfg)
        /\ t.ref \in Texts /\ Served(commander, query, t)
    <3>1. /\ Pairs(env, Settings) /\ resolved \in Seq(BT) /\ Served(commander, query, t)
      BY <1>1, ResolvedFacts DEF TargetList
    <3>2. t \in BT
      BY <1>1, <3>1
    <3> QED  BY <1>1, <3>1, <3>2, QueryTyped DEF RequestInv, BT
  <2>2. \A s \in RowSettings : cfg[s] = WrittenIn(env, s)
    <3>1. Pairs(env, RowSettings)
      BY <2>1 DEF Pairs, RowSettings, Settings
    <3> QED  BY <2>1, <3>1, KeptFacts
  <2>3. \A s : Q!Listed(s) = WrittenIn(env, s)
    BY DEF Q!Listed, WrittenIn
  <2>4. \A s, r : Q!Written(s, r) = Entry(WrittenIn(env, s), Q!Row(r))
    BY <2>3, SameLists DEF Q!Written
  <2>5. RowSettings = {names, "RCON_DEFAULT_CONTAINER_TRANSPORTS",
                       "RCON_DEFAULT_CONTAINER_ADDRESSES", "RCON_DEFAULT_CONTAINER_PASSWORDS"}
    BY DEF RowSettings
  <2>6. IsInjective(WrittenIn(env, names))
    BY <2>1, <2>5 DEF KeptAsWritten
  <2>10. Q!NamedByQuery = NamedBy(query)
    BY DEF Q!NamedByQuery, NamedBy, Q!ToSet, ToSet, Q!FlattenSeq, FlattenSeq
  <2> HIDE DEF t, cfg
  <2>7. CASE ByRow
    <3>1. PICK j, u : /\ InRow(cfg, u, j) /\ u.ref = t.ref /\ t.transport = u.transport
                      /\ t.addr = Given(query, t, query.addr, u.addr)
                      /\ t.pass = Given(query, t, query.pass, u.pass)
      BY <2>7
    <3>2. j \in DOMAIN WrittenIn(env, names) /\ WrittenIn(env, names)[j] = t.ref
      BY <2>2, <2>5, <3>1 DEF InRow
    <3>3. Q!Row(t.ref) = j
      BY <2>3, <2>6, <3>2 DEF Q!Row, IsInjective
    <3>4. t.ref \in ToSet(Q!Listed(names))
      BY <2>3, <3>2 DEF ToSet
    <3>5. /\ u.transport = normalizeTargetTransport(
                             Q!Written("RCON_DEFAULT_CONTAINER_TRANSPORTS", t.ref))
          /\ u.addr = Q!Written("RCON_DEFAULT_CONTAINER_ADDRESSES", t.ref)
          /\ u.pass = Q!Written("RCON_DEFAULT_CONTAINER_PASSWORDS", t.ref)
      BY <2>2, <2>4, <2>5, <3>1, <3>3 DEF InRow
    <3>6. /\ t.transport # "docker" => t.addr = Q!Due(t, query.addr, "RCON_DEFAULT_CONTAINER_ADDRESSES")
          /\ t.transport # "docker" => t.pass = Q!Due(t, query.pass, "RCON_DEFAULT_CONTAINER_PASSWORDS")
      BY <2>10, <3>1, <3>5, SameLists DEF Given, Q!Due
    <3> QED  BY <3>1, <3>4, <3>5, <3>6 DEF t
  <2>8. CASE Unlisted
    BY <2>2, <2>3, <2>5, <2>8 DEF t
  <2>9. ByRow \/ Unlisted
    BY <2>1, ServedFacts DEF cfg
  <2> HIDE DEF ByRow, Unlisted
  <2> QED  BY <2>7, <2>8, <2>9
<1>2. RequestInv => AlignedByPosition
  BY <1>1, SameLists DEF AlignedByPosition, Q!AlignedByPosition
<1> QED  BY <1>2, Requests, PTL

-----------------------------------------------------------------------------
(* The .env file                                                            *)

(* The lines read so far that set a variable, whichever wins.                *)
LinesFor(k) == {i \in 1..(next - 1) : file[i].kind = "pair" /\ file[i].key = k}

(* What the environment says of a variable that the process did not have.    *)
FirstLineWins(k) ==
  \/ LinesFor(k) = {} /\ k \notin DOMAIN env
  \/ /\ k \in DOMAIN env
     /\ \E i \in LinesFor(k) : /\ \A j \in LinesFor(k) : i <= j
                              /\ env[k] = E!trimQuotes(file[i].value)

FileInv ==
  part = "file" =>
    /\ file \in Files /\ next \in 1..(Len(file) + 1)
    /\ status = "loaded" => next = Len(file) + 1
    /\ status # "failed" => \A i \in 1..(next - 1) : file[i].kind # "long"
    /\ \A k \in DOMAIN process : k \in DOMAIN env /\ env[k] = process[k]
    /\ \A k \in Keys \ DOMAIN process : FirstLineWins(k)

(* A line changes the environment for its own variable only, and only if     *)
(* that variable is not there yet.                                          *)
LEMMA LineRead ==
  ASSUME FileInv, part = "file", E!ReadLine, part' = part
  PROVE  FileInv'
<1>1. /\ file \in Files /\ next \in 1..(Len(file) + 1)
      /\ status # "failed" => \A i \in 1..(next - 1) : file[i].kind # "long"
      /\ \A k \in DOMAIN process : k \in DOMAIN env /\ env[k] = process[k]
      /\ \A k \in Keys \ DOMAIN process : FirstLineWins(k)
  BY DEF FileInv
<1>2. Len(file) \in Nat /\ Blank \notin Keys
  BY <1>1, FileAssumption
<1>3. /\ status = "reading" /\ next <= Len(file) /\ next' = next + 1
      /\ file' = file /\ process' = process
      /\ status' = IF file[next].kind = "long" THEN "failed" ELSE status
  BY DEF E!ReadLine
<1>4. /\ E!Sets(file[next]) =>
             /\ DOMAIN env' = DOMAIN env \cup {file[next].key}
             /\ env'[file[next].key] = E!trimQuotes(file[next].value)
             /\ \A k \in DOMAIN env \ {file[next].key} : env'[k] = env[k]
      /\ ~E!Sets(file[next]) => env' = env
  BY DEF E!ReadLine
<1>5. /\ E!Sets(file[next]) => file[next].key \notin DOMAIN env /\ file[next].kind = "pair"
      /\ \A k \in Keys : file[next].kind = "pair" /\ file[next].key = k /\ k \notin DOMAIN env
           => E!Sets(file[next])
  BY <1>2 DEF E!Sets, E!Blank, Blank
<1>6. 1..(next' - 1) = 1..(next - 1) \cup {next}
  BY <1>1, <1>2, <1>3
<1>7. \A k \in DOMAIN process : k \in DOMAIN env' /\ env'[k] = process'[k]
  BY <1>1, <1>3, <1>4, <1>5
<1>8. ASSUME NEW k \in Keys \ DOMAIN process PROVE FirstLineWins(k)'
  <2>1. /\ LinesFor(k)' = LinesFor(k) \cup
                {i \in {next} : file[i].kind = "pair" /\ file[i].key = k}
        /\ LinesFor(k) \subseteq 1..(next - 1)
    BY <1>3, <1>6 DEF LinesFor
  <2>2. CASE LinesFor(k) = {} /\ k \notin DOMAIN env
    <3>1. CASE file[next].kind = "pair" /\ file[next].key = k
      <4>1. LinesFor(k)' = {next} /\ E!Sets(file[next])
        BY <1>5, <2>1, <2>2, <3>1
      <4>2. k \in DOMAIN env' /\ env'[k] = E!trimQuotes(file'[next].value)
        BY <1>3, <1>4, <3>1, <4>1
      <4>3. next <= next
        BY <1>1
      <4> QED  BY <4>1, <4>2, <4>3 DEF FirstLineWins, E!trimQuotes
    <3>2. CASE ~(file[next].kind = "pair" /\ file[next].key = k)
      <4>1. LinesFor(k)' = {}
        BY <2>1, <2>2, <3>2
      <4>2. k \notin DOMAIN env'
        BY <1>4, <1>5, <2>2, <3>2
      <4> QED  BY <4>1, <4>2 DEF FirstLineWins
    <3> QED  BY <3>1, <3>2
  <2>3. CASE /\ k \in DOMAIN env
             /\ \E i \in LinesFor(k) : /\ \A j \in LinesFor(k) : i <= j
                                      /\ env[k] = E!trimQuotes(file[i].value)
    <3>1. PICK i \in LinesFor(k) : /\ \A j \in LinesFor(k) : i <= j
                                   /\ env[k] = E!trimQuotes(file[i].value)
      BY <2>3
    <3>2. k \in DOMAIN env' /\ env'[k] = env[k]
      BY <1>4, <1>5, <2>3
    <3>3. i \in LinesFor(k)' /\ \A j \in LinesFor(k)' : i <= j
      <4>1. i \in 1..(next - 1) /\ i <= next
        BY <1>1, <2>1, <3>1
      <4> QED  BY <2>1, <3>1, <4>1
    <3>4. env'[k] = E!trimQuotes(file'[i].value)
      BY <1>3, <3>1, <3>2
    <3> QED  BY <3>2, <3>3, <3>4 DEF FirstLineWins, E!trimQuotes
  <2> QED  BY <1>1, <2>2, <2>3 DEF FirstLineWins
<1>9. status' # "failed" => \A i \in 1..(next' - 1) : file'[i].kind # "long"
  BY <1>1, <1>3, <1>6
<1>10. next' \in 1..(Len(file') + 1) /\ status' # "loaded"
  BY <1>1, <1>2, <1>3
<1> QED  BY <1>1, <1>3, <1>7, <1>8, <1>9, <1>10 DEF FileInv

LEMMA NothingRead ==
  ASSUME UNCHANGED <<file, next, env>>, NEW k
  PROVE  FirstLineWins(k)' <=> FirstLineWins(k)
<1>1. LinesFor(k)' = LinesFor(k)
  BY DEF LinesFor
<1>2. \A i : E!trimQuotes(file'[i].value) = E!trimQuotes(file[i].value)
  OBVIOUS
<1> QED  BY <1>1, <1>2 DEF FirstLineWins, E!trimQuotes

(* The first lines for a variable that the environment did not have, in      *)
(* every state of LoadEnvFile, a restart included.                          *)
LEMMA FilesLoaded == Spec => []FileInv
<1>1. Init => FileInv
  <2> SUFFICES ASSUME Init, part = "file" PROVE FileInv
    BY DEF FileInv
  <2>1. file \in Files /\ next = 1 /\ env = process /\ status = "reading"
    BY DEF Init, E!Init
  <2>2. Len(file) \in Nat
    BY <2>1, FileAssumption
  <2>3. \A k : LinesFor(k) = {}
    BY <2>1 DEF LinesFor
  <2> QED  BY <2>1, <2>2, <2>3 DEF FileInv, FirstLineWins
<1>2. FileInv /\ [Next]_vars => FileInv'
  <2> SUFFICES ASSUME FileInv, [Next]_vars, part' = "file" PROVE FileInv'
    BY DEF FileInv
  <2>1. CASE UNCHANGED vars
    <3>1. /\ process' = process /\ file' = file /\ next' = next /\ env' = env
          /\ status' = status /\ part' = part
      BY <2>1 DEF vars, loading
    <3>2. \A k : FirstLineWins(k)' <=> FirstLineWins(k)
      BY <3>1, NothingRead
    <3> QED  BY <3>1, <3>2 DEF FileInv
  <2>2. CASE Next
    <3>1. part = "file" /\ part' = part /\ E!Next
      BY <2>2 DEF Next
    <3>2. CASE E!ReadLine
      BY <3>1, <3>2, LineRead
    <3>3. CASE E!EndOfFile
      <4>1. UNCHANGED <<process, file, next, env>> /\ status' = "loaded" /\ status = "reading"
            /\ next > Len(file)
        BY <3>3 DEF E!EndOfFile
      <4>2. next = Len(file) + 1
        BY <3>1, <4>1, FileAssumption DEF FileInv
      <4>3. \A k : FirstLineWins(k)' <=> FirstLineWins(k)
        BY <4>1, NothingRead
      <4> QED  BY <3>1, <4>1, <4>2, <4>3 DEF FileInv
    <3>4. CASE E!Restart
      <4>1. /\ next' = 1 /\ env' = process /\ status' = "reading"
            /\ file' = file /\ process' = process
        BY <3>4 DEF E!Restart
      <4>2. file \in Files /\ Len(file) \in Nat
        BY <3>1, FileAssumption DEF FileInv
      <4>3. \A k : LinesFor(k)' = {}
        BY <4>1 DEF LinesFor
      <4> QED  BY <4>1, <4>2, <4>3 DEF FileInv, FirstLineWins
    <3> QED  BY <3>1, <3>2, <3>3, <3>4 DEF E!Next
  <2> QED  BY <2>1, <2>2
<1> QED  BY <1>1, <1>2, PTL DEF Spec

(* The process keeps its variables and every other one is what the first     *)
(* line for it says, whatever the file (README.md:32).                       *)
THEOREM FileFillsTheGapsHolds == Spec => []FileFillsTheGaps
<1>1. FileInv => FileFillsTheGaps
  <2> SUFFICES ASSUME FileInv, part = "file" PROVE E!FileFillsTheGaps
    BY DEF FileFillsTheGaps
  <2>1. \A k \in DOMAIN process : k \in DOMAIN env /\ env[k] = process[k]
    BY DEF FileInv
  <2>2. ASSUME status = "loaded"
        PROVE  /\ \A i \in DOMAIN file : file[i].kind # "long"
               /\ \A k \in Keys \ DOMAIN process :
                    /\ FirstLineWins(k)
                    /\ LinesFor(k) = {i \in DOMAIN file : file[i].kind = "pair" /\ file[i].key = k}
    <3>1. Len(file) \in Nat /\ DOMAIN file = 1..Len(file)
      BY FileAssumption DEF FileInv
    <3>2. 1..(next - 1) = DOMAIN file
      BY <2>2, <3>1 DEF FileInv
    <3> QED  BY <2>2, <3>2 DEF FileInv, LinesFor
  <2> QED  BY <2>1, <2>2 DEF E!FileFillsTheGaps, FirstLineWins
<1> QED  BY <1>1, FilesLoaded, PTL

-----------------------------------------------------------------------------
(* Chat                                                                     *)

(* What RelayRequest and Ignored say with a given bridge.                    *)
RequestFor(b, m) ==
  [transport |-> "rcon", game |-> Blank, addr |-> Blank, pass |-> Blank,
   refs |-> IF m.channel \in DOMAIN b.channelToContainer
            THEN <<<<b.channelToContainer[m.channel]>>>> ELSE <<>>]

Heard(b, m) ==
  /\ m.author # "agent" /\ m.channel \in ToSet(b.channelIDs)
  /\ B!Lower(m.content) \cap b.filteredPhrases = {}

LEMMA SingletonSeq ==
  ASSUME NEW S, NEW x \in S
  PROVE  <<x>> \in Seq(S) /\ DOMAIN <<x>> = {1} /\ <<x>>[1] = x
OBVIOUS

(* The targets of a request that names one container, or none.               *)
LEMMA RelayResolved ==
  ASSUME NEW e, Pairs(e, Settings), NEW refs,
         refs = <<>> \/ \E c \in STRING \ {Blank} : refs = <<<<c>>>>
  PROVE  LET q == [transport |-> "rcon", game |-> Blank, addr |-> Blank, pass |-> Blank,
                   refs |-> refs]
             ts == resolveBroadcastTargets(NewDockerCommander(FromEnv(e)), q)
         IN  /\ ts \in Seq(BT)
             /\ \A i \in DOMAIN ts :
                  /\ ts[i].transport = "rcon"
                  /\ \A c \in STRING \ {Blank} : refs = <<<<c>>>> => ts[i].ref = c
                  /\ \E j : \E u : /\ InRow(FromEnv(e), u, j) /\ u.ref = ts[i].ref
                                   /\ ts[i].addr = u.addr
<1> DEFINE q == [transport |-> "rcon", game |-> Blank, addr |-> Blank, pass |-> Blank,
                 refs |-> refs]
           d == NewDockerCommander(FromEnv(e))
           all == resolveTargets(d, q, q.game)
           ts == resolveBroadcastTargets(d, q)
<1>1. /\ q.transport = "rcon" /\ q.game = Blank /\ q.addr = Blank /\ q.pass = Blank
      /\ q.refs = refs
  OBVIOUS
<1>2. IsQuery(q) /\ q.game \in Texts
  <2>1. refs \in Seq(Seq(STRING))
    <3>1. ASSUME NEW c \in STRING PROVE <<<<c>>>> \in Seq(Seq(STRING))
      BY SingletonSeq
    <3>2. <<>> \in Seq(Seq(STRING))
      OBVIOUS
    <3> QED  BY <3>1, <3>2
  <2> QED  BY <2>1 DEF IsQuery, Texts, BroadcastTransport
<1>3. WellBuilt(d)
  BY CommanderFacts
<1>4. ts = filterTargetsByTransport(all, "rcon")
  BY DEF resolveBroadcastTargets, normalizeTargetTransport, Blank
<1> HIDE DEF q, d, ts
<1>5. TargetList(all) /\ \A i \in DOMAIN all : Served(d, q, all[i])
  BY <1>2, <1>3, ResolveFacts
<1>6. \A c \in STRING \ {Blank} : refs = <<<<c>>>> => \A i \in DOMAIN all : all[i].ref = c
  <2> SUFFICES ASSUME NEW c \in STRING \ {Blank}, refs = <<<<c>>>>
               PROVE  \A i \in DOMAIN all : all[i].ref = c
    OBVIOUS
  <2>1. normalizeContainerRefs(refs) = <<c>>
    <3> DEFINE one == <<c>>
    <3>1. /\ one \in Seq(STRING) /\ DOMAIN one = {1} /\ one[1] = c
          /\ IsInjective(one) /\ Blank \notin ToSet(one)
      <4>1. one \in Seq(STRING) /\ DOMAIN one = {1} /\ one[1] = c
        BY SingletonSeq
      <4> HIDE DEF one
      <4> QED  BY <4>1 DEF IsInjective, ToSet
    <3> HIDE DEF one
    <3>2. FlattenSeq(<<one>>) = one /\ <<one>> \in Seq(Seq(STRING))
      BY <3>1, FlattenOne
    <3>3. DistinctParts(<<one>>) = one
      BY <3>1, <3>2, DistinctPartsSame
    <3> QED  BY <3>3 DEF one, normalizeContainerRefs
  <2>2. normalizeContainerRefs(q.refs) # <<>>
    BY <1>1, <2>1
  <2>3. DOMAIN all = DOMAIN <<c>> /\ \A i \in DOMAIN all : all[i].ref = <<c>>[i]
    BY <1>1, <1>2, <1>3, <2>1, <2>2, NamedFacts
  <2> QED  BY <2>3
<1> HIDE DEF all
<1>7. /\ TargetList(ts)
      /\ \A k \in DOMAIN ts : /\ \E i \in DOMAIN all : ts[k] = all[i]
                              /\ normalizeTargetTransport(ts[k].transport) = "rcon"
  BY <1>4, <1>5, FilterFacts
<1>8. ASSUME NEW k \in DOMAIN ts
      PROVE  /\ ts[k].transport = "rcon"
             /\ \E j : \E u : InRow(FromEnv(e), u, j) /\ u.ref = ts[k].ref /\ ts[k].addr = u.addr
  <2>1. ts[k].transport = "rcon"
    BY <1>7 DEF normalizeTargetTransport
  <2>2. ts \in Seq(BT) /\ ts[k] \in BT
    BY <1>7 DEF TargetList
  <2>3. Served(d, q, ts[k]) /\ ts[k].ref \in Texts
    BY <1>5, <1>7, <2>2 DEF BT
  <2> DEFINE t == ts[k]
  <2>4. \/ \E j : \E u :
             /\ InRow(FromEnv(e), u, j) /\ u.ref = t.ref /\ t.transport = u.transport
             /\ t.addr = Given(q, t, q.addr, u.addr)
             /\ t.pass = Given(q, t, q.pass, u.pass)
        \/ /\ t.ref \notin ToSet(FromEnv(e)["RCON_DEFAULT_CONTAINER_NAMES"])
           /\ t.transport = "docker" /\ t.addr = Blank /\ t.pass = Blank
    <3> HIDE DEF t
    <3>1. Served(NewDockerCommander(FromEnv(e)), q, t) /\ t.ref \in Texts
      BY <2>3 DEF t, d
    <3> QED  BY <1>2, <3>1, ServedFacts
  <2> QED  BY <1>1, <2>1, <2>4 DEF Given
<1>9. ts \in Seq(BT)
  BY <1>7 DEF TargetList
<1> QED  BY <1>6, <1>7, <1>8, <1>9 DEF ts, q, d

(* What NewDiscordRCONBridge makes of lists without repetition.              *)
LEMMA BridgeFacts ==
  ASSUME NEW cfg,
         cfg["DISCORD_INGEST_CHANNEL_IDS"] \in Seq(STRING),
         IsInjective(cfg["DISCORD_INGEST_CHANNEL_IDS"]),
         cfg["RCON_INGEST_CONTAINER_NAMES"] \in Seq(STRING)
  PROVE  LET b == B!BridgeOf(cfg)
             channels == cfg["DISCORD_INGEST_CHANNEL_IDS"]
             containers == cfg["RCON_INGEST_CONTAINER_NAMES"]
         IN  /\ b.channelIDs = channels
             /\ B!Lower(B!defaultFilteredPhrases) \subseteq b.filteredPhrases
             /\ \A i \in DOMAIN channels :
                  Entry(containers, i) # Blank =>
                    /\ channels[i] \in DOMAIN b.channelToContainer
                    /\ b.channelToContainer[channels[i]] = Entry(containers, i)
             /\ \A ch \in DOMAIN b.channelToContainer :
                  b.channelToContainer[ch] \in STRING \ {Blank}
<1> DEFINE channels == cfg["DISCORD_INGEST_CHANNEL_IDS"]
           containers == cfg["RCON_INGEST_CONTAINER_NAMES"]
           b == B!BridgeOf(cfg)
           paired == {i \in DOMAIN channels : Entry(containers, i) # Blank}
<1>1. /\ b.channelIDs = channels
      /\ b.channelToContainer = [ch \in {channels[i] : i \in paired} |->
                                   containers[Max({i \in paired : channels[i] = ch})]]
      /\ B!Lower(B!defaultFilteredPhrases) \subseteq b.filteredPhrases
  BY SameLists DEF B!BridgeOf, B!NewDiscordRCONBridge, B!Lower
<1>2. \A i \in paired : i \in DOMAIN containers /\ containers[i] = Entry(containers, i)
                       /\ Entry(containers, i) \in STRING \ {Blank} /\ i \in Nat
  BY DEF Entry
<1>3. \A i, j \in paired : channels[i] = channels[j] => i = j
  BY DEF IsInjective
<1>4. \A i \in DOMAIN channels : Entry(containers, i) # Blank <=> i \in paired
  OBVIOUS
<1> HIDE DEF paired, channels, containers, b
<1>5. ASSUME NEW i \in paired
      PROVE  /\ channels[i] \in DOMAIN b.channelToContainer
             /\ b.channelToContainer[channels[i]] = Entry(containers, i)
  <2>1. {j \in paired : channels[j] = channels[i]} = {i}
    BY <1>3
  <2>2. Max({i}) = i
    BY <1>2 DEF Max
  <2> QED  BY <1>1, <1>2, <2>1, <2>2
<1>6. \A ch \in DOMAIN b.channelToContainer : \E i \in paired : ch = channels[i]
  BY <1>1
<1>7. \A i \in DOMAIN channels :
        Entry(containers, i) # Blank =>
          /\ channels[i] \in DOMAIN b.channelToContainer
          /\ b.channelToContainer[channels[i]] = Entry(containers, i)
  BY <1>4, <1>5
<1>8. \A ch \in DOMAIN b.channelToContainer : b.channelToContainer[ch] \in STRING \ {Blank}
  BY <1>2, <1>5, <1>6
<1> QED  BY <1>1, <1>7, <1>8, Zenon DEF b, channels, containers

(* A tagged message is one that a plugin posted.                             *)
Tagged(m) == m.relayed => \E t \in Tags : t \in m.content

(* What was relayed was heard, and reached a target of its own request.      *)
Relayed(d, b, r) ==
  LET ts == resolveBroadcastTargets(d, RequestFor(b, r.msg))
  IN  /\ Tagged(r.msg) /\ Heard(b, r.msg)
      /\ \E i \in DOMAIN ts : r.target = ts[i]

ChatInv ==
  part = "chat" =>
    /\ env \in ChatEnvs /\ commander = NewDockerCommander(FromEnv(env))
    /\ bridge = B!BridgeOf(FromEnv(env))
    /\ \A m \in inbox : Tagged(m)
    /\ \A r \in relays : Relayed(commander, bridge, r)

ChatSettings ==
  {"DISCORD_INGEST_CHANNEL_IDS", "RCON_INGEST_CONTAINER_NAMES",
   "RCON_DEFAULT_CONTAINER_NAMES", "RCON_DEFAULT_CONTAINER_ADDRESSES"}

(* What the assumption about environments says of one of them.               *)
LEMMA ChatEnvFacts ==
  ASSUME NEW e \in ChatEnvs
  PROVE  /\ Pairs(e, Settings) /\ Pairs(e, ChatSettings)
         /\ \A s \in {"DISCORD_INGEST_CHANNEL_IDS", "RCON_INGEST_CONTAINER_NAMES"} :
              /\ FromEnv(e)[s] \in Seq(STRING) /\ IsInjective(FromEnv(e)[s])
              /\ ToSet(FromEnv(e)[s]) \subseteq ToSet(WrittenIn(e, s))
<1>1. /\ Pairs(e, Settings)
      /\ Pairs(e, {"DISCORD_INGEST_CHANNEL_IDS", "RCON_INGEST_CONTAINER_NAMES"})
  BY EnvAssumption, SameLists
<1>2. Pairs(e, ChatSettings)
  BY <1>1 DEF Pairs, Settings, ChatSettings
<1> QED  BY <1>1, <1>2, SettingFacts DEF Pairs

(* The request a heard message makes, and where it goes.                     *)
LEMMA RequestFacts ==
  ASSUME NEW e \in ChatEnvs, NEW m
  PROVE  LET b == B!BridgeOf(FromEnv(e))
             ts == resolveBroadcastTargets(NewDockerCommander(FromEnv(e)), RequestFor(b, m))
         IN  /\ ts \in Seq(BT)
             /\ \A i \in DOMAIN ts :
                  /\ ts[i].transport = "rcon"
                  /\ m.channel \in DOMAIN b.channelToContainer
                       => ts[i].ref = b.channelToContainer[m.channel]
                  /\ \E j : \E u : /\ InRow(FromEnv(e), u, j) /\ u.ref = ts[i].ref
                                   /\ ts[i].addr = u.addr
<1> DEFINE b == B!BridgeOf(FromEnv(e))
           refs == IF m.channel \in DOMAIN b.channelToContainer
                   THEN <<<<b.channelToContainer[m.channel]>>>> ELSE <<>>
<1>1. \A ch \in DOMAIN b.channelToContainer : b.channelToContainer[ch] \in STRING \ {Blank}
  BY ChatEnvFacts, BridgeFacts
<1>2. RequestFor(b, m) = [transport |-> "rcon", game |-> Blank, addr |-> Blank, pass |-> Blank,
                          refs |-> refs]
  BY DEF RequestFor
<1> HIDE DEF b
<1>3. /\ refs = <<>> \/ \E c \in STRING \ {Blank} : refs = <<<<c>>>>
      /\ m.channel \in DOMAIN b.channelToContainer
           => /\ b.channelToContainer[m.channel] \in STRING \ {Blank}
              /\ refs = <<<<b.channelToContainer[m.channel]>>>>
  BY <1>1
<1>4. Pairs(e, Settings)
  BY ChatEnvFacts
<1> HIDE DEF refs
<1> DEFINE q == [transport |-> "rcon", game |-> Blank, addr |-> Blank, pass |-> Blank,
                 refs |-> refs]
           ts == resolveBroadcastTargets(NewDockerCommander(FromEnv(e)), q)
<1>5. /\ ts \in Seq(BT)
      /\ \A i \in DOMAIN ts :
           /\ ts[i].transport = "rcon"
           /\ \A c \in STRING \ {Blank} : refs = <<<<c>>>> => ts[i].ref = c
           /\ \E j : \E u : InRow(FromEnv(e), u, j) /\ u.ref = ts[i].ref /\ ts[i].addr = u.addr
  BY <1>3, <1>4, RelayResolved
<1>6. RequestFor(b, m) = q
  BY <1>2
<1> HIDE DEF ts, q
<1>7. ts = resolveBroadcastTargets(NewDockerCommander(FromEnv(e)), RequestFor(b, m))
  BY <1>6 DEF ts
<1>8. \A i \in DOMAIN ts :
        m.channel \in DOMAIN b.channelToContainer => ts[i].ref = b.channelToContainer[m.channel]
  BY <1>3, <1>5
<1> QED  BY <1>5, <1>7, <1>8 DEF b

(* What the bridge filters: its own phrases and the operator's.              *)
LEMMA FilterPhrases ==
  ASSUME NEW e \in ChatEnvs
  PROVE  B!BridgeOf(FromEnv(e)).filteredPhrases
           = B!Lower(B!defaultFilteredPhrases \cup OperatorPhrases(e))
<1> DEFINE values == e["DISCORD_BRIDGE_FILTERED_PHRASES"]
<1>1. values \in Seq(Seq(STRING)) /\ "DISCORD_BRIDGE_FILTERED_PHRASES" \in DOMAIN e
  BY EnvAssumption
<1>2. FromEnv(e)["DISCORD_BRIDGE_FILTERED_PHRASES"] = DistinctParts(values)
  BY <1>1 DEF FromEnv, parseDelimitedList
<1>3. OperatorPhrases(e) = ToSet(FlattenSeq(values)) \ {Blank}
  BY DEF OperatorPhrases, B!ToSet, ToSet, B!FlattenSeq, FlattenSeq
<1> HIDE DEF values
<1>4. ToSet(DistinctParts(values)) = OperatorPhrases(e)
  BY <1>1, <1>3, DistinctPartsFacts
<1>5. B!ToSet(FromEnv(e)["DISCORD_BRIDGE_FILTERED_PHRASES"]) = OperatorPhrases(e)
  BY <1>2, <1>4, SameLists
<1>6. B!BridgeOf(FromEnv(e)).filteredPhrases
        = B!Lower(B!defaultFilteredPhrases
                    \cup B!ToSet(FromEnv(e)["DISCORD_BRIDGE_FILTERED_PHRASES"]))
  BY DEF B!BridgeOf, B!NewDiscordRCONBridge
<1> QED  BY <1>5, <1>6

LEMMA MessageArrives ==
  ASSUME ChatInv, part = "chat", part' = part,
         NEW author, NEW channel, NEW content, NEW relayed,
         relayed => \E t \in Tags : t \in content,
         B!Arrives(author, channel, content, relayed)
  PROVE  ChatInv'
<1> DEFINE m == [id |-> number', author |-> author, channel |-> channel,
                 content |-> content, relayed |-> relayed]
<1>1. inbox' = inbox \cup {m} /\ UNCHANGED <<env, commander, bridge, relays>>
  BY DEF B!Arrives
<1>2. Tagged(m)
  BY DEF Tagged
<1> HIDE DEF m
<1> QED  BY <1>1, <1>2 DEF ChatInv

LEMMA MessageHandled ==
  ASSUME ChatInv, part = "chat", part' = part, NEW m \in inbox, B!handleMessage(m)
  PROVE  ChatInv'
<1> DEFINE ts == resolveBroadcastTargets(commander, RequestFor(bridge, m))
<1>1. inbox' = inbox \ {m} /\ UNCHANGED <<env, commander, bridge, number>>
  BY DEF B!handleMessage
<1>2. B!RelayRequest(m) = RequestFor(bridge, m)
  BY SameLists DEF B!RelayRequest, RequestFor
<1>3. B!resolveBroadcastTargets(commander, B!RelayRequest(m)) = ts
  BY <1>2, SameResolution
<1>4. Len(ts) \in Nat /\ DOMAIN ts = 1..Len(ts)
  <2>1. ts \in Seq(BT)
    BY RequestFacts DEF ChatInv
  <2> QED  BY <2>1
<1> HIDE DEF ts
<1>5. PICK k \in IF B!Ignored(m) THEN {0} ELSE 0..Len(ts) :
        relays' = relays \cup {[msg |-> m, target |-> ts[i]] : i \in 1..k}
  BY <1>3 DEF B!handleMessage
<1>6. k \in 0..Len(ts) /\ (k # 0 => Heard(bridge, m))
  BY <1>4, <1>5, SameLists DEF B!Ignored, B!Filtered, Heard
<1>7. ASSUME NEW r \in relays' PROVE Relayed(commander, bridge, r)
  <2>1. CASE r \in relays
    BY <2>1 DEF ChatInv
  <2>2. CASE r \notin relays
    <3>1. PICK i \in 1..k : r = [msg |-> m, target |-> ts[i]]
      BY <1>5, <2>2
    <3>2. r.msg = m /\ r.target = ts[i] /\ i \in DOMAIN ts /\ Heard(bridge, m)
      BY <1>4, <1>6, <3>1
    <3>3. Tagged(m)
      BY DEF ChatInv
    <3> QED  BY <3>2, <3>3 DEF Relayed, ts
  <2> QED  BY <2>1, <2>2
<1> QED  BY <1>1, <1>7 DEF ChatInv

LEMMA ChatRelayed == Spec => []ChatInv
<1>1. Init => ChatInv
  BY SameCommander DEF Init, B!Init, ChatInv
<1>2. ChatInv /\ [Next]_vars => ChatInv'
  <2> SUFFICES ASSUME ChatInv, [Next]_vars, part' = "chat" PROVE ChatInv'
    BY DEF ChatInv
  <2>1. CASE UNCHANGED vars
    BY <2>1 DEF vars, chatting, ChatInv
  <2>2. CASE Next
    <3>1. part = "chat" /\ part' = part /\ B!Next
      BY <2>2 DEF Next
    <3>2. ASSUME NEW author, NEW ch, NEW content, B!Post(author, ch, content) PROVE ChatInv'
      BY <3>1, <3>2, MessageArrives DEF B!Post
    <3>3. ASSUME NEW r, NEW tag \in Tags, B!Echo(r, tag) PROVE ChatInv'
      <4>1. B!Arrives("plugin", PluginChannel[r.target.addr], r.msg.content \cup {tag}, TRUE)
        BY <3>3 DEF B!Echo
      <4>2. \E t \in Tags : t \in r.msg.content \cup {tag}
        OBVIOUS
      <4> QED  BY <3>1, <4>1, <4>2, MessageArrives
    <3>4. ASSUME NEW m \in inbox, B!handleMessage(m) PROVE ChatInv'
      BY <3>1, <3>4, MessageHandled
    <3>5. CASE B!Restart
      BY <3>1, <3>5 DEF B!Restart, ChatInv
    <3> QED  BY <3>1, <3>2, <3>3, <3>4, <3>5 DEF B!Next
  <2> QED  BY <2>1, <2>2
<1> QED  BY <1>1, <1>2, PTL DEF Spec

(* Nothing that was on a game's console is relayed to it again: the bridge   *)
(* filters what the plugins' tags mark (discord_bridge.go handleMessage), in  *)
(* any environment and for any chat, as long as the tags are among the       *)
(* phrases it filters by default or was told to filter (TagAssumption).      *)
THEOREM NoEchoLoopHolds == Spec => []NoEchoLoop
<1>1. ChatInv => NoEchoLoop
  <2> SUFFICES ASSUME ChatInv, part = "chat", NEW r \in relays
               PROVE  ~r.msg.relayed /\ r.msg.author # "agent"
    BY DEF NoEchoLoop, B!NoEchoLoop
  <2>1. Tagged(r.msg) /\ Heard(bridge, r.msg) /\ env \in ChatEnvs /\ bridge = B!BridgeOf(FromEnv(env))
    BY DEF ChatInv, Relayed
  <2>2. bridge.filteredPhrases = B!Lower(B!defaultFilteredPhrases \cup OperatorPhrases(env))
    BY <2>1, FilterPhrases
  <2>3. ASSUME NEW t \in Tags, t \in r.msg.content PROVE FALSE
    <3>1. ToLower(t) \in B!Lower(r.msg.content)
      BY <2>3 DEF B!Lower
    <3>2. ToLower(t) \in bridge.filteredPhrases
      BY <2>1, <2>2, TagAssumption
    <3> QED  BY <2>1, <3>1, <3>2 DEF Heard
  <2> QED  BY <2>1, <2>3 DEF Tagged, Heard
<1> QED  BY <1>1, ChatRelayed, PTL

(* What is said in a channel goes to the server paired with it, over RCON    *)
(* and at that server's own address, if the operator left no entry of the    *)
(* four lists blank and wrote none twice.                                    *)
THEOREM RelayStaysAtItsServerHolds ==
  ASSUME \A e \in ChatEnvs : KeptAsWritten(e, ChatSettings)
  PROVE  Spec => []RelayStaysAtItsServer
<1>1. ASSUME ChatInv, part = "chat", NEW r \in relays
      PROVE  /\ r.target.transport = "rcon"
             /\ r.msg.channel \in ToSet(WrittenIn(env, "DISCORD_INGEST_CHANNEL_IDS"))
             /\ \A i \in DOMAIN WrittenIn(env, "DISCORD_INGEST_CHANNEL_IDS") :
                  LET container == Entry(WrittenIn(env, "RCON_INGEST_CONTAINER_NAMES"), i)
                  IN  r.msg.channel = WrittenIn(env, "DISCORD_INGEST_CHANNEL_IDS")[i] /\ container # Blank
                        => r.target.ref = container
             /\ \E i \in DOMAIN WrittenIn(env, "RCON_DEFAULT_CONTAINER_NAMES") :
                  /\ r.target.ref = WrittenIn(env, "RCON_DEFAULT_CONTAINER_NAMES")[i]
                  /\ r.target.addr = Entry(WrittenIn(env, "RCON_DEFAULT_CONTAINER_ADDRESSES"), i)
  <2> DEFINE cfg == FromEnv(env)
             b == B!BridgeOf(cfg)
             channels == cfg["DISCORD_INGEST_CHANNEL_IDS"]
             containers == cfg["RCON_INGEST_CONTAINER_NAMES"]
             ts == resolveBroadcastTargets(NewDockerCommander(cfg), RequestFor(b, r.msg))
  <2>1. /\ env \in ChatEnvs /\ Heard(b, r.msg)
        /\ \E i \in DOMAIN ts : r.target = ts[i]
    BY <1>1 DEF ChatInv, Relayed
  <2>2. \A s \in ChatSettings : cfg[s] = WrittenIn(env, s)
    BY <2>1, ChatEnvFacts, KeptFacts
  <2>3. /\ r.target.transport = "rcon"
        /\ r.msg.channel \in DOMAIN b.channelToContainer
             => r.target.ref = b.channelToContainer[r.msg.channel]
        /\ \E j : \E u : InRow(cfg, u, j) /\ u.ref = r.target.ref /\ r.target.addr = u.addr
    <3>1. \A i \in DOMAIN ts :
            /\ ts[i].transport = "rcon"
            /\ r.msg.channel \in DOMAIN b.channelToContainer
                 => ts[i].ref = b.channelToContainer[r.msg.channel]
            /\ \E j : \E u : /\ InRow(cfg, u, j) /\ u.ref = ts[i].ref
                             /\ ts[i].addr = u.addr
      <4>1. env \in ChatEnvs
        BY <2>1
      <4>2. \A i \in DOMAIN ts : ts[i].transport = "rcon"
        BY <4>1, RequestFacts
      <4>3. \A i \in DOMAIN ts : r.msg.channel \in DOMAIN b.channelToContainer
                 => ts[i].ref = b.channelToContainer[r.msg.channel]
        BY <4>1, RequestFacts
      <4>4. \A i \in DOMAIN ts : \E j : \E u : /\ InRow(cfg, u, j) /\ u.ref = ts[i].ref
                             /\ ts[i].addr = u.addr
        BY <4>1, RequestFacts
      <4> HIDE DEF ts, b, cfg
      <4> QED  BY <4>2, <4>3, <4>4
    <3> HIDE DEF ts, b, cfg
    <3> QED  BY <2>1, <3>1
  <2>4. /\ b.channelIDs = channels
        /\ \A i \in DOMAIN channels :
             Entry(containers, i) # Blank =>
               /\ channels[i] \in DOMAIN b.channelToContainer
               /\ b.channelToContainer[channels[i]] = Entry(containers, i)
    BY <2>1, ChatEnvFacts, BridgeFacts
  <2> HIDE DEF cfg, b, ts
  <2>5. /\ cfg["DISCORD_INGEST_CHANNEL_IDS"] = WrittenIn(env, "DISCORD_INGEST_CHANNEL_IDS")
        /\ cfg["RCON_INGEST_CONTAINER_NAMES"] = WrittenIn(env, "RCON_INGEST_CONTAINER_NAMES")
        /\ cfg["RCON_DEFAULT_CONTAINER_NAMES"] = WrittenIn(env, "RCON_DEFAULT_CONTAINER_NAMES")
        /\ cfg["RCON_DEFAULT_CONTAINER_ADDRESSES"]
             = WrittenIn(env, "RCON_DEFAULT_CONTAINER_ADDRESSES")
    BY <2>2 DEF ChatSettings
  <2>6. r.msg.channel \in ToSet(channels)
    BY <2>1, <2>4 DEF Heard
  <2>7. \E i \in DOMAIN cfg["RCON_DEFAULT_CONTAINER_NAMES"] :
          /\ r.target.ref = cfg["RCON_DEFAULT_CONTAINER_NAMES"][i]
          /\ r.target.addr = Entry(cfg["RCON_DEFAULT_CONTAINER_ADDRESSES"], i)
    BY <2>3 DEF InRow
  <2>8. \A i \in DOMAIN channels :
          r.msg.channel = channels[i] /\ Entry(containers, i) # Blank
            => r.target.ref = Entry(containers, i)
    BY <2>3, <2>4
  <2>9. /\ r.msg.channel \in ToSet(WrittenIn(env, "DISCORD_INGEST_CHANNEL_IDS"))
        /\ \A i \in DOMAIN WrittenIn(env, "DISCORD_INGEST_CHANNEL_IDS") :
             /\ r.msg.channel = WrittenIn(env, "DISCORD_INGEST_CHANNEL_IDS")[i]
             /\ Entry(WrittenIn(env, "RCON_INGEST_CONTAINER_NAMES"), i) # Blank
             => r.target.ref = Entry(WrittenIn(env, "RCON_INGEST_CONTAINER_NAMES"), i)
    BY <2>5, <2>6, <2>8
  <2>10. \E i \in DOMAIN WrittenIn(env, "RCON_DEFAULT_CONTAINER_NAMES") :
           /\ r.target.ref = WrittenIn(env, "RCON_DEFAULT_CONTAINER_NAMES")[i]
           /\ r.target.addr = Entry(WrittenIn(env, "RCON_DEFAULT_CONTAINER_ADDRESSES"), i)
    BY <2>5, <2>7
  <2> QED  BY <2>3, <2>9, <2>10
<1>2. \A s : B!Written(s) = WrittenIn(env, s)
  BY DEF B!Written, WrittenIn
<1>3. ChatInv => RelayStaysAtItsServer
  BY <1>1, <1>2, SameLists DEF RelayStaysAtItsServer, B!RelayStaysAtItsServer
<1> QED  BY <1>3, ChatRelayed, PTL

=============================================================================
