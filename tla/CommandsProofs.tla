--------------------------- MODULE CommandsProofs ---------------------------
(* The commands of broadcasts, for every game name, allowlist and message:  *)
(* the names the program reports lead back to the same command and to the   *)
(* same fallback decision, and messages arrive as they were sent.           *)
EXTENDS MCCommands, ListFacts, FiniteSetTheorems

(* The pieces the tables are made of, names of any pieces, and what a key    *)
(* is: no piece of one is the word "default".                               *)
Atoms == {"project", "zomboid", "satisfactory", "7", "days", "to", "die", "minecraft",
          "starbound", "factorio", "palworld", "terraria", "unturned", "vrising", "dtd",
          "rust", "paper", "mc", "server", "neo", "forge", "vanilla", "bukkit", "fabric",
          "purpur", "spigot", "tshock"}
Pieces == STRING \cup Atoms \cup {"default"}
Name == Seq(Seq(Pieces))
Key == Seq(Atoms) \ {<<>>}

-----------------------------------------------------------------------------
(* Lists                                                                    *)

LEMMA JoinTwo ==
  ASSUME NEW S, NEW a \in S, NEW b \in S
  PROVE  <<a>> \o <<b>> = <<a, b>>
<1> DEFINE s == <<a>>
           t == <<b>>
           u == <<a, b>>
<1>1. s \in Seq(S) /\ t \in Seq(S) /\ u \in Seq(S)
  OBVIOUS
<1>2. Len(s) = 1 /\ Len(t) = 1 /\ Len(u) = 2 /\ s[1] = a /\ t[1] = b /\ u[1] = a /\ u[2] = b
  OBVIOUS
<1> HIDE DEF s, t, u
<1>3. s \o t \in Seq(S) /\ Len(s \o t) = 2
      /\ \A i \in 1..2 : (s \o t)[i] = IF i <= 1 THEN s[i] ELSE t[i - 1]
  <2>1. Len(s) + Len(t) = 2
    BY <1>2
  <2>2. /\ s \o t \in Seq(S) /\ Len(s \o t) = Len(s) + Len(t)
        /\ \A i \in 1..(Len(s) + Len(t)) :
             (s \o t)[i] = IF i <= Len(s) THEN s[i] ELSE t[i - Len(s)]
    BY <1>1, ConcatProperties
  <2>3. Len(s) = 1
    BY <1>2
  <2> QED  BY <2>1, <2>2, <2>3
<1>4. \A i \in 1..2 : (s \o t)[i] = u[i]
  BY <1>2, <1>3
<1>5. s \o t = u
  BY <1>1, <1>2, <1>3, <1>4, SeqEqual
<1> QED  BY <1>5 DEF s, t, u

LEMMA JoinThree ==
  ASSUME NEW S, NEW a \in S, NEW b \in S, NEW c \in S
  PROVE  <<a, b>> \o <<c>> = <<a, b, c>>
<1> DEFINE s == <<a, b>>
           t == <<c>>
           u == <<a, b, c>>
<1>1. s \in Seq(S) /\ t \in Seq(S) /\ u \in Seq(S)
  OBVIOUS
<1>2. /\ Len(s) = 2 /\ Len(t) = 1 /\ Len(u) = 3
      /\ s[1] = u[1] /\ s[2] = u[2] /\ t[1] = u[3]
  OBVIOUS
<1> HIDE DEF s, t, u
<1>3. s \o t \in Seq(S) /\ Len(s \o t) = 3
      /\ \A i \in 1..3 : (s \o t)[i] = IF i <= 2 THEN s[i] ELSE t[i - 2]
  <2>1. Len(s) + Len(t) = 3
    BY <1>2
  <2>2. /\ s \o t \in Seq(S) /\ Len(s \o t) = Len(s) + Len(t)
        /\ \A i \in 1..(Len(s) + Len(t)) :
             (s \o t)[i] = IF i <= Len(s) THEN s[i] ELSE t[i - Len(s)]
    BY <1>1, ConcatProperties
  <2>3. Len(s) = 2
    BY <1>2
  <2> QED  BY <2>1, <2>2, <2>3
<1>4. \A i \in 1..3 : (s \o t)[i] = u[i]
  BY <1>2, <1>3
<1>5. s \o t = u
  BY <1>1, <1>2, <1>3, <1>4, SeqEqual
<1> QED  BY <1>5 DEF s, t, u

LEMMA JoinFour ==
  ASSUME NEW S, NEW a \in S, NEW b \in S, NEW c \in S, NEW d \in S
  PROVE  <<a, b, c>> \o <<d>> = <<a, b, c, d>>
<1> DEFINE s == <<a, b, c>>
           t == <<d>>
           u == <<a, b, c, d>>
<1>1. s \in Seq(S) /\ t \in Seq(S) /\ u \in Seq(S)
  OBVIOUS
<1>2. /\ Len(s) = 3 /\ Len(t) = 1 /\ Len(u) = 4
      /\ s[1] = u[1] /\ s[2] = u[2] /\ s[3] = u[3] /\ t[1] = u[4]
  OBVIOUS
<1> HIDE DEF s, t, u
<1>3. s \o t \in Seq(S) /\ Len(s \o t) = 4
      /\ \A i \in 1..4 : (s \o t)[i] = IF i <= 3 THEN s[i] ELSE t[i - 3]
  <2>1. Len(s) + Len(t) = 4
    BY <1>2
  <2>2. /\ s \o t \in Seq(S) /\ Len(s \o t) = Len(s) + Len(t)
        /\ \A i \in 1..(Len(s) + Len(t)) :
             (s \o t)[i] = IF i <= Len(s) THEN s[i] ELSE t[i - Len(s)]
    BY <1>1, ConcatProperties
  <2>3. Len(s) = 3
    BY <1>2
  <2> QED  BY <2>1, <2>2, <2>3
<1>4. \A i \in 1..4 : (s \o t)[i] = u[i]
  BY <1>2, <1>3
<1>5. s \o t = u
  BY <1>1, <1>2, <1>3, <1>4, SeqEqual
<1> QED  BY <1>5 DEF s, t, u

LEMMA NothingSelected ==
  ASSUME NEW S, NEW s \in Seq(S)
  PROVE  Select(s, {}) = <<>>
<1>1. Select(s, {}) \in Seq(S)
  BY SelectPlaces
<1>2. ToSet(Select(s, {})) = {}
  BY SelectElements
<1> QED  BY <1>1, <1>2, EmptySeq DEF ToSet

LEMMA SeqMonotone ==
  ASSUME NEW S, NEW T, S \subseteq T
  PROVE  Seq(S) \subseteq Seq(T)
  BY SeqDef

LEMMA ElementsTyped ==
  ASSUME NEW S, NEW s \in Seq(S)
  PROVE  ToSet(s) \subseteq S
  BY ElementOfSeq DEF ToSet

-----------------------------------------------------------------------------
(* The tables                                                               *)

Keys == ToSet(broadcastTemplateKeys)
Aliases == ToSet(broadcastGameAliasKeys)

LEMMA KeyTables ==
  /\ broadcastTemplateKeys \in Seq(Key)
  /\ broadcastGameAliasKeys \in Seq(Key)
<1>1. /\ <<"project", "zomboid">> \in Key
      /\ <<"satisfactory">> \in Key
      /\ <<"7", "days", "to", "die">> \in Key
      /\ <<"minecraft">> \in Key
      /\ <<"starbound">> \in Key
      /\ <<"factorio">> \in Key
  BY DEF Key, Atoms
<1>2. /\ <<"palworld">> \in Key
      /\ <<"terraria">> \in Key
      /\ <<"unturned">> \in Key
      /\ <<"vrising">> \in Key
      /\ <<"7", "dtd">> \in Key
      /\ <<"rust">> \in Key
  BY DEF Key, Atoms
<1>3. /\ <<"paper", "mc", "server">> \in Key
      /\ <<"neo", "forge">> \in Key
      /\ <<"paper", "mc">> \in Key
      /\ <<"vanilla">> \in Key
      /\ <<"bukkit">> \in Key
      /\ <<"fabric">> \in Key
  BY DEF Key, Atoms
<1>4. /\ <<"purpur">> \in Key
      /\ <<"spigot">> \in Key
      /\ <<"tshock">> \in Key
      /\ <<"forge">> \in Key
      /\ <<"paper">> \in Key
  BY DEF Key, Atoms
<1>5. broadcastTemplateKeys \in Seq(Key)
  BY <1>1, <1>2 DEF broadcastTemplateKeys
<1>6. broadcastGameAliasKeys \in Seq(Key)
  BY <1>3, <1>4 DEF broadcastGameAliasKeys
<1> QED  BY <1>5, <1>6

LEMMA KeysTyped == Keys \subseteq Key /\ Aliases \subseteq Key /\ Key \subseteq Seq(Pieces)
<1>1. Atoms \subseteq Pieces
  BY DEF Pieces
<1>2. Seq(Atoms) \subseteq Seq(Pieces)
  BY <1>1, SeqMonotone
<1> QED  BY <1>2, KeyTables, ElementsTyped DEF Keys, Aliases, Key

LEMMA SomeKeys ==
  /\ <<"project", "zomboid">> \in Keys
  /\ <<"7", "days", "to", "die">> \in Keys
  /\ <<"minecraft">> \in Keys
  /\ <<"terraria">> \in Keys
<1>1. {1, 3, 4, 8} \subseteq DOMAIN broadcastTemplateKeys
  BY DEF broadcastTemplateKeys
<1>2. /\ broadcastTemplateKeys[1] = <<"project", "zomboid">>
      /\ broadcastTemplateKeys[3] = <<"7", "days", "to", "die">>
      /\ broadcastTemplateKeys[4] = <<"minecraft">>
      /\ broadcastTemplateKeys[8] = <<"terraria">>
  BY DEF broadcastTemplateKeys
<1> QED  BY <1>1, <1>2 DEF Keys, ToSet

(* The aliases stand for games that have a template.                         *)
LEMMA AliasTarget == \A a \in Aliases : broadcastGameAliases[a] \in Keys
  BY SomeKeys DEF Aliases, broadcastGameAliases

LEMMA ProjectZomboidNormal ==
  normalizeGameName(ProjectZomboid) = <<"project", "zomboid">> /\ ProjectZomboid \in Name
<1> DEFINE pz == <<"project", "zomboid">>
           a == <<"project">>
           b == <<"zomboid">>
<1>1. {"project", "zomboid"} \subseteq Pieces
  BY DEF Pieces, Atoms
<1>2. a \in Seq(Pieces) /\ b \in Seq(Pieces) /\ a \o b = pz
  BY <1>1, JoinTwo
<1>3. ProjectZomboid = <<a, b>>
  BY DEF ProjectZomboid
<1> HIDE DEF a, b, pz
<1>4. normalizeGameName(ProjectZomboid) = a \o b
  BY <1>3, FlattenTwo DEF normalizeGameName
<1> QED  BY <1>2, <1>3, <1>4 DEF Name, pz

LEMMA SevenDaysNormal ==
  normalizeGameName(SevenDays) = <<"7", "days", "to", "die">> /\ SevenDays \in Name
<1> DEFINE sd == <<"7", "days", "to", "die">>
           a == <<"7">>
           b == <<"days">>
           c == <<"to">>
           d == <<"die">>
           ab == <<"7", "days">>
           abc == <<"7", "days", "to">>
<1>1. {"7", "days", "to", "die"} \subseteq Pieces
  BY DEF Pieces, Atoms
<1>2. a \in Seq(Pieces) /\ b \in Seq(Pieces) /\ c \in Seq(Pieces) /\ d \in Seq(Pieces)
  BY <1>1
<1>3. a \o b = ab
  BY <1>1, JoinTwo
<1>4. ab \o c = abc
  BY <1>1, JoinThree
<1>5. abc \o d = sd
  BY <1>1, JoinFour
<1>6. SevenDays = <<a, b, c, d>>
  BY DEF SevenDays
<1> HIDE DEF a, b, c, d, ab, abc, sd
<1>7. normalizeGameName(SevenDays) = ((a \o b) \o c) \o d
  <2>1. /\ Len(SevenDays) = 4 /\ SevenDays[1] = a /\ SevenDays[2] = b
        /\ SevenDays[3] = c /\ SevenDays[4] = d
    BY <1>6
  <2> QED  BY <2>1, FlattenFour DEF normalizeGameName
<1> QED  BY <1>2, <1>3, <1>4, <1>5, <1>6, <1>7 DEF Name, sd

(* The game a template reports normalises to a key again, and that key's     *)
(* template is the same: the two keys of 7 Days to Die have one template.    *)
LEMMA OwnName ==
  ASSUME NEW k \in Keys
  PROVE  /\ broadcastTemplates[k].Game \in Name
         /\ normalizeGameName(broadcastTemplates[k].Game) \in Keys
         /\ broadcastTemplates[normalizeGameName(broadcastTemplates[k].Game)]
              = broadcastTemplates[k]
<1> DEFINE pz == <<"project", "zomboid">>
           sd == <<"7", "days", "to", "die">>
<1>1. broadcastTemplates[pz] = Template(ProjectZomboid, "servermsg")
  BY SomeKeys DEF broadcastTemplates, Keys
<1>2. ASSUME k \in {<<"7", "dtd">>, sd} PROVE broadcastTemplates[k] = Template(SevenDays, "say")
  BY <1>2 DEF broadcastTemplates, Keys
<1>3. broadcastTemplates[sd] = Template(SevenDays, "say")
  BY SomeKeys DEF broadcastTemplates, Keys
<1>4. ASSUME k # pz, k \notin {<<"7", "dtd">>, sd}
      PROVE  \E verb : broadcastTemplates[k] = Template(Words(k), verb)
  BY <1>4 DEF broadcastTemplates, Keys
<1>5. normalizeGameName(ProjectZomboid) = pz /\ ProjectZomboid \in Name
  BY ProjectZomboidNormal
<1>6. normalizeGameName(SevenDays) = sd /\ SevenDays \in Name
  BY SevenDaysNormal
<1>7. pz \in Keys /\ sd \in Keys
  BY SomeKeys
<1> HIDE DEF pz, sd
<1>8. CASE k = pz
  BY <1>1, <1>5, <1>7, <1>8 DEF Template
<1>9. CASE k \in {<<"7", "dtd">>, sd}
  BY <1>2, <1>3, <1>6, <1>7, <1>9 DEF Template
<1>10. CASE k # pz /\ k \notin {<<"7", "dtd">>, sd}
  <2>1. PICK verb : broadcastTemplates[k] = Template(Words(k), verb)
    BY <1>4, <1>10
  <2>2. normalizeGameName(<<k>>) = k
    BY FlattenOne DEF normalizeGameName
  <2>3. <<k>> \in Name
    BY KeysTyped DEF Name
  <2> QED  BY <2>1, <2>2, <2>3 DEF Template, Words
<1> QED  BY <1>8, <1>9, <1>10

-----------------------------------------------------------------------------
(* Matching                                                                 *)

(* The first candidate is the whole name.                                    *)
LEMMA Candidates ==
  ASSUME NEW name \in Name
  PROVE  /\ normalizeGameName(name) \in Seq(Pieces)
         /\ normalizeGameNameCandidates(name) \in Seq(Seq(Pieces))
         /\ normalizeGameName(name) # <<>> =>
              /\ normalizeGameNameCandidates(name) # <<>>
              /\ normalizeGameNameCandidates(name)[1] = normalizeGameName(name)
<1> DEFINE base == normalizeGameName(name)
           said == Select(name, {i \in DOMAIN name : name[i] \notin ignoredGameTokens})
           filtered == FlattenSeq(said)
<1>1. base \in Seq(Pieces)
  BY FlattenType DEF normalizeGameName, Name
<1>2. said \in Seq(Seq(Pieces))
  BY SelectPlaces DEF Name
<1> HIDE DEF said
<1>3. filtered \in Seq(Pieces)
  BY <1>2, FlattenType
<1>4. normalizeGameNameCandidates(name) =
        IF base = <<>> THEN <<>>
        ELSE IF filtered \in {<<>>, base} THEN <<base>> ELSE <<base, filtered>>
  BY DEF normalizeGameNameCandidates, said
<1> HIDE DEF base, filtered
<1>5. base # <<>> => normalizeGameNameCandidates(name) \in {<<base>>, <<base, filtered>>}
  BY <1>4
<1>6. normalizeGameNameCandidates(name) \in Seq(Seq(Pieces))
  <2>1. <<>> \in Seq(Seq(Pieces)) /\ <<base>> \in Seq(Seq(Pieces))
        /\ <<base, filtered>> \in Seq(Seq(Pieces))
    BY <1>1, <1>3
  <2> QED  BY <1>4, <2>1
<1>7. <<base>>[1] = base /\ <<base, filtered>>[1] = base /\ <<base>> # <<>> /\ <<base, filtered>> # <<>>
  OBVIOUS
<1> QED  BY <1>1, <1>5, <1>6, <1>7 DEF base

(* A key is found if there is one.                                           *)
LEMMA FirstMatchFinds ==
  ASSUME NEW candidates \in Seq(Seq(Pieces)), NEW keys \in Seq(Key)
  PROVE  FirstMatch(candidates, keys) \in ToSet(keys) \cup {<<>>}
<1> DEFINE I == {i \in DOMAIN candidates :
                  \E k \in ToSet(keys) : Matches(candidates[i], k)}
           hits == Select(candidates, I)
           J == {i \in DOMAIN keys : Matches(hits[1], keys[i])}
           found == Select(keys, J)
<1>1. FirstMatch(candidates, keys) = IF hits = <<>> THEN <<>> ELSE found[1]
  BY DEF FirstMatch
<1>2. hits \in Seq(Seq(Pieces)) /\ ToSet(hits) = {candidates[i] : i \in I \cap DOMAIN candidates}
  BY SelectPlaces, SelectElements
<1>3. found \in Seq(Key) /\ ToSet(found) = {keys[i] : i \in J \cap DOMAIN keys}
  BY SelectPlaces, SelectElements
<1>4. CASE hits # <<>>
  <2>1. 1 \in DOMAIN hits
    <3> HIDE DEF hits
    <3> QED  BY <1>2, <1>4, EmptySeq
  <2>2. hits[1] \in ToSet(hits)
    BY <2>1 DEF ToSet
  <2>3. PICK i \in I : hits[1] = candidates[i]
    BY <1>2, <2>2
  <2>4. PICK k \in ToSet(keys) : Matches(hits[1], k)
    BY <2>3
  <2>5. PICK j \in DOMAIN keys : k = keys[j]
    BY <2>4 DEF ToSet
  <2>6. j \in J
    BY <2>4, <2>5
  <2> HIDE DEF hits, J
  <2>7. keys[j] \in ToSet(found)
    BY <1>3, <2>5, <2>6
  <2>8. 1 \in DOMAIN found
    <3> HIDE DEF found
    <3> QED  BY <1>3, <2>7, EmptySeq DEF ToSet
  <2>9. found[1] \in ToSet(found)
    BY <2>8 DEF ToSet
  <2>10. found[1] \in ToSet(keys)
    BY <1>3, <2>9 DEF ToSet
  <2> QED  BY <1>1, <1>4, <2>10
<1>5. CASE hits = <<>>
  BY <1>1, <1>5
<1> QED  BY <1>4, <1>5

Exact(candidates) ==
  Select(candidates, {i \in DOMAIN candidates : candidates[i] \in Keys})

LEMMA LookupIs ==
  ASSUME NEW name
  PROVE  lookupBroadcastTemplate(name) =
           LET candidates == normalizeGameNameCandidates(name)
               alias == FirstMatch(candidates, broadcastGameAliasKeys)
           IN  IF Exact(candidates) # <<>> THEN Exact(candidates)[1]
               ELSE IF alias # <<>> THEN broadcastGameAliases[alias]
               ELSE FirstMatch(candidates, broadcastTemplateKeys)
  BY DEF lookupBroadcastTemplate, Exact, Keys

(* What is found is a key of the table.                                      *)
LEMMA LookupFindsKey ==
  ASSUME NEW name \in Name
  PROVE  lookupBroadcastTemplate(name) \in Keys \cup {<<>>}
<1> DEFINE candidates == normalizeGameNameCandidates(name)
           exact == Exact(candidates)
           alias == FirstMatch(candidates, broadcastGameAliasKeys)
           partial == FirstMatch(candidates, broadcastTemplateKeys)
<1>1. candidates \in Seq(Seq(Pieces))
  BY Candidates
<1>2. lookupBroadcastTemplate(name) =
        IF exact # <<>> THEN exact[1]
        ELSE IF alias # <<>> THEN broadcastGameAliases[alias] ELSE partial
  BY LookupIs
<1> HIDE DEF candidates
<1>3. exact \in Seq(Seq(Pieces)) /\ ToSet(exact) \subseteq Keys
  <2> DEFINE I == {i \in DOMAIN candidates : candidates[i] \in Keys}
  <2>1. Select(candidates, I) \in Seq(Seq(Pieces))
    BY <1>1, SelectPlaces
  <2>2. ToSet(Select(candidates, I)) = {candidates[i] : i \in I \cap DOMAIN candidates}
    BY <1>1, SelectElements
  <2> QED  BY <2>1, <2>2 DEF Exact
<1>4. alias \in Aliases \cup {<<>>}
  BY <1>1, KeyTables, FirstMatchFinds DEF Aliases
<1>5. partial \in Keys \cup {<<>>}
  BY <1>1, KeyTables, FirstMatchFinds DEF Keys
<1> HIDE DEF exact, alias, partial
<1>6. exact # <<>> => exact[1] \in Keys
  BY <1>3, EmptySeq DEF ToSet
<1> QED  BY <1>2, <1>4, <1>5, <1>6, AliasTarget

(* A name that normalises to a key finds that key.                           *)
LEMMA ExactMatch ==
  ASSUME NEW name \in Name, normalizeGameName(name) \in Keys
  PROVE  lookupBroadcastTemplate(name) = normalizeGameName(name)
<1> DEFINE candidates == normalizeGameNameCandidates(name)
           I == {i \in DOMAIN candidates : candidates[i] \in Keys}
<1>1. normalizeGameName(name) # <<>>
  BY KeysTyped DEF Key
<1>2. /\ candidates \in Seq(Seq(Pieces)) /\ candidates # <<>>
      /\ candidates[1] = normalizeGameName(name)
  BY <1>1, Candidates
<1>3. 1 \in I
  <2> HIDE DEF candidates
  <2> QED  BY <1>2, EmptySeq
<1>4. Select(candidates, I) # <<>> /\ Select(candidates, I)[1] = candidates[1]
  <2> HIDE DEF candidates, I
  <2> QED  BY <1>2, <1>3, SelectHead
<1>5. Exact(candidates) # <<>> /\ Exact(candidates)[1] = normalizeGameName(name)
  BY <1>2, <1>4 DEF Exact
<1> QED  BY <1>5, LookupIs

(* A piece of one name is found in the other.                                *)
LEMMA WithinShares ==
  ASSUME NEW S, NEW p \in Seq(S), NEW w \in Seq(S), p # <<>>, Within(p, w)
  PROVE  \E j \in DOMAIN w : 1 \in DOMAIN p /\ w[j] = p[1]
<1>1. Len(p) \in Nat /\ Len(p) >= 1 /\ Len(w) \in Nat
  BY EmptySeq
<1>2. PICK i \in 0..(Len(w) - Len(p)) : SubSeq(w, i + 1, i + Len(p)) = p
  BY DEF Within
<1> DEFINE m == i + 1
           n == i + Len(p)
<1>3. m \in Int /\ n \in Int /\ m \in 1..Len(w) /\ n \in 1..Len(w) /\ 1 \in 1..(n - m + 1)
      /\ m + 1 - 1 = m
  BY <1>1, <1>2
<1>4. SubSeq(w, m, n) = p
  BY <1>2
<1> HIDE DEF m, n
<1>5. \A j \in m..n : w[j] \in S
  BY <1>1, <1>3, ElementOfSeq
<1>6. \A j \in 1..(n - m + 1) : SubSeq(w, m, n)[j] = w[m + j - 1]
  <2>1. m \in Int /\ n \in Int
    BY <1>3
  <2> QED  BY <1>5, <2>1, SubSeqProperties
<1>7. p[1] = w[m]
  BY <1>3, <1>4, <1>6
<1> QED  BY <1>1, <1>3, <1>7

(* The name reported when there is none stands for no template.              *)
LEMMA NoKeySaysDefault ==
  ASSUME NEW k \in Key
  PROVE  ~Matches(<<"default">>, k)
<1> DEFINE c == <<"default">>
<1>1. c \in Seq(Pieces) /\ c # <<>> /\ \A j \in DOMAIN c : c[j] = "default"
  BY DEF Pieces
<1>2. k \in Seq(Atoms) /\ k \in Seq(Pieces) /\ k # <<>>
  BY KeysTyped DEF Key
<1>3. "default" \notin Atoms
  BY DEF Atoms
<1>4. \A j \in DOMAIN k : k[j] # "default"
  BY <1>2, <1>3, ElementOfSeq
<1> HIDE DEF c
<1>5. ASSUME Within(k, c) PROVE FALSE
  <2>1. PICK j \in DOMAIN c : 1 \in DOMAIN k /\ c[j] = k[1]
    BY <1>1, <1>2, <1>5, WithinShares
  <2> QED  BY <1>1, <1>4, <2>1
<1>6. ASSUME Within(c, k) PROVE FALSE
  <2>1. PICK j \in DOMAIN k : 1 \in DOMAIN c /\ k[j] = c[1]
    BY <1>1, <1>2, <1>6, WithinShares
  <2> QED  BY <1>1, <1>4, <2>1
<1> QED  BY <1>5, <1>6 DEF Matches, c

LEMMA DefaultUnknown == lookupBroadcastTemplate(DefaultGame) = <<>>
<1> DEFINE c == <<"default">>
           I == {i \in DOMAIN DefaultGame : DefaultGame[i] \notin ignoredGameTokens}
           candidates == normalizeGameNameCandidates(DefaultGame)
<1>1. c \in Seq(Pieces) /\ c # <<>> /\ DefaultGame = <<c>>
  BY DEF Pieces, DefaultGame
<1>2. c \notin ignoredGameTokens
  BY DEF ignoredGameTokens, Words
<1> HIDE DEF c
<1>3. normalizeGameName(DefaultGame) = c
  BY <1>1, FlattenOne DEF normalizeGameName
<1>4. Select(DefaultGame, I) = DefaultGame
  <2>1. DOMAIN DefaultGame \subseteq I /\ DefaultGame \in Seq(Seq(Pieces))
    BY <1>1, <1>2
  <2> HIDE DEF I
  <2> QED  BY <2>1, SelectAll
<1>5. candidates = <<c>>
  BY <1>1, <1>3, <1>4 DEF normalizeGameNameCandidates, normalizeGameName
<1> HIDE DEF candidates
<1>6. /\ candidates \in Seq(Seq(Pieces)) /\ Len(candidates) = 1 /\ candidates[1] = c
      /\ DOMAIN candidates = {1}
  BY <1>1, <1>5
<1>7. ASSUME NEW keys \in Seq(Key) PROVE FirstMatch(candidates, keys) = <<>>
  <2> DEFINE H == {i \in DOMAIN candidates : \E k \in ToSet(keys) : Matches(candidates[i], k)}
  <2>1. \A k \in ToSet(keys) : ~Matches(c, k)
    BY <1>7, ElementsTyped, NoKeySaysDefault DEF c
  <2>2. H = {}
    BY <1>6, <2>1
  <2>3. Select(candidates, H) = <<>>
    BY <1>6, <2>2, NothingSelected
  <2> QED  BY <2>3 DEF FirstMatch
<1>8. Exact(candidates) = <<>>
  <2> DEFINE H == {i \in DOMAIN candidates : candidates[i] \in Keys}
  <2>1. c \notin Keys
    <3>1. "default" \notin Atoms
      BY DEF Atoms
    <3>2. c \notin Seq(Atoms)
      BY <3>1, ElementOfSeq DEF c
    <3> QED  BY <3>2, KeysTyped DEF Key
  <2>2. H = {}
    BY <1>6, <2>1
  <2>3. Select(candidates, H) = <<>>
    BY <1>6, <2>2, NothingSelected
  <2> QED  BY <2>3 DEF Exact
<1> QED  BY <1>7, <1>8, KeyTables, LookupIs DEF candidates

-----------------------------------------------------------------------------
(* Broadcasts                                                               *)

(* The invariant: what is reported and decided follows from the broadcast.   *)
GamesInv ==
  /\ types \in FallbackTypes
  /\ game \in Games \cup {<<>>}
  /\ override \in BOOLEAN
  /\ \/ /\ reported = BroadcastGame(game, override)
        /\ fallback = shouldFallbackToDocker(buildGameAllowlist(types), reported)
     \/ reported = <<>> /\ fallback = FALSE

LEMMA Broadcasts == CommandsSpec => []GamesInv
<1>1. CommandsInit => GamesInv
  BY DEF CommandsInit, Init, GamesInv
<1>2. GamesInv /\ [CommandsNext]_commandVars => GamesInv'
  <2> SUFFICES ASSUME GamesInv, [CommandsNext]_commandVars PROVE GamesInv'
    OBVIOUS
  <2>1. ASSUME NEW g \in Games, NEW o \in BOOLEAN, Broadcast(g, o) PROVE GamesInv'
    BY <2>1 DEF Broadcast, GamesInv
  <2>2. CASE UNCHANGED vars
    BY <2>2 DEF vars, GamesInv
  <2> QED  BY <2>1, <2>2 DEF CommandsNext, commandVars, Next
<1> QED  BY <1>1, <1>2, PTL DEF CommandsSpec

LEMMA NamesTyped == Seq(Seq(STRING)) \subseteq Name
<1>1. STRING \subseteq Pieces
  BY DEF Pieces
<1> QED  BY <1>1, SeqMonotone DEF Name

LEMMA GameTyped == GamesInv => game \in Name
<1>1. <<>> \in Name
  BY DEF Name
<1> QED  BY <1>1, NamesTyped, NameAssumption DEF GamesInv

(* A client that broadcasts again with the "game" of a delivery gets the same *)
(* console command, whatever the game was called: known, by an alias, by a    *)
(* part of its name, unknown or not at all (buildBroadcastCommand).          *)
THEOREM ReportedGameSameCommandHolds == CommandsSpec => []ReportedGameSameCommand
<1>1. GamesInv => ReportedGameSameCommand
  <2> SUFFICES ASSUME GamesInv, ~override, reported # <<>>
               PROVE  BroadcastTemplate(reported).Template = BroadcastTemplate(game).Template
    BY DEF ReportedGameSameCommand
  <2> DEFINE key == lookupBroadcastTemplate(game)
  <2>1. reported = BroadcastTemplate(game).Game
    BY DEF GamesInv, BroadcastGame
  <2>2. game \in Name
    BY GameTyped
  <2>3. key \in Keys \cup {<<>>}
    BY <2>2, LookupFindsKey
  <2>4. <<>> \notin Keys
    BY KeysTyped DEF Key
  <2>5. CASE key # <<>>
    <3>1. key \in Keys /\ BroadcastTemplate(game) = broadcastTemplates[key]
      BY <2>3, <2>5 DEF BroadcastTemplate
    <3> HIDE DEF key
    <3>2. /\ reported \in Name /\ normalizeGameName(reported) \in Keys
          /\ broadcastTemplates[normalizeGameName(reported)] = broadcastTemplates[key]
      BY <2>1, <3>1, OwnName
    <3>3. lookupBroadcastTemplate(reported) = normalizeGameName(reported)
      BY <3>2, ExactMatch
    <3>4. BroadcastTemplate(reported) = broadcastTemplates[normalizeGameName(reported)]
      BY <2>4, <3>2, <3>3 DEF BroadcastTemplate
    <3> QED  BY <3>1, <3>2, <3>4
  <2>6. CASE key = <<>> /\ game # <<>>
    <3>1. BroadcastTemplate(game) = Template(game, "say")
      BY <2>6 DEF BroadcastTemplate
    <3>2. reported = game
      BY <2>1, <3>1 DEF Template
    <3> QED  BY <3>2
  <2>7. CASE key = <<>> /\ game = <<>>
    <3>1. BroadcastTemplate(game) = Template(DefaultGame, "say")
      BY <2>7 DEF BroadcastTemplate
    <3>2. reported = DefaultGame
      BY <2>1, <3>1 DEF Template
    <3>3. BroadcastTemplate(DefaultGame).Template = "say"
      BY DefaultUnknown DEF BroadcastTemplate, Template
    <3> QED  BY <3>1, <3>2, <3>3 DEF Template
  <2> QED  BY <2>5, <2>6, <2>7
<1> QED  BY <1>1, Broadcasts, PTL

(* A broadcast whose delivery reports a game that the operator has copied     *)
(* into the allowlist falls back, if the names listed have a letter or a     *)
(* digit each (shouldFallbackToDocker).                                     *)
THEOREM ReportedGameMayBeAllowedHolds ==
  ASSUME \A T \in FallbackTypes : \A v \in T : normalizeGameName(v) # <<>>
  PROVE  CommandsSpec => []ReportedGameMayBeAllowed
<1>1. GamesInv => ReportedGameMayBeAllowed
  <2> SUFFICES ASSUME GamesInv, reported # <<>>, reported \in types PROVE fallback
    BY DEF ReportedGameMayBeAllowed
  <2> DEFINE base == normalizeGameName(reported)
             candidates == normalizeGameNameCandidates(reported)
  <2>1. reported \in Name
    BY NamesTyped, NameAssumption DEF GamesInv
  <2>2. base # <<>> /\ base \in Seq(Pieces)
    BY <2>1, Candidates DEF GamesInv
  <2>3. candidates # <<>> /\ candidates[1] = base /\ candidates \in Seq(Seq(Pieces))
    BY <2>1, <2>2, Candidates
  <2>4. base \in ToSet(candidates)
    <3> HIDE DEF base, candidates
    <3> QED  BY <2>3, EmptySeq DEF ToSet
  <2>5. Within(base, base)
    <3> HIDE DEF base
    <3>1. Len(base) \in Nat /\ 0 \in 0..(Len(base) - Len(base))
      BY <2>2
    <3>2. SubSeq(base, 0 + 1, 0 + Len(base)) = base
      BY <2>2, <3>1, SubSeqFull
    <3> QED  BY <3>1, <3>2 DEF Within
  <2>6. base \in buildGameAllowlist(types)
    BY <2>4 DEF buildGameAllowlist
  <2>7. gameMatchesNormalizedKey(reported, base)
    BY <2>4, <2>5 DEF gameMatchesNormalizedKey, Matches
  <2> QED  BY <2>6, <2>7 DEF GamesInv, shouldFallbackToDocker
<1> QED  BY <1>1, Broadcasts, PTL

-----------------------------------------------------------------------------
(* Games keep apart                                                         *)

(* No piece belongs to the normal forms of two reported games: the one it    *)
(* belongs to is its owner.                                                 *)
Singles == {"satisfactory", "minecraft", "starbound", "factorio", "palworld", "terraria",
            "unturned", "vrising", "rust"}

Owner(a) ==
  IF a \in {"project", "zomboid"} THEN <<"project", "zomboid">>
  ELSE IF a \in {"7", "days", "to", "die"} THEN <<"7", "days", "to", "die">> ELSE <<a>>

LEMMA KeyKinds ==
  \A k \in Keys : \/ k \in {<<"project", "zomboid">>, <<"7", "days", "to", "die">>, <<"7", "dtd">>}
                  \/ \E a \in Singles : k = <<a>>
<1> DEFINE Kinds == {<<"project", "zomboid">>, <<"7", "days", "to", "die">>, <<"7", "dtd">>}
                      \cup {<<a>> : a \in Singles}
<1>1. /\ <<"project", "zomboid">> \in Kinds
      /\ <<"satisfactory">> \in Kinds
      /\ <<"7", "days", "to", "die">> \in Kinds
      /\ <<"minecraft">> \in Kinds
      /\ <<"starbound">> \in Kinds
      /\ <<"factorio">> \in Kinds
  BY DEF Singles
<1>2. /\ <<"palworld">> \in Kinds
      /\ <<"terraria">> \in Kinds
      /\ <<"unturned">> \in Kinds
      /\ <<"vrising">> \in Kinds
      /\ <<"7", "dtd">> \in Kinds
      /\ <<"rust">> \in Kinds
  BY DEF Singles
<1> HIDE DEF Kinds
<1>3. broadcastTemplateKeys \in Seq(Kinds)
  BY <1>1, <1>2 DEF broadcastTemplateKeys
<1>4. Keys \subseteq Kinds
  BY <1>3, ElementsTyped DEF Keys
<1> QED  BY <1>4 DEF Kinds

(* What the matching makes of a reported game.                               *)
LEMMA ReportedNormal ==
  ASSUME NEW v \in ReportedGames
  PROVE  \E b \in Keys :
           /\ normalizeGameName(v) = b
           /\ normalizeGameNameCandidates(v) = <<b>>
           /\ broadcastTemplates[b].Game = v
           /\ \A j \in DOMAIN b : Owner(b[j]) = b
<1> DEFINE pz == <<"project", "zomboid">>
           sd == <<"7", "days", "to", "die">>
           b == normalizeGameName(v)
           I == {i \in DOMAIN v : v[i] \notin ignoredGameTokens}
<1>1. PICK k \in Keys : v = broadcastTemplates[k].Game
  BY DEF ReportedGames, Keys
<1>2. v \in Name /\ b \in Keys /\ broadcastTemplates[b].Game = v
  BY <1>1, OwnName
<1>3. \/ v = ProjectZomboid /\ b = pz
      \/ v = SevenDays /\ b = sd
      \/ \E a \in Singles : v = <<b>> /\ b = <<a>>
  <2>1. CASE k \in {sd, <<"7", "dtd">>}
    <3>1. broadcastTemplates[k] = Template(SevenDays, "say")
      BY <2>1 DEF broadcastTemplates, Keys
    <3>2. v = SevenDays
      BY <1>1, <3>1 DEF Template
    <3> QED  BY <3>2, SevenDaysNormal
  <2>2. CASE k = pz
    <3>1. v = ProjectZomboid
      BY <1>1, <2>2 DEF broadcastTemplates, Keys, Template
    <3> QED  BY <3>1, ProjectZomboidNormal
  <2>3. CASE k \notin {pz, sd, <<"7", "dtd">>}
    <3>1. v = <<k>>
      BY <1>1, <2>3 DEF broadcastTemplates, Keys, Template, Words
    <3>2. b = k
      BY <3>1, FlattenOne DEF normalizeGameName
    <3> QED  BY <2>3, <3>1, <3>2, KeyKinds
  <2> QED  BY <2>1, <2>2, <2>3
<1>4. \A j \in DOMAIN b : Owner(b[j]) = b
  <2>1. CASE b = pz
    BY <2>1 DEF Owner
  <2>2. CASE b = sd
    BY <2>2 DEF Owner
  <2>3. ASSUME NEW a \in Singles, b = <<a>> PROVE \A j \in DOMAIN b : Owner(b[j]) = b
    <3>1. a \notin {"project", "zomboid"} /\ a \notin {"7", "days", "to", "die"}
      BY DEF Singles
    <3>2. DOMAIN b = {1} /\ b[1] = a
      BY <2>3
    <3>3. Owner(a) = <<a>>
      BY <3>1 DEF Owner
    <3> QED  BY <2>3, <3>2, <3>3
  <2> QED  BY <1>3, <2>1, <2>2, <2>3
<1>5. Select(v, I) = v
  <2>1. \A a \in Singles \cup {"project", "zomboid", "7", "days", "to", "die"} :
          <<a>> \notin ignoredGameTokens
    BY DEF Singles, ignoredGameTokens, Words
  <2>2. DOMAIN v \subseteq I
    <3>1. CASE v = ProjectZomboid
      <4>1. DOMAIN v = 1..2 /\ v[1] = <<"project">> /\ v[2] = <<"zomboid">>
        BY <3>1 DEF ProjectZomboid
      <4>2. \A i \in 1..2 : i = 1 \/ i = 2
        OBVIOUS
      <4> QED  BY <2>1, <4>1, <4>2
    <3>2. CASE v = SevenDays
      <4>1. DOMAIN v = 1..4 /\ v[1] = <<"7">> /\ v[2] = <<"days">> /\ v[3] = <<"to">> /\ v[4] = <<"die">>
        BY <3>2 DEF SevenDays
      <4>2. \A i \in 1..4 : i = 1 \/ i = 2 \/ i = 3 \/ i = 4
        OBVIOUS
      <4> QED  BY <2>1, <4>1, <4>2
    <3>3. ASSUME NEW a \in Singles, v = << <<a>> >> PROVE DOMAIN v \subseteq I
      <4>1. DOMAIN v = {1} /\ v[1] = <<a>>
        BY <3>3
      <4> QED  BY <2>1, <4>1
    <3> QED  BY <1>3, <3>1, <3>2, <3>3
  <2> HIDE DEF I
  <2> QED  BY <1>2, <2>2, SelectAll DEF Name
<1>6. normalizeGameNameCandidates(v) = <<b>>
  <2>1. b # <<>>
    BY <1>2, KeysTyped DEF Key
  <2> QED  BY <1>5, <2>1 DEF normalizeGameNameCandidates, normalizeGameName
<1> QED  BY <1>2, <1>4, <1>6

Shares(c, k) == \E i \in DOMAIN c : \E j \in DOMAIN k : c[i] = k[j]

(* A listed name has pieces of no game but the one whose template it selects. *)
NamesOneGame(v) ==
  \A c \in ToSet(normalizeGameNameCandidates(v)), k \in Keys :
    Shares(c, k) => broadcastTemplates[k].Game = broadcastTemplates[lookupBroadcastTemplate(v)].Game

(* So it is with the names that the agent reports.                           *)
LEMMA ReportedNamesOneGame == \A v \in ReportedGames : NamesOneGame(v)
<1> SUFFICES ASSUME NEW v \in ReportedGames, NEW c \in ToSet(normalizeGameNameCandidates(v)),
                    NEW k \in Keys, Shares(c, k)
             PROVE  broadcastTemplates[k].Game = broadcastTemplates[lookupBroadcastTemplate(v)].Game
  BY DEF NamesOneGame
<1> DEFINE sd == <<"7", "days", "to", "die">>
<1>1. PICK b \in Keys : /\ normalizeGameName(v) = b
                        /\ normalizeGameNameCandidates(v) = <<b>>
                        /\ broadcastTemplates[b].Game = v
                        /\ \A l \in DOMAIN b : Owner(b[l]) = b
  BY ReportedNormal
<1>2. c = b
  BY <1>1 DEF ToSet
<1>3. lookupBroadcastTemplate(v) = b
  <2>1. v \in Name
    BY OwnName DEF ReportedGames, Keys
  <2> QED  BY <1>1, <2>1, ExactMatch
<1>4. PICK l \in DOMAIN b : \E j \in DOMAIN k : b[l] = k[j]
  BY <1>2 DEF Shares
<1>5. PICK j \in DOMAIN k : b[l] = k[j]
  BY <1>4
<1>6. Owner(k[j]) = b
  BY <1>1, <1>5
<1>7. CASE k = <<"7", "dtd">>
  <2>1. j \in {1, 2} /\ k[1] = "7" /\ k[2] = "dtd"
    BY <1>7
  <2>2. b # <<"dtd">>
    BY KeyKinds DEF Singles
  <2>3. Owner("7") = sd /\ Owner("dtd") = <<"dtd">>
    BY DEF Owner
  <2>4. b = sd
    BY <1>6, <2>1, <2>2, <2>3
  <2>5. broadcastTemplates[k] = Template(SevenDays, "say")
    BY <1>7 DEF broadcastTemplates, Keys
  <2>6. broadcastTemplates[b] = Template(SevenDays, "say")
    BY <2>4 DEF broadcastTemplates, Keys
  <2> QED  BY <1>3, <2>5, <2>6
<1>8. CASE k # <<"7", "dtd">>
  <2>1. Owner(k[j]) = k
    <3>1. CASE k = <<"project", "zomboid">>
      BY <3>1 DEF Owner
    <3>2. CASE k = sd
      BY <3>2 DEF Owner
    <3>3. ASSUME NEW a \in Singles, k = <<a>> PROVE Owner(k[j]) = k
      <4>1. a \notin {"project", "zomboid"} /\ a \notin {"7", "days", "to", "die"}
        BY DEF Singles
      <4>2. k[j] = a
        BY <3>3
      <4> QED  BY <3>3, <4>1, <4>2 DEF Owner
    <3> QED  BY <1>8, <3>1, <3>2, <3>3, KeyKinds
  <2> QED  BY <1>3, <1>6, <2>1
<1> QED  BY <1>7, <1>8

(* No candidate is empty, and a name without candidates finds no template.   *)
LEMMA CandidatesSay ==
  ASSUME NEW v \in Name
  PROVE  /\ \A c \in ToSet(normalizeGameNameCandidates(v)) : c \in Seq(Pieces) /\ c # <<>>
         /\ lookupBroadcastTemplate(v) # <<>> => ToSet(normalizeGameNameCandidates(v)) # {}
<1> DEFINE cs == normalizeGameNameCandidates(v)
           base == normalizeGameName(v)
           filtered == FlattenSeq(Select(v, {i \in DOMAIN v : v[i] \notin ignoredGameTokens}))
<1>1. cs = IF base = <<>> THEN <<>>
           ELSE IF filtered \in {<<>>, base} THEN <<base>> ELSE <<base, filtered>>
  BY DEF normalizeGameNameCandidates
<1>2. cs \in Seq(Seq(Pieces))
  BY Candidates
<1> HIDE DEF cs, base, filtered
<1>3. \A c \in ToSet(cs) : c \in Seq(Pieces) /\ c # <<>>
  <2>1. CASE base = <<>>
    BY <1>1, <2>1 DEF ToSet
  <2>2. CASE base # <<>> /\ filtered \in {<<>>, base}
    <3>1. cs = <<base>>
      BY <1>1, <2>2
    <3> QED  BY <1>2, <2>2, <3>1 DEF ToSet
  <2>3. CASE base # <<>> /\ filtered \notin {<<>>, base}
    <3>1. cs = <<base, filtered>>
      BY <1>1, <2>3
    <3>2. ToSet(cs) = {base, filtered}
      BY <3>1 DEF ToSet
    <3>3. base \in Seq(Pieces) /\ filtered \in Seq(Pieces)
      BY <1>2, <3>1
    <3> QED  BY <2>3, <3>2, <3>3
  <2> QED  BY <2>1, <2>2, <2>3
<1>4. ASSUME cs = <<>> PROVE lookupBroadcastTemplate(v) = <<>>
  <2>1. \A I : Select(cs, I) = <<>>
    <3>1. \A I : DOMAIN cs \subseteq I
      BY <1>4
    <3> QED  BY <1>2, <1>4, <3>1, SelectAll
  <2>2. Exact(cs) = <<>> /\ \A keys : FirstMatch(cs, keys) = <<>>
    BY <2>1 DEF Exact, FirstMatch
  <2> QED  BY <2>2, LookupIs DEF cs
<1>5. cs # <<>> => ToSet(cs) # {}
  <2>1. cs # <<>> => 1 \in DOMAIN cs
    BY <1>2, EmptySeq
  <2> QED  BY <2>1 DEF ToSet
<1> QED  BY <1>3, <1>4, <1>5 DEF cs

(* Where every name listed has pieces of one game only, the allowlist lets    *)
(* no other game fall back: a broadcast built from a template falls back      *)
(* only if a listed name stands for its game (shouldFallbackToDocker).       *)
THEOREM FallbackStaysWithinGameHolds ==
  ASSUME \A T \in FallbackTypes : \A v \in T :
           lookupBroadcastTemplate(v) # <<>> => NamesOneGame(v)
  PROVE  CommandsSpec => []FallbackStaysWithinGame
<1>1. GamesInv => FallbackStaysWithinGame
  <2> SUFFICES ASSUME GamesInv, types # {}, \A v \in types : lookupBroadcastTemplate(v) # <<>>,
                      lookupBroadcastTemplate(game) # <<>>, ~override, fallback
               PROVE  \E v \in types :
                        broadcastTemplates[lookupBroadcastTemplate(v)].Game = reported
    BY DEF FallbackStaysWithinGame
  <2>1. \A v \in types : v \in Name /\ NamesOneGame(v)
    BY NameAssumption, NamesTyped DEF GamesInv
  <2>2. reported \in ReportedGames
    <3>1. game \in Name
      BY GameTyped
    <3>2. lookupBroadcastTemplate(game) \in Keys
      BY <3>1, LookupFindsKey
    <3>3. reported = broadcastTemplates[lookupBroadcastTemplate(game)].Game
      BY DEF GamesInv, BroadcastGame, BroadcastTemplate
    <3> QED  BY <3>2, <3>3 DEF Keys, ReportedGames
  <2>3. shouldFallbackToDocker(buildGameAllowlist(types), reported)
    BY DEF GamesInv
  <2>4. PICK b \in Keys : /\ normalizeGameNameCandidates(reported) = <<b>>
                          /\ broadcastTemplates[b].Game = reported
    BY <2>2, ReportedNormal
  <2>5. buildGameAllowlist(types) # {}
    <3>1. PICK v \in types : TRUE
      OBVIOUS
    <3>2. ToSet(normalizeGameNameCandidates(v)) # {}
      BY <2>1, <3>1, CandidatesSay
    <3> QED  BY <3>1, <3>2 DEF buildGameAllowlist
  <2>6. PICK c \in buildGameAllowlist(types) : gameMatchesNormalizedKey(reported, c)
    BY <2>3, <2>5 DEF shouldFallbackToDocker
  <2>7. PICK v \in types : c \in ToSet(normalizeGameNameCandidates(v))
    BY <2>6 DEF buildGameAllowlist
  <2>8. Matches(b, c)
    <3>1. ToSet(<<b>>) = {b}
      BY DEF ToSet
    <3> QED  BY <2>4, <2>6, <3>1 DEF gameMatchesNormalizedKey
  <2>9. Shares(c, b)
    <3>1. b \in Seq(Pieces) /\ c \in Seq(Pieces) /\ b # <<>> /\ c # <<>>
      BY <2>1, <2>7, KeysTyped, CandidatesSay DEF Key
    <3>2. CASE Within(c, b)
      BY <3>1, <3>2, WithinShares DEF Shares
    <3>3. CASE Within(b, c)
      BY <3>1, <3>3, WithinShares DEF Shares
    <3> QED  BY <2>8, <3>2, <3>3 DEF Matches
  <2>10. broadcastTemplates[lookupBroadcastTemplate(v)].Game = reported
    BY <2>1, <2>4, <2>7, <2>9 DEF NamesOneGame
  <2> QED  BY <2>10
<1> QED  BY <1>1, Broadcasts, PTL

-----------------------------------------------------------------------------
(* The reader of a quoted text                                              *)

Inside(said) == [place |-> "within", said |-> said]

Hearing(text, n, f) ==
  f = [i \in 0..n |-> IF i = 0 THEN R!Opening ELSE R!Hear(f[i - 1], text[i])]

LEMMA HearingExists ==
  ASSUME NEW text, NEW n \in Nat
  PROVE  \E f : Hearing(text, n, f)
<1> DEFINE T == {i \in 0..n : \E f : Hearing(text, i, f)}
<1>1. 0 \in T
  <2>1. Hearing(text, 0, [i \in 0..0 |-> R!Opening])
    BY DEF Hearing
  <2> QED  BY <2>1
<1>2. ASSUME NEW k \in 0..n, k \in T, k < n PROVE k + 1 \in T
  <2>1. PICK g : Hearing(text, k, g)
    BY <1>2
  <2> DEFINE last == R!Hear(g[k], text[k + 1])
             h == [i \in 0..(k + 1) |-> IF i = k + 1 THEN last ELSE g[i]]
  <2>2. \A i \in 0..k : g[i] = IF i = 0 THEN R!Opening ELSE R!Hear(g[i - 1], text[i])
    BY <2>1 DEF Hearing
  <2>3. ASSUME NEW i \in 0..(k + 1)
        PROVE  h[i] = IF i = 0 THEN R!Opening ELSE R!Hear(h[i - 1], text[i])
    <3>1. CASE i = k + 1
      <4>1. h[i] = last /\ h[i - 1] = g[k] /\ i - 1 = k /\ i # 0
        BY <3>1
      <4> QED  BY <3>1, <4>1
    <3>2. CASE i # k + 1
      <4>1. i \in 0..k /\ h[i] = g[i] /\ (i # 0 => i - 1 \in 0..k /\ h[i - 1] = g[i - 1])
        BY <3>2
      <4> QED  BY <4>1, <2>2
    <3> QED  BY <3>1, <3>2
  <2>4. Hearing(text, k + 1, h)
    <3> HIDE DEF last
    <3>1. h = [i \in 0..(k + 1) |-> h[i]]
      OBVIOUS
    <3> HIDE DEF h
    <3> QED  BY <2>3, <3>1 DEF Hearing
  <2> QED  BY <2>4, <1>2
<1>3. \A i \in 0..n : i \in T
  BY <1>1, <1>2, InductionUpTo
<1> QED  BY <1>3

LEMMA HeardIs ==
  ASSUME NEW text, Len(text) \in Nat
  PROVE  \E f : Hearing(text, Len(text), f) /\ R!Heard(text) = f[Len(text)]
<1> DEFINE h == CHOOSE f : Hearing(text, Len(text), f)
<1>1. Hearing(text, Len(text), h)
  BY HearingExists
<1>2. R!Heard(text) = h[Len(text)]
  BY DEF R!Heard, Hearing
<1> QED  BY <1>1, <1>2

LEMMA HeardNothing == R!Heard(<<>>) = R!Opening
<1>1. Len(<<>>) = 0
  OBVIOUS
<1>2. PICK f : Hearing(<<>>, 0, f) /\ R!Heard(<<>>) = f[0]
  BY <1>1, HeardIs
<1> QED  BY <1>2 DEF Hearing

(* A reader hears one character after the other.                            *)
LEMMA HeardNext ==
  ASSUME NEW S, NEW text \in Seq(S), NEW c \in S
  PROVE  R!Heard(Append(text, c)) = R!Hear(R!Heard(text), c)
<1> DEFINE n == Len(text)
           u == Append(text, c)
<1>1. n \in Nat /\ Len(u) = n + 1 /\ (\A i \in 1..n : u[i] = text[i]) /\ u[n + 1] = c
  BY AppendProperties
<1>2. PICK f : Hearing(text, n, f) /\ R!Heard(text) = f[n]
  BY <1>1, HeardIs
<1> HIDE DEF n, u
<1>3. PICK g : Hearing(u, n + 1, g) /\ R!Heard(u) = g[n + 1]
  <2>1. Len(u) \in Nat
    BY <1>1
  <2> QED  BY <1>1, <2>1, HeardIs
<1>4. \A i \in 0..n : f[i] = IF i = 0 THEN R!Opening ELSE R!Hear(f[i - 1], text[i])
  BY <1>2 DEF Hearing
<1>5. \A i \in 0..(n + 1) : g[i] = IF i = 0 THEN R!Opening ELSE R!Hear(g[i - 1], u[i])
  BY <1>3 DEF Hearing
<1> DEFINE T == {i \in 0..n : g[i] = f[i]}
<1>6. 0 \in T
  BY <1>1, <1>4, <1>5
<1>7. ASSUME NEW k \in 0..n, k \in T, k < n PROVE k + 1 \in T
  <2>1. k + 1 \in 1..n /\ k + 1 \in 0..n /\ k + 1 \in 0..(n + 1) /\ (k + 1) - 1 = k /\ k + 1 # 0
    BY <1>1, <1>7
  <2>2. f[k + 1] = R!Hear(f[k], text[k + 1])
    BY <1>4, <2>1
  <2>3. g[k + 1] = R!Hear(g[k], u[k + 1])
    BY <1>5, <2>1
  <2>4. g[k] = f[k] /\ u[k + 1] = text[k + 1]
    BY <1>1, <1>7, <2>1
  <2> QED  BY <2>1, <2>2, <2>3, <2>4
<1>8. \A i \in 0..n : i \in T
  BY <1>1, <1>6, <1>7, InductionUpTo
<1>9. g[n] = f[n]
  BY <1>1, <1>8
<1>10. g[n + 1] = R!Hear(g[n], u[n + 1])
  <2>1. n + 1 \in 0..(n + 1) /\ n + 1 # 0 /\ (n + 1) - 1 = n
    BY <1>1
  <2> QED  BY <1>5, <2>1
<1> QED  BY <1>1, <1>2, <1>3, <1>9, <1>10 DEF u

(* What a reader makes of each kind of character.                           *)
LEMMA HearKinds ==
  ASSUME NEW said, NEW c
  PROVE  /\ R!Hear(R!Opening, R!Quote) = Inside(<<>>)
         /\ R!Hear(Inside(said), R!Quote) = [place |-> "after", said |-> said]
         /\ R!Hear(Inside(said), R!Backslash) = [place |-> "escape", said |-> said]
         /\ c \notin {R!Quote, R!Backslash} =>
              R!Hear(Inside(said), c) = Inside(Append(said, c))
         /\ R!Hear([place |-> "escape", said |-> said], c) = Inside(Append(said, R!Named(c)))
<1>1. R!Quote # R!Backslash
  BY DEF R!Quote, R!Backslash
<1>2. R!Hear(R!Opening, R!Quote) = Inside(<<>>)
  BY DEF R!Hear, R!Opening, Inside
<1> DEFINE r == Inside(said)
<1>3. r.place = "within" /\ r.said = said
      /\ [r EXCEPT !.place = "after"] = [place |-> "after", said |-> said]
      /\ [r EXCEPT !.place = "escape"] = [place |-> "escape", said |-> said]
      /\ [r EXCEPT !.said = Append(@, c)] = Inside(Append(said, c))
  BY DEF Inside
<1> HIDE DEF r
<1>4. R!Hear(r, R!Quote) = [place |-> "after", said |-> said]
  BY <1>1, <1>3 DEF R!Hear
<1>5. R!Hear(r, R!Backslash) = [place |-> "escape", said |-> said]
  BY <1>1, <1>3 DEF R!Hear
<1>6. ASSUME c \notin {R!Quote, R!Backslash}
      PROVE  R!Hear(r, c) = Inside(Append(said, c))
  BY <1>6, <1>3 DEF R!Hear
<1>7. R!Hear([place |-> "escape", said |-> said], c) = Inside(Append(said, R!Named(c)))
  BY DEF R!Hear, Inside
<1> QED  BY <1>2, <1>4, <1>5, <1>6, <1>7 DEF r

-----------------------------------------------------------------------------
(* Quoting                                                                  *)

(* What a quoted text is made of: no line breaks.                            *)
Plain == (R!Chars \cup {"n", "r", "t"}) \ {"\n", "\r"}

LEMMA EscapePlain ==
  ASSUME NEW c \in R!Chars
  PROVE  R!Escape(c) \in Seq(Plain)
<1>1. R!Quote \in Plain /\ R!Backslash \in Plain
  BY DEF Plain, R!Chars, R!Quote, R!Backslash
<1>2. CASE c \in {R!Quote, R!Backslash, "\n", "\r", "\t"}
  <2>1. R!Letter(c) \in Plain
    BY <1>1, <1>2 DEF R!Letter, Plain, R!Quote, R!Backslash
  <2>2. R!Escape(c) = <<R!Backslash, R!Letter(c)>>
    BY <1>2 DEF R!Escape
  <2> QED  BY <1>1, <2>1, <2>2
<1>3. CASE c \notin {R!Quote, R!Backslash, "\n", "\r", "\t"}
  <2>1. c \in Plain
    BY <1>3 DEF Plain
  <2>2. R!Escape(c) = <<c>>
    BY <1>3 DEF R!Escape
  <2> QED  BY <2>1, <2>2
<1> QED  BY <1>2, <1>3

(* An escaped character is heard as the character.                          *)
LEMMA EscapeHeard ==
  ASSUME NEW text \in Seq(Plain), NEW said, R!Heard(text) = Inside(said), NEW c \in R!Chars
  PROVE  R!Heard(text \o R!Escape(c)) = Inside(Append(said, c))
<1>1. CASE c \in {R!Quote, R!Backslash, "\n", "\r", "\t"}
  <2> DEFINE d == R!Letter(c)
             t == Append(text, R!Backslash)
  <2>1. R!Backslash \in Plain
    BY DEF Plain, R!Chars, R!Backslash
  <2>2. d \in Plain
    BY <1>1 DEF R!Letter, Plain, R!Quote, R!Backslash, R!Chars
  <2>3. R!Named(d) = c
    BY <1>1 DEF R!Letter, R!Named, R!Quote, R!Backslash
  <2>4. R!Escape(c) = <<R!Backslash, d>>
    BY <1>1 DEF R!Escape
  <2> HIDE DEF d
  <2>5. t \in Seq(Plain)
    BY <2>1, AppendProperties
  <2>6. text \o R!Escape(c) = Append(t, d)
    <3>1. Append(t, d) = (text \o <<R!Backslash>>) \o <<d>>
      BY <2>1, <2>2, <2>5, AppendIsConcat
    <3>2. (text \o <<R!Backslash>>) \o <<d>> = text \o (<<R!Backslash>> \o <<d>>)
      <4>1. <<R!Backslash>> \in Seq(Plain) /\ <<d>> \in Seq(Plain)
        BY <2>1, <2>2
      <4> QED  BY <4>1, ConcatAssociative
    <3>3. <<R!Backslash>> \o <<d>> = <<R!Backslash, d>>
      BY <2>1, <2>2, JoinTwo
    <3> QED  BY <2>4, <3>1, <3>2, <3>3
  <2>7. R!Heard(t) = [place |-> "escape", said |-> said]
    <3>1. R!Heard(Append(text, R!Backslash)) = R!Hear(R!Heard(text), R!Backslash)
      BY <2>1, HeardNext
    <3> QED  BY <3>1, HearKinds
  <2>8. R!Heard(Append(t, d)) = R!Hear(R!Heard(t), d)
    <3> HIDE DEF t
    <3> QED  BY <2>2, <2>5, HeardNext
  <2>9. R!Hear([place |-> "escape", said |-> said], d) = Inside(Append(said, R!Named(d)))
    BY HearKinds
  <2> QED  BY <2>3, <2>6, <2>7, <2>8, <2>9
<1>2. CASE c \notin {R!Quote, R!Backslash, "\n", "\r", "\t"}
  <2>1. c \in Plain
    BY <1>2 DEF Plain
  <2>2. R!Escape(c) = <<c>>
    BY <1>2 DEF R!Escape
  <2>3. text \o R!Escape(c) = Append(text, c)
    BY <2>1, <2>2, AppendIsConcat
  <2>4. R!Heard(Append(text, c)) = R!Hear(R!Heard(text), c)
    BY <2>1, HeardNext
  <2> QED  BY <1>2, <2>3, <2>4, HearKinds
<1> QED  BY <1>1, <1>2

LEMMA SubSeqGrows ==
  ASSUME NEW S, NEW s \in Seq(S), NEW i \in 1..(Len(s) - 1)
  PROVE  SubSeq(s, 1, i + 1) = Append(SubSeq(s, 1, i), s[i + 1])
<1> DEFINE u == SubSeq(s, 1, i)
           v == SubSeq(s, 1, i + 1)
           e == s[i + 1]
<1>1. Len(s) \in Nat /\ i \in Nat /\ i >= 1 /\ i + 1 \in 1..Len(s)
  OBVIOUS
<1>2. \A j \in 1..(i + 1) : s[j] \in S
  BY <1>1, ElementOfSeq
<1>3. u \in Seq(S) /\ Len(u) = i /\ \A j \in 1..i : u[j] = s[j]
  <2>1. \A j \in 1..i : s[j] \in S
    BY <1>1, <1>2
  <2>2. u \in Seq(S) /\ Len(u) = i - 1 + 1 /\ \A j \in 1..(i - 1 + 1) : u[j] = s[1 + j - 1]
    BY <1>1, <2>1, SubSeqProperties
  <2> HIDE DEF u
  <2> QED  BY <1>1, <2>2
<1>4. v \in Seq(S) /\ Len(v) = i + 1 /\ \A j \in 1..(i + 1) : v[j] = s[j]
  <2> DEFINE m == i + 1
  <2>1. m \in Nat /\ m >= 1
    BY <1>1
  <2>2. \A j \in 1..m : s[j] \in S
    BY <1>2
  <2> HIDE DEF m
  <2>3. LET w == SubSeq(s, 1, m)
        IN  w \in Seq(S) /\ Len(w) = m - 1 + 1 /\ \A j \in 1..(m - 1 + 1) : w[j] = s[1 + j - 1]
    BY <2>1, <2>2, SubSeqProperties
  <2>4. LET w == SubSeq(s, 1, m)
        IN  w \in Seq(S) /\ Len(w) = m /\ \A j \in 1..m : w[j] = s[j]
    BY <2>1, <2>3
  <2> QED  BY <2>4 DEF m
<1>5. e \in S
  BY <1>1, ElementOfSeq
<1> HIDE DEF u, v, e
<1>6. /\ Append(u, e) \in Seq(S) /\ Len(Append(u, e)) = i + 1
      /\ \A j \in 1..i : Append(u, e)[j] = u[j]
      /\ Append(u, e)[i + 1] = e
  BY <1>3, <1>5, AppendProperties
<1>7. \A j \in 1..(i + 1) : v[j] = Append(u, e)[j]
  BY <1>1, <1>3, <1>4, <1>6 DEF e
<1>8. v = Append(u, e)
  BY <1>4, <1>6, <1>7, SeqEqual
<1> QED  BY <1>8 DEF u, v, e

(* A quoted message is one line, and is heard as the message.                *)
LEMMA QuotedReads ==
  ASSUME NEW m \in Seq(R!Chars), m # <<>>
  PROVE  /\ R!Quoted(m) \in Seq(Plain)
         /\ R!Reads(R!Quoted(m), m)
<1> DEFINE n == Len(m)
           parts == [i \in DOMAIN m |-> R!Escape(m[i])]
           body == FlattenSeq(parts)
           q == <<R!Quote>>
<1>1. n \in Nat /\ n >= 1 /\ DOMAIN m = 1..n /\ \A i \in 1..n : m[i] \in R!Chars
  BY EmptySeq, ElementOfSeq
<1>2. \A i \in 1..n : R!Escape(m[i]) \in Seq(Plain)
  BY <1>1, EscapePlain
<1>3. parts \in Seq(Seq(Plain)) /\ Len(parts) = n /\ \A i \in 1..n : parts[i] = R!Escape(m[i])
  BY <1>1, <1>2
<1>4. R!Quoted(m) = (q \o body) \o q
  <2>1. R!FlattenSeq(parts) = body
    BY DEF R!FlattenSeq, FlattenSeq
  <2> QED  BY <2>1 DEF R!Quoted
<1>5. R!Quote \in Plain /\ q \in Seq(Plain)
  <2>1. R!Quote \in Plain
    BY DEF Plain, R!Chars, R!Quote
  <2> QED  BY <2>1
<1> HIDE DEF parts
<1>6. body \in Seq(Plain)
  BY <1>3, FlattenType
<1>7. PICK g : Joined(parts, n, g) /\ body = g[n]
  <2>1. Len(parts) \in Nat /\ Len(parts) # 0
    BY <1>1, <1>3
  <2> QED  BY <1>3, <2>1, FlattenJoined
<1> HIDE DEF body, n, q
<1>8. \A i \in 1..n : g[i] = IF i = 1 THEN parts[i] ELSE g[i - 1] \o parts[i]
  BY <1>7 DEF Joined
<1>9. R!Heard(q) = Inside(<<>>)
  <2>1. q = Append(<<>>, R!Quote)
    BY DEF q
  <2>2. <<>> \in Seq(Plain)
    OBVIOUS
  <2>3. R!Heard(Append(<<>>, R!Quote)) = R!Hear(R!Heard(<<>>), R!Quote)
    BY <1>5, <2>2, HeardNext
  <2> QED  BY <2>1, <2>3, HeardNothing, HearKinds
<1> DEFINE T == {i \in 0..n : i # 0 => /\ g[i] \in Seq(Plain)
                                     /\ R!Heard(q \o g[i]) = Inside(SubSeq(m, 1, i))}
<1>10. 0 \in T
  BY <1>1
<1>11. ASSUME NEW k \in 0..n, k \in T, k < n PROVE k + 1 \in T
  <2>1. k + 1 \in 1..n /\ parts[k + 1] = R!Escape(m[k + 1]) /\ parts[k + 1] \in Seq(Plain)
        /\ m[k + 1] \in R!Chars
    BY <1>1, <1>2, <1>3, <1>11
  <2>2. CASE k = 0
    <3>1. g[1] = parts[1]
      BY <1>8, <2>1, <2>2
    <3>2. R!Heard(q \o R!Escape(m[1])) = Inside(Append(<<>>, m[1]))
      <4>1. m[1] \in R!Chars
        BY <1>1
      <4> QED  BY <1>5, <1>9, <4>1, EscapeHeard
    <3>3. SubSeq(m, 1, 1) = Append(<<>>, m[1])
      <4>1. \A j \in 1..1 : m[j] \in R!Chars
        BY <1>1
      <4>2. /\ SubSeq(m, 1, 1) \in Seq(R!Chars) /\ Len(SubSeq(m, 1, 1)) = 1
            /\ SubSeq(m, 1, 1)[1] = m[1]
        BY <4>1, SubSeqProperties
      <4>3. m[1] \in R!Chars /\ <<>> \in Seq(R!Chars)
        BY <1>1
      <4>4. /\ Append(<<>>, m[1]) \in Seq(R!Chars) /\ Len(Append(<<>>, m[1])) = 1
            /\ Append(<<>>, m[1])[1] = m[1]
        BY <4>3
      <4> HIDE DEF n
      <4>5. \A j \in 1..1 : SubSeq(m, 1, 1)[j] = Append(<<>>, m[1])[j]
        BY <4>2, <4>4
      <4> QED  BY <4>2, <4>4, <4>5, SeqEqual
    <3>4. g[1] \in Seq(Plain) /\ R!Heard(q \o g[1]) = Inside(SubSeq(m, 1, 1))
      <4>1. parts[1] = R!Escape(m[1]) /\ parts[1] \in Seq(Plain)
        BY <2>1, <2>2
      <4> QED  BY <3>1, <3>2, <3>3, <4>1
    <3>5. 1 \in 0..n /\ k + 1 = 1
      BY <1>1, <2>2
    <3> QED  BY <3>4, <3>5
  <2>3. CASE k # 0
    <3>1. g[k] \in Seq(Plain) /\ R!Heard(q \o g[k]) = Inside(SubSeq(m, 1, k))
      BY <1>11, <2>3
    <3>2. g[k + 1] = g[k] \o parts[k + 1]
      <4>1. (k + 1) - 1 = k /\ k + 1 # 1
        BY <1>11, <2>3
      <4> QED  BY <1>8, <2>1, <4>1
    <3>3. g[k + 1] \in Seq(Plain)
      BY <2>1, <3>1, <3>2, ConcatProperties
    <3>4. q \o g[k + 1] = (q \o g[k]) \o parts[k + 1]
      <4> DEFINE u == g[k]
                 v == parts[k + 1]
      <4>1. q \in Seq(Plain) /\ u \in Seq(Plain) /\ v \in Seq(Plain)
        BY <1>5, <2>1, <3>1
      <4>2. g[k + 1] = u \o v
        BY <3>2
      <4> HIDE DEF u, v
      <4>3. (q \o u) \o v = q \o (u \o v)
        BY <4>1, ConcatAssociative
      <4>4. q \o g[k + 1] = (q \o u) \o v
        BY <4>2, <4>3
      <4> QED  BY <4>4 DEF u, v
    <3>5. q \o g[k] \in Seq(Plain)
      BY <1>5, <3>1, ConcatProperties
    <3>6. R!Heard((q \o g[k]) \o R!Escape(m[k + 1])) = Inside(Append(SubSeq(m, 1, k), m[k + 1]))
      BY <2>1, <3>1, <3>5, EscapeHeard
    <3>7. SubSeq(m, 1, k + 1) = Append(SubSeq(m, 1, k), m[k + 1])
      <4>1. k \in 1..(Len(m) - 1)
        BY <1>1, <1>11, <2>3 DEF n
      <4> QED  BY <4>1, SubSeqGrows
    <3>8. R!Heard(q \o g[k + 1]) = Inside(SubSeq(m, 1, k + 1))
      BY <2>1, <3>4, <3>6, <3>7
    <3>9. k + 1 \in 0..n
      BY <2>1
    <3> QED  BY <3>3, <3>8, <3>9
  <2> QED  BY <2>2, <2>3
<1>12. \A i \in 0..n : i \in T
  <2> HIDE DEF T
  <2> QED  BY <1>1, <1>10, <1>11, InductionUpTo
<1>13. R!Heard(q \o body) = Inside(m)
  <2>1. n \in T
    BY <1>1, <1>12
  <2>2. R!Heard(q \o body) = Inside(SubSeq(m, 1, n))
    BY <1>1, <1>7, <2>1
  <2> QED  BY <2>2, SubSeqFull DEF n
<1>14. q \o body \in Seq(Plain)
  BY <1>5, <1>6, ConcatProperties
<1>15. R!Heard((q \o body) \o q) = [place |-> "after", said |-> m]
  <2>1. (q \o body) \o q = Append(q \o body, R!Quote)
    BY <1>5, <1>14, AppendIsConcat DEF q
  <2>2. R!Heard(Append(q \o body, R!Quote)) = R!Hear(R!Heard(q \o body), R!Quote)
    BY <1>5, <1>14, HeardNext
  <2> QED  BY <1>13, <2>1, <2>2, HearKinds
<1>16. (q \o body) \o q \in Seq(Plain)
  BY <1>5, <1>14, ConcatProperties
<1> QED  BY <1>4, <1>15, <1>16 DEF R!Reads

-----------------------------------------------------------------------------
(* Trimming                                                                 *)

LEMMA FirstAndLast ==
  ASSUME NEW T, T \subseteq Nat, T # {}, NEW n \in Nat, \A i \in T : i <= n
  PROVE  /\ R!Min(T) \in T /\ \A i \in T : R!Min(T) <= i
         /\ R!Max(T) \in T /\ \A i \in T : i <= R!Max(T)
<1>1. \E x \in T : \A y \in T : x <= y
  BY LeastElement
<1>2. \E x \in T : \A y \in T : x >= y
  <2> DEFINE U == {n - i : i \in T}
  <2>1. U \subseteq Nat /\ U # {}
    <3>1. \A i \in T : n - i \in Nat
      OBVIOUS
    <3>2. PICK i \in T : TRUE
      OBVIOUS
    <3>3. n - i \in U
      OBVIOUS
    <3> QED  BY <3>1, <3>3
  <2>2. PICK u \in U : \A v \in U : u <= v
    <3> HIDE DEF U
    <3> QED  BY <2>1, LeastElement
  <2>3. PICK x \in T : u = n - x
    OBVIOUS
  <2>4. \A y \in T : n - x <= n - y
    BY <2>2, <2>3
  <2>5. \A y \in T : x >= y
    BY <2>4
  <2> QED  BY <2>5
<1>3. R!Min(T) \in T /\ \A i \in T : R!Min(T) <= i
  BY <1>1 DEF R!Min
<1>4. R!Max(T) \in T /\ \A i \in T : R!Max(T) >= i
  BY <1>2 DEF R!Max
<1> QED  BY <1>3, <1>4

(* A trimmed text begins and ends with something else than blanks.           *)
Trimmed(m) == m \in Seq(R!Chars) /\ m # <<>> /\ {1, Len(m)} \subseteq R!Black(m)

LEMMA BlackPlaces ==
  ASSUME NEW m \in Seq(R!Chars)
  PROVE  R!Black(m) \subseteq Nat /\ \A i \in R!Black(m) : i \in 1..Len(m) /\ i <= Len(m)
  BY DEF R!Black

LEMMA TrimSpaceTrims ==
  ASSUME NEW raw \in Seq(R!Chars), R!TrimSpace(raw) # <<>>
  PROVE  Trimmed(R!TrimSpace(raw))
<1> DEFINE T == R!Black(raw)
           a == R!Min(T)
           z == R!Max(T)
           m == SubSeq(raw, a, z)
<1>1. T # {} /\ R!TrimSpace(raw) = m
  BY DEF R!TrimSpace
<1>2. T \subseteq Nat /\ Len(raw) \in Nat /\ \A i \in T : i \in 1..Len(raw) /\ i <= Len(raw)
  BY BlackPlaces
<1> HIDE DEF T
<1>3. a \in T /\ z \in T /\ a <= z
  BY <1>1, <1>2, FirstAndLast
<1>4. a \in 1..Len(raw) /\ z \in 1..Len(raw)
  BY <1>2, <1>3
<1> HIDE DEF a, z
<1>5. \A i \in a..z : raw[i] \in R!Chars
  BY <1>2, <1>4, ElementOfSeq
<1>6. /\ m \in Seq(R!Chars) /\ Len(m) = z - a + 1
      /\ \A i \in 1..(z - a + 1) : m[i] = raw[a + i - 1]
  BY <1>2, <1>3, <1>4, <1>5, SubSeqProperties
<1> DEFINE n == z - a + 1
<1>7. n \in Nat /\ n >= 1 /\ a + 1 - 1 = a /\ a + n - 1 = z
  BY <1>2, <1>3, <1>4
<1>8. m[1] = raw[a] /\ m[n] = raw[z]
  <2>1. 1 \in 1..n /\ n \in 1..n
    BY <1>7
  <2> HIDE DEF m
  <2>2. m[1] = raw[a + 1 - 1] /\ m[n] = raw[a + n - 1]
    <3>1. \A i \in 1..n : m[i] = raw[a + i - 1]
      BY <1>6
    <3> HIDE DEF n
    <3> QED  BY <2>1, <3>1
  <2> QED  BY <1>7, <2>2
<1>9. raw[a] \notin R!White /\ raw[z] \notin R!White
  BY <1>3 DEF T, R!Black
<1> HIDE DEF m
<1>10. Len(m) = n /\ DOMAIN m = 1..n
  BY <1>6, <1>7
<1> HIDE DEF n
<1>11. 1 \in R!Black(m) /\ Len(m) \in R!Black(m)
  BY <1>7, <1>8, <1>9, <1>10 DEF R!Black
<1>12. m # <<>>
  BY <1>6, <1>7, <1>10
<1> QED  BY <1>1, <1>6, <1>11, <1>12 DEF Trimmed

LEMMA TrimmedStays ==
  ASSUME NEW m, Trimmed(m)
  PROVE  R!TrimSpace(m) = m
<1> DEFINE T == R!Black(m)
<1>1. m \in Seq(R!Chars) /\ 1 \in T /\ Len(m) \in T
  BY DEF Trimmed
<1>2. T \subseteq Nat /\ Len(m) \in Nat /\ \A i \in T : i \in 1..Len(m) /\ i <= Len(m)
  BY <1>1, BlackPlaces
<1>3. R!TrimSpace(m) = SubSeq(m, R!Min(T), R!Max(T))
  BY <1>1 DEF R!TrimSpace
<1> HIDE DEF T
<1>4. /\ R!Min(T) \in T /\ R!Min(T) <= 1
      /\ R!Max(T) \in T /\ Len(m) <= R!Max(T)
  BY <1>1, <1>2, FirstAndLast
<1>5. R!Min(T) = 1 /\ R!Max(T) = Len(m)
  <2>1. R!Min(T) \in 1..Len(m) /\ R!Max(T) \in 1..Len(m)
    BY <1>2, <1>4
  <2> QED  BY <1>2, <1>4, <2>1
<1> QED  BY <1>1, <1>3, <1>5, SubSeqFull

(* A trimmed text of at most one field has no blank in it: a blank would end  *)
(* the first field and a second one would begin after it.                   *)
LEMMA OneField ==
  ASSUME NEW m, Trimmed(m), R!Fields(m) <= 1
  PROVE  \A i \in 1..Len(m) : m[i] \notin R!White
<1> DEFINE B == R!Black(m)
           n == Len(m)
           Starts == {j \in B : j - 1 \notin B}
<1>1. m \in Seq(R!Chars) /\ 1 \in B /\ n \in B /\ n \in Nat
  BY DEF Trimmed
<1>2. B \subseteq 1..n
  BY <1>1, BlackPlaces
<1>3. \A i \in 1..n : i \in B <=> m[i] \notin R!White
  BY <1>1 DEF R!Black
<1>4. R!Fields(m) = Cardinality(Starts)
  BY DEF R!Fields, R!Cardinality, Cardinality
<1> HIDE DEF B, n
<1>5. SUFFICES ASSUME NEW i \in 1..n, i \notin B PROVE FALSE
  BY <1>3 DEF n
<1> DEFINE After == {j \in B : j > i}
<1>6. After # {} /\ After \subseteq Nat
  <2>1. i # n /\ i < n
    BY <1>1, <1>5
  <2>2. n \in After
    BY <1>1, <2>1
  <2>3. B \subseteq Nat
    BY <1>2
  <2> QED  BY <2>2, <2>3
<1>7. PICK j \in After : \A k \in After : j <= k
  <2> HIDE DEF After
  <2> QED  BY <1>6, LeastElement
<1>8. j \in Starts
  <2>1. j \in B /\ j > i /\ j \in Nat
    BY <1>6, <1>7
  <2>2. ASSUME j - 1 \in B PROVE FALSE
    <3>1. j - 1 # i
      BY <1>5, <2>2
    <3>2. j - 1 > i
      BY <1>5, <2>1, <3>1
    <3>3. j - 1 \in After
      BY <2>2, <3>2
    <3>4. j <= j - 1
      BY <1>7, <3>3
    <3> QED  BY <2>1, <3>4
  <2> QED  BY <2>1, <2>2
<1>9. 1 \in Starts
  BY <1>1, <1>2
<1>10. j # 1
  BY <1>5, <1>7
<1>11. Starts \subseteq 1..n
  BY <1>2
<1> HIDE DEF Starts
<1>12. IsFiniteSet(Starts) /\ Cardinality(Starts) \in Nat
  <2>1. IsFiniteSet(1..n)
    BY <1>1, FS_Interval
  <2>2. IsFiniteSet(Starts)
    BY <1>11, <2>1, FS_Subset
  <2> QED  BY <2>2, FS_CardinalityType
<1>13. Cardinality({1, j}) = 2
  <2>1. IsFiniteSet({1}) /\ Cardinality({1}) = 1
    BY FS_Singleton
  <2>2. Cardinality({1} \cup {j}) = Cardinality({1}) + 1
    BY <1>10, <2>1, FS_AddElement
  <2>3. {1} \cup {j} = {1, j}
    OBVIOUS
  <2> QED  BY <2>1, <2>2, <2>3
<1>14. Cardinality({1, j}) <= Cardinality(Starts)
  BY <1>8, <1>9, <1>12, FS_Subset
<1> QED  BY <1>4, <1>12, <1>13, <1>14

(* MessageArrives, of a message, its template's function and the argument.   *)
Arrives(m, f, a) ==
  /\ {"\n", "\r"} \cap ToSet(a) = {}
  /\ \/ R!Reads(a, m)
     \/ f = "consoleMessage" /\ a = m /\ R!White \cap ToSet(m) = {}

LEMMA CommandArrives ==
  ASSUME NEW m, Trimmed(m), NEW f \in {"consoleMessage", "quoteLua"}
  PROVE  Arrives(m, f, R!executeBroadcastTemplate(f, m))
<1> DEFINE a == R!executeBroadcastTemplate(f, m)
<1>1. m \in Seq(R!Chars) /\ m # <<>>
  BY DEF Trimmed
<1>2. R!TrimSpace(m) = m
  BY TrimmedStays
<1>3. CASE a = R!Quoted(m)
  <2>1. ToSet(a) \subseteq Plain /\ R!Reads(a, m)
    BY <1>1, <1>3, QuotedReads, ElementsTyped
  <2>2. "\n" \notin Plain /\ "\r" \notin Plain
    BY DEF Plain
  <2> HIDE DEF a
  <2>3. {"\n", "\r"} \cap ToSet(a) = {}
    BY <2>1, <2>2
  <2> QED  BY <2>1, <2>3 DEF Arrives, a
<1>4. CASE a = m /\ f = "consoleMessage" /\ R!Fields(m) <= 1
  <2>1. \A i \in 1..Len(m) : m[i] \notin R!White
    BY <1>4, OneField
  <2>2. R!White \cap ToSet(m) = {}
    BY <1>1, <2>1 DEF ToSet
  <2>3. "\n" \in R!White /\ "\r" \in R!White
    BY DEF R!White
  <2> HIDE DEF a
  <2>4. {"\n", "\r"} \cap ToSet(a) = {}
    BY <1>4, <2>2, <2>3
  <2> QED  BY <1>4, <2>2, <2>4 DEF Arrives, a
<1>5. a = R!Quoted(m) \/ (a = m /\ f = "consoleMessage" /\ R!Fields(m) <= 1)
  BY <1>2 DEF R!executeBroadcastTemplate, R!quoteConsoleMessage, R!quoteLuaString
<1> QED  BY <1>3, <1>4, <1>5

(* What the players see is what was sent, for messages of any length: a      *)
(* quoted message is one line and is heard as it was sent, a message that is  *)
(* not quoted is one word (quoteConsoleMessage, quoteLuaString).            *)
THEOREM MessageArrivesHolds == CommandsSpec => []MessageArrives
<1>1. MessageArrives = (argument # <<>> => Arrives(message, template, argument))
  BY DEF MessageArrives, R!MessageArrives, Arrives, ToSet, R!ToSet
<1>2. CommandsInit => MessageArrives
  BY <1>1 DEF CommandsInit, R!Init
<1>3. MessageArrives /\ [CommandsNext]_commandVars => MessageArrives'
  <2> SUFFICES ASSUME MessageArrives, [CommandsNext]_commandVars PROVE MessageArrives'
    OBVIOUS
  <2>1. ASSUME NEW raw \in R!Messages, NEW f \in {"consoleMessage", "quoteLua"},
               R!Broadcast(raw, f)
        PROVE  MessageArrives'
    <3>1. raw \in Seq(R!Chars)
      BY DEF R!Messages
    <3>2. message' = R!TrimSpace(raw) /\ template' = f /\ R!TrimSpace(raw) # <<>>
          /\ argument' = R!executeBroadcastTemplate(f, message')
      BY <2>1 DEF R!Broadcast
    <3>3. Arrives(message', template', argument')
      BY <3>1, <3>2, TrimSpaceTrims, CommandArrives
    <3> QED  BY <3>3 DEF MessageArrives, R!MessageArrives, Arrives, ToSet, R!ToSet
  <2>2. CASE UNCHANGED rendering
    BY <2>2 DEF rendering, MessageArrives, R!MessageArrives
  <2> QED  BY <2>1, <2>2 DEF CommandsNext, commandVars, R!Next
<1> QED  BY <1>2, <1>3, PTL DEF CommandsSpec

=============================================================================
