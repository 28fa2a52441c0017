------------------------------- MODULE Pelican -------------------------------
(* Resolver.ResolveGame (internal/pelican/client.go): which game a container *)
(* runs, asked of a Pelican panel in two requests and cached for good.       *)
(*                                                                          *)
(* The panel is the environment.  While lookups are under way its operators *)
(* may give a server another egg or rename an egg.  Container references    *)
(* are trimmed, names are compared without regard to case.                  *)
EXTENDS Common, FiniteSetsExt

CONSTANTS
  Callers,       \* goroutines resolving games
  Refs,          \* container references, after TrimSpace
  Servers,       \* servers of the panel
  Listed,        \* ref -> the servers the panel lists for filter[uuid]=ref
  Labels,        \* server -> references equal to its name, identifier or uuid
  Eggs,          \* ids of eggs
  Games,         \* names of eggs, after TrimSpace
  MaxChanges     \* bound on the changes made at the panel

NoEgg == 0       \* eggID <= 0
Failed == "failed"

ASSUME PanelAssumption ==
  /\ Eggs \subseteq Nat \ {NoEgg}
  /\ Blank \in Games
  /\ Failed \notin Games
  /\ Listed \in [Refs -> Seq(Servers)]
  /\ Labels \in [Servers -> SUBSET Refs]
  /\ MaxChanges \in Nat

VARIABLES
  egg, eggName,   \* the panel: server -> egg, egg -> name
  changes,        \* number of changes made there
  cache,          \* sync.Map from ref to game
  pc,             \* caller -> where in ResolveGame it is
  ref,            \* caller -> containerRef
  eggID, game,    \* caller -> egg of its server, name of that egg
  answer,         \* caller -> the game returned, or Failed
  assigned,       \* history: every <<server, egg>> there has been
  named,          \* history: every <<egg, name>> there has been
  answered,       \* history: references answered with a game
  known,          \* history: caller -> its ref was answered before it began
  asks            \* history: caller -> requests made by its lookup

panel == <<egg, eggName, changes, assigned, named>>
vars == <<panel, cache, pc, ref, eggID, game, answer, answered, known, asks>>

Busy(c) == pc[c] \notin {"idle", "done"}

Init ==
  /\ egg \in [Servers -> Eggs \cup {NoEgg}]
  /\ eggName \in [Eggs -> Games]
  /\ changes = 0
  /\ cache = [r \in {} |-> Blank]
  /\ pc = [c \in Callers |-> "idle"]
  /\ ref = [c \in Callers |-> Blank]
  /\ eggID = [c \in Callers |-> NoEgg]
  /\ game = [c \in Callers |-> Blank]
  /\ answer = [c \in Callers |-> Blank]
  /\ assigned = {<<s, egg[s]>> : s \in Servers}
  /\ named = {<<e, eggName[e]>> : e \in Eggs}
  /\ answered = {}
  /\ known = [c \in Callers |-> FALSE]
  /\ asks = [c \in Callers |-> 0]

(* Indices of the listed servers that r names exactly.                      *)
Exact(r) == {i \in DOMAIN Listed[r] : r \in Labels[Listed[r][i]]}

(* The first of the list, without looking for an exact match.               *)
firstServer(r) == Listed[r][1]

(* The first exact match, else the first of the list.                       *)
matchServer(r) == Listed[r][IF Exact(r) = {} THEN 1 ELSE Min(Exact(r))]

Return(c, r, g) ==
  /\ answer' = [answer EXCEPT ![c] = g]
  /\ pc' = [pc EXCEPT ![c] = "done"]
  /\ answered' = IF g \in {Blank, Failed} THEN answered ELSE answered \cup {r}

(* The cache is not looked at.                                              *)
ResolveUncached(c, r) ==
  /\ ~Busy(c)
  /\ ref' = [ref EXCEPT ![c] = r]
  /\ known' = [known EXCEPT ![c] = r \in answered]
  /\ asks' = [asks EXCEPT ![c] = 0]
  /\ IF r = Blank THEN Return(c, r, Blank)
     ELSE /\ pc' = [pc EXCEPT ![c] = "servers"]
          /\ UNCHANGED <<answer, answered>>
  /\ UNCHANGED <<panel, cache, eggID, game>>

ResolveGame(c, r) ==
  /\ ~Busy(c)
  /\ ref' = [ref EXCEPT ![c] = r]
  /\ known' = [known EXCEPT ![c] = r \in answered]
  /\ asks' = [asks EXCEPT ![c] = 0]
  /\ IF r = Blank THEN Return(c, r, Blank)
     ELSE IF r \in DOMAIN cache THEN Return(c, r, cache[r])
     ELSE /\ pc' = [pc EXCEPT ![c] = "servers"]
          /\ UNCHANGED <<answer, answered>>
  /\ UNCHANGED <<panel, cache, eggID, game>>

(* The panel's list for the reference, as it is when the panel answers.     *)
lookupServerByUUID(c) ==
  /\ pc[c] = "servers"
  /\ asks' = [asks EXCEPT ![c] = @ + 1]
  /\ IF Listed[ref[c]] = <<>>
     THEN Return(c, ref[c], Blank) /\ UNCHANGED eggID
     ELSE /\ eggID' = [eggID EXCEPT ![c] = egg[matchServer(ref[c])]]
          /\ pc' = [pc EXCEPT ![c] = "egg"]
          /\ UNCHANGED <<answer, answered>>
  /\ UNCHANGED <<panel, cache, ref, game, known>>

(* An empty name is stored like any other.                                  *)
lookupAnyEggName(c) ==
  /\ pc[c] = "egg"
  /\ asks' = [asks EXCEPT ![c] = @ + 1]
  /\ game' = [game EXCEPT ![c] = IF eggID[c] = NoEgg THEN Blank ELSE eggName[eggID[c]]]
  /\ pc' = [pc EXCEPT ![c] = "store"]
  /\ UNCHANGED <<panel, cache, ref, eggID, answer, answered, known>>

(* A server without egg costs no second request, and no game is no entry.   *)
lookupEggName(c) ==
  /\ pc[c] = "egg"
  /\ LET name == IF eggID[c] = NoEgg THEN Blank ELSE eggName[eggID[c]]
     IN  /\ game' = [game EXCEPT ![c] = name]
         /\ IF name = Blank THEN Return(c, ref[c], Blank)
            ELSE pc' = [pc EXCEPT ![c] = "store"] /\ UNCHANGED <<answer, answered>>
  /\ asks' = IF eggID[c] = NoEgg THEN asks ELSE [asks EXCEPT ![c] = @ + 1]
  /\ UNCHANGED <<panel, cache, ref, eggID, known>>

Put(map, r, g) == [x \in DOMAIN map \cup {r} |-> IF x = r THEN g ELSE map[x]]

(* The one entry of the last lookup: the others are thrown away.            *)
StoreLatest(c) ==
  /\ pc[c] = "store"
  /\ cache' = Put([r \in {} |-> Blank], ref[c], game[c])
  /\ Return(c, ref[c], game[c])
  /\ UNCHANGED <<panel, ref, eggID, game, known, asks>>

(* sync.Map.Store: whatever another lookup has stored is replaced.          *)
Store(c) ==
  /\ pc[c] = "store"
  /\ cache' = Put(cache, ref[c], game[c])
  /\ Return(c, ref[c], game[c])
  /\ UNCHANGED <<panel, ref, eggID, game, known, asks>>

(* Connection, time limit, cancelled context, status or decoding.           *)
RequestFails(c) ==
  /\ pc[c] \in {"servers", "egg"}
  /\ pc[c] = "egg" => eggID[c] # NoEgg
  /\ asks' = [asks EXCEPT ![c] = @ + 1]
  /\ Return(c, ref[c], Failed)
  /\ UNCHANGED <<panel, cache, ref, eggID, game, known>>

Reassign(s, e) ==
  /\ changes < MaxChanges
  /\ egg' = [egg EXCEPT ![s] = e]
  /\ assigned' = assigned \cup {<<s, e>>}
  /\ changes' = changes + 1
  /\ UNCHANGED <<eggName, named, cache, pc, ref, eggID, game, answer, answered, known, asks>>

Rename(e, n) ==
  /\ changes < MaxChanges
  /\ eggName' = [eggName EXCEPT ![e] = n]
  /\ named' = named \cup {<<e, n>>}
  /\ changes' = changes + 1
  /\ UNCHANGED <<egg, assigned, cache, pc, ref, eggID, game, answer, answered, known, asks>>

Step(c) == lookupServerByUUID(c) \/ lookupEggName(c) \/ Store(c) \/ RequestFails(c)

PanelChanges ==
  \/ \E s \in Servers, e \in Eggs \cup {NoEgg} : Reassign(s, e)
  \/ \E e \in Eggs, n \in Games : Rename(e, n)

Next == (\E c \in Callers : (\E r \in Refs : ResolveGame(c, r)) \/ Step(c)) \/ PanelChanges

Spec == Init /\ [][Next]_vars

-----------------------------------------------------------------------------
(* Properties                                                               *)

TypeOK ==
  /\ egg \in [Servers -> Eggs \cup {NoEgg}]
  /\ eggName \in [Eggs -> Games]
  /\ changes \in 0..MaxChanges
  /\ DOMAIN cache \subseteq Refs \ {Blank}
  /\ \A r \in DOMAIN cache : cache[r] \in Games \ {Blank}
  /\ pc \in [Callers -> {"idle", "servers", "egg", "store", "done"}]
  /\ ref \in [Callers -> Refs \cup {Blank}]
  /\ eggID \in [Callers -> Eggs \cup {NoEgg}]
  /\ game \in [Callers -> Games]
  /\ answer \in [Callers -> Games \cup {Failed}]
  /\ answered \subseteq Refs
  /\ known \in [Callers -> BOOLEAN]
  /\ asks \in [Callers -> 0..2]

(* The servers whose game r may be given: those it names exactly, wherever   *)
(* they stand in the list; if it names none, the first of the list, which    *)
(* is what the code takes on purpose (it logs using_first=true).             *)
Entitled(r) ==
  LET exact == {Listed[r][i] : i \in Exact(r)}
  IN  IF exact = {} THEN {Listed[r][i] : i \in DOMAIN Listed[r] \cap {1}} ELSE exact

(* What is cached for a container was the name of an egg that its server     *)
(* had.  A server that the container names exactly is its server even when   *)
(* the panel lists another before it, whose uuid only contains the name;     *)
(* only when none is named exactly the first of the list stands for it, and  *)
(* never any other of the list, nor a failed lookup.                         *)
OwnGameCached ==
  \A r \in DOMAIN cache : \E s \in Entitled(r), e \in Eggs :
    <<s, e>> \in assigned /\ <<e, cache[r]>> \in named

(* Once some lookup of a container was answered with a game, later lookups   *)
(* ask the panel nothing and are answered from the cache, whoever else is    *)
(* still storing (client_test.go: "expected cached lookup to avoid extra     *)
(* requests").                                                               *)
AskedOnce ==
  \A c \in Callers : known[c] =>
    asks[c] = 0 /\ pc[c] = "done" /\ answer[c] \notin {Blank, Failed}

(* No entry is lost, and only a lookup that began before the container was   *)
(* answered for the first time may still replace one: when those are over    *)
(* the game is settled for the life of the process, right or wrong.          *)
EntriesSettle ==
  [][\A r \in DOMAIN cache :
       /\ r \in DOMAIN cache'
       /\ cache'[r] # cache[r] =>
            \E c \in Callers : pc[c] = "store" /\ ref[c] = r /\ ~known[c]]_vars

=============================================================================
