---------------------------- MODULE PelicanProofs ----------------------------
(* Theorems about Pelican, for any number of callers, any panel and any     *)
(* number of changes made there.                                            *)
EXTENDS Pelican, Integers, WellFoundedInduction, TLAPS

-----------------------------------------------------------------------------
(* The server chosen                                                        *)

(* A set of natural numbers that is not empty has a least element.          *)
LEMMA MinOfNat ==
  ASSUME NEW S \in SUBSET Nat, S # {}
  PROVE  Min(S) \in S
<1>1. PICK x \in S : \A y \in S : <<y, x>> \notin OpToRel(<, Nat)
  <2>1. IsWellFoundedOn(OpToRel(<, Nat), Nat)
    BY NatLessThanWellFounded
  <2> QED  BY <2>1, WFMin
<1>2. \A y \in S : x =< y
  <2> SUFFICES ASSUME NEW y \in S PROVE x =< y
    OBVIOUS
  <2>1. x \in Nat /\ y \in Nat
    OBVIOUS
  <2>2. ~(y < x)
    <3> DEFINE z == <<y, x>>
    <3>1. z \in Nat \X Nat /\ z[1] = y /\ z[2] = x
      BY <2>1
    <3>2. z \notin {ss \in Nat \X Nat : ss[1] < ss[2]}
      BY <1>1 DEF OpToRel
    <3> QED  BY <3>1, <3>2
  <2> QED  BY <2>1, <2>2
<1> QED  BY <1>2 DEF Min

(* matchServer picks a server whose game the reference may be given.        *)
LEMMA MatchIsEntitled ==
  ASSUME NEW r \in Refs, Listed[r] # <<>>
  PROVE  matchServer(r) \in Entitled(r) /\ Entitled(r) \subseteq Servers
<1>1. Listed[r] \in Seq(Servers)
  BY PanelAssumption
<1>2. CASE Exact(r) = {}
  <2>1. 1 \in DOMAIN Listed[r]
    BY <1>1
  <2>2. matchServer(r) = Listed[r][1] /\ Entitled(r) = {Listed[r][1]}
    BY <1>2, <2>1 DEF matchServer, Entitled
  <2> QED  BY <1>1, <2>1, <2>2
<1>3. CASE Exact(r) # {}
  <2>1. Exact(r) \subseteq DOMAIN Listed[r] /\ DOMAIN Listed[r] \subseteq Nat
    BY <1>1 DEF Exact
  <2>2. Min(Exact(r)) \in Exact(r)
    BY <1>3, <2>1, MinOfNat
  <2>3. Entitled(r) = {Listed[r][i] : i \in Exact(r)}
    BY <1>3 DEF Entitled
  <2>4. matchServer(r) = Listed[r][Min(Exact(r))]
    BY <1>3 DEF matchServer
  <2>5. \A i \in Exact(r) : Listed[r][i] \in Servers
    BY <1>1, <2>1
  <2> QED  BY <2>2, <2>3, <2>4, <2>5
<1> QED  BY <1>2, <1>3

-----------------------------------------------------------------------------
(* The inductive invariant                                                  *)

(* The panel's present is part of its history.                              *)
Recorded ==
  /\ \A s \in Servers : <<s, egg[s]>> \in assigned
  /\ \A e \in Eggs : <<e, eggName[e]>> \in named

(* The name was at some time that of an egg a server of r had at some time. *)
Owned(r, name) ==
  \E s \in Entitled(r), e \in Eggs : <<s, e>> \in assigned /\ <<e, name>> \in named

(* What a lookup has found out by the time it is at some place.             *)
Found(c) ==
  /\ pc[c] \in {"servers", "egg", "store"} => ref[c] \in Refs \ {Blank}
  /\ pc[c] = "servers" => asks[c] = 0
  /\ pc[c] = "egg" => asks[c] = 1 /\ \E s \in Entitled(ref[c]) : <<s, eggID[c]>> \in assigned
  /\ pc[c] = "store" => game[c] # Blank /\ Owned(ref[c], game[c])
  /\ known[c] => asks[c] = 0 /\ pc[c] = "done" /\ answer[c] \notin {Blank, Failed}

(* Every cached game was that of a server that stands for the container.    *)
GamesOwned == \A r \in DOMAIN cache : Owned(r, cache[r])

IInv ==
  /\ TypeOK
  /\ Recorded
  /\ answered \subseteq DOMAIN cache
  /\ GamesOwned
  /\ \A c \in Callers : Found(c)

(* The invariant holds before the first lookup.                             *)
LEMMA InitIInv == Init => IInv
  BY PanelAssumption DEF Init, IInv, TypeOK, Recorded, GamesOwned, Found, NoEgg

(* Whom a reference may stand for is fixed.                                 *)
LEMMA EntitledConstant ==
  ASSUME NEW r
  PROVE  Entitled(r)' = Entitled(r)
  BY DEF Entitled, Exact

(* What lookups found was true when they found it: it stays true while the  *)
(* histories grow, for lookups that do not move.                            *)
LEMMA StillFound ==
  ASSUME NEW d, Found(d), assigned \subseteq assigned', named \subseteq named',
         pc'[d] = pc[d], ref'[d] = ref[d], eggID'[d] = eggID[d], game'[d] = game[d],
         answer'[d] = answer[d], known'[d] = known[d], asks'[d] = asks[d]
  PROVE  Found(d)'
<1>1. pc[d] = "egg" => \E s \in Entitled(ref[d]) : <<s, eggID[d]>> \in assigned'
  BY DEF Found
<1>2. pc[d] = "store" =>
        \E s \in Entitled(ref[d]), e \in Eggs : <<s, e>> \in assigned' /\ <<e, game[d]>> \in named'
  BY DEF Found, Owned
<1>3. Entitled(ref[d])' = Entitled(ref[d])
  BY DEF Entitled, Exact
<1> QED  BY <1>1, <1>2, <1>3 DEF Found, Owned

(* A step of one lookup that leaves the panel alone.                        *)
LEMMA OthersFound ==
  ASSUME NEW c \in Callers, IInv, TypeOK', UNCHANGED panel,
         \A d \in Callers \ {c} :
           /\ pc'[d] = pc[d] /\ ref'[d] = ref[d] /\ eggID'[d] = eggID[d] /\ game'[d] = game[d]
           /\ answer'[d] = answer[d] /\ known'[d] = known[d] /\ asks'[d] = asks[d],
         Found(c)',
         answered' \subseteq DOMAIN cache',
         \A r \in DOMAIN cache' : Owned(r, cache'[r])
  PROVE  IInv'
<1>1. egg' = egg /\ eggName' = eggName /\ assigned' = assigned /\ named' = named
  BY DEF panel
<1>2. Recorded'
  BY <1>1 DEF IInv, Recorded
<1>3. GamesOwned'
  BY <1>1, EntitledConstant DEF GamesOwned, Owned
<1>4. ASSUME NEW d \in Callers, d # c PROVE Found(d)'
  <2>1. Found(d)
    BY DEF IInv
  <2> QED  BY <1>1, <1>4, <2>1, StillFound
<1> QED  BY <1>2, <1>3, <1>4 DEF IInv

(* A lookup begins.                                                         *)
LEMMA ResolveGameIInv ==
  ASSUME IInv, NEW c \in Callers, NEW r \in Refs, ResolveGame(c, r)
  PROVE  IInv'
<1>1. r \in answered => r \in DOMAIN cache /\ r # Blank
  BY DEF IInv, TypeOK
<1>2. r \in DOMAIN cache => cache[r] \in Games \ {Blank, Failed}
  BY PanelAssumption DEF IInv, TypeOK
<1>3. TypeOK'
  <2>1. /\ egg' = egg /\ eggName' = eggName /\ changes' = changes /\ cache' = cache
        /\ eggID' = eggID /\ game' = game
    BY DEF ResolveGame, panel
  <2>2. /\ answer' \in [Callers -> Games \cup {Failed}]
        /\ pc' \in [Callers -> {"idle", "servers", "egg", "store", "done"}]
        /\ answered' \subseteq Refs
    <3>1. CASE r = Blank
      BY <3>1, PanelAssumption DEF IInv, TypeOK, ResolveGame, Return
    <3>2. CASE r # Blank /\ r \in DOMAIN cache
      BY <1>2, <3>2 DEF IInv, TypeOK, ResolveGame, Return
    <3>3. CASE r # Blank /\ r \notin DOMAIN cache
      BY <3>3 DEF IInv, TypeOK, ResolveGame
    <3> QED  BY <3>1, <3>2, <3>3
  <2>3. known' \in [Callers -> BOOLEAN]
    <3>1. known' = [known EXCEPT ![c] = r \in answered]
      BY DEF ResolveGame
    <3> QED  BY <3>1 DEF IInv, TypeOK
  <2>4. ref' \in [Callers -> Refs \cup {Blank}] /\ asks' \in [Callers -> 0..2]
    BY DEF IInv, TypeOK, ResolveGame
  <2> QED  BY <2>1, <2>2, <2>3, <2>4 DEF IInv, TypeOK
<1>4. answered' \subseteq DOMAIN cache'
  BY DEF IInv, ResolveGame, Return
<1>5. Found(c)'
  <2>1. ref'[c] = r /\ asks'[c] = 0
    BY DEF IInv, TypeOK, ResolveGame
  <2>2. known'[c] => r \in answered
    BY DEF IInv, TypeOK, ResolveGame
  <2>3. CASE r = Blank
    <3>1. pc'[c] = "done" /\ ~known'[c]
      BY <1>1, <2>2, <2>3 DEF IInv, TypeOK, ResolveGame, Return
    <3> QED  BY <3>1 DEF Found
  <2>4. CASE r # Blank /\ r \in DOMAIN cache
    <3>1. pc'[c] = "done" /\ answer'[c] = cache[r]
      BY <2>4 DEF IInv, TypeOK, ResolveGame, Return
    <3> QED  BY <1>2, <2>1, <2>4, <3>1 DEF Found
  <2>5. CASE r # Blank /\ r \notin DOMAIN cache
    <3>1. pc'[c] = "servers" /\ ~known'[c]
      BY <1>1, <2>2, <2>5 DEF IInv, TypeOK, ResolveGame
    <3> QED  BY <2>1, <2>5, <3>1 DEF Found
  <2> QED  BY <2>3, <2>4, <2>5
<1>6. UNCHANGED panel /\ cache' = cache
  BY DEF ResolveGame
<1>7. ASSUME NEW d \in Callers \ {c}
      PROVE  /\ pc'[d] = pc[d] /\ ref'[d] = ref[d] /\ eggID'[d] = eggID[d] /\ game'[d] = game[d]
             /\ answer'[d] = answer[d] /\ known'[d] = known[d] /\ asks'[d] = asks[d]
  BY DEF IInv, TypeOK, ResolveGame, Return
<1>8. \A x \in DOMAIN cache' : Owned(x, cache'[x])
  BY <1>6 DEF IInv, GamesOwned
<1> QED  BY <1>3, <1>4, <1>5, <1>6, <1>7, <1>8, OthersFound

(* The panel has answered with its servers.                                 *)
LEMMA ServersIInv ==
  ASSUME IInv, NEW c \in Callers, lookupServerByUUID(c)
  PROVE  IInv'
<1>1. ref[c] \in Refs /\ asks[c] = 0 /\ ~known[c]
  BY DEF IInv, Found, TypeOK, lookupServerByUUID
<1> DEFINE s == matchServer(ref[c])
<1>2. Listed[ref[c]] # <<>> => s \in Entitled(ref[c]) /\ s \in Servers
  BY <1>1, MatchIsEntitled
<1>3. Listed[ref[c]] # <<>> => <<s, egg[s]>> \in assigned /\ egg[s] \in Eggs \cup {NoEgg}
  BY <1>2 DEF IInv, Recorded, TypeOK
<1>4. TypeOK'
  <2>1. /\ egg' = egg /\ eggName' = eggName /\ changes' = changes /\ cache' = cache
        /\ ref' = ref /\ game' = game /\ known' = known
    BY DEF lookupServerByUUID, panel
  <2>2. /\ answer' \in [Callers -> Games \cup {Failed}]
        /\ pc' \in [Callers -> {"idle", "servers", "egg", "store", "done"}]
        /\ answered' \subseteq Refs
    <3>1. CASE Listed[ref[c]] = <<>>
      <4>1. Return(c, ref[c], Blank)
        BY <3>1 DEF lookupServerByUUID
      <4> QED  BY <4>1, PanelAssumption DEF IInv, TypeOK, Return
    <3>2. CASE Listed[ref[c]] # <<>>
      <4>1. pc' = [pc EXCEPT ![c] = "egg"] /\ UNCHANGED <<answer, answered>>
        BY <3>2 DEF lookupServerByUUID
      <4> QED  BY <4>1 DEF IInv, TypeOK
    <3> QED  BY <3>1, <3>2
  <2>3. eggID' \in [Callers -> Eggs \cup {NoEgg}]
    BY <1>3 DEF IInv, TypeOK, lookupServerByUUID
  <2>4. asks' \in [Callers -> 0..2]
    BY <1>1 DEF IInv, TypeOK, lookupServerByUUID
  <2> QED  BY <2>1, <2>2, <2>3, <2>4 DEF IInv, TypeOK
<1>5. Found(c)'
  <2>1. ref' = ref /\ known' = known /\ assigned' = assigned /\ asks'[c] = 1
    BY <1>1 DEF lookupServerByUUID, panel, IInv, TypeOK
  <2>2. CASE Listed[ref[c]] = <<>>
    <3>1. pc'[c] = "done"
      BY <2>2 DEF lookupServerByUUID, Return, IInv, TypeOK
    <3> QED  BY <1>1, <2>1, <3>1 DEF Found
  <2>3. CASE Listed[ref[c]] # <<>>
    <3>1. pc'[c] = "egg" /\ eggID'[c] = egg[s]
      BY <2>3 DEF lookupServerByUUID, IInv, TypeOK
    <3>2. ref[c] # Blank
      BY DEF lookupServerByUUID, IInv, Found
    <3>3. \E t \in Entitled(ref[c]) : <<t, eggID'[c]>> \in assigned'
      BY <1>2, <1>3, <2>1, <2>3, <3>1
    <3> QED  BY <1>1, <2>1, <3>1, <3>2, <3>3, EntitledConstant DEF Found
  <2> QED  BY <2>2, <2>3
<1> QED  BY <1>4, <1>5, OthersFound DEF IInv, GamesOwned, TypeOK, lookupServerByUUID, Return

(* The panel has answered with the egg, or there is none to ask for.        *)
LEMMA EggIInv ==
  ASSUME IInv, NEW c \in Callers, lookupEggName(c)
  PROVE  IInv'
<1>1. ref[c] \in Refs \ {Blank} /\ asks[c] = 1 /\ ~known[c]
  BY DEF IInv, Found, TypeOK, lookupEggName
<1> DEFINE name == IF eggID[c] = NoEgg THEN Blank ELSE eggName[eggID[c]]
<1>2. name \in Games
  BY PanelAssumption DEF IInv, TypeOK
<1>3. name # Blank => Owned(ref[c], name)
  <2>1. eggID[c] # NoEgg => eggID[c] \in Eggs
    BY DEF IInv, TypeOK
  <2>2. PICK s \in Entitled(ref[c]) : <<s, eggID[c]>> \in assigned
    BY DEF IInv, Found, lookupEggName
  <2> QED  BY <2>1, <2>2 DEF IInv, Recorded, Owned
<1> HIDE DEF name
<1>4. /\ game' = [game EXCEPT ![c] = name]
      /\ IF name = Blank THEN Return(c, ref[c], Blank)
         ELSE pc' = [pc EXCEPT ![c] = "store"] /\ UNCHANGED <<answer, answered>>
  BY DEF lookupEggName, name
<1>5. TypeOK'
  <2>1. /\ egg' = egg /\ eggName' = eggName /\ changes' = changes /\ cache' = cache
        /\ ref' = ref /\ eggID' = eggID /\ known' = known
    BY DEF lookupEggName, panel
  <2>2. /\ answer' \in [Callers -> Games \cup {Failed}]
        /\ pc' \in [Callers -> {"idle", "servers", "egg", "store", "done"}]
        /\ answered' \subseteq Refs
    <3>1. CASE name = Blank
      <4>1. Return(c, ref[c], Blank)
        BY <1>4, <3>1
      <4> QED  BY <4>1, PanelAssumption DEF IInv, TypeOK, Return
    <3>2. CASE name # Blank
      <4>1. pc' = [pc EXCEPT ![c] = "store"] /\ UNCHANGED <<answer, answered>>
        BY <1>4, <3>2
      <4> QED  BY <4>1 DEF IInv, TypeOK
    <3> QED  BY <3>1, <3>2
  <2>3. game' \in [Callers -> Games]
    BY <1>2, <1>4 DEF IInv, TypeOK
  <2>4. asks' \in [Callers -> 0..2]
    BY <1>1 DEF IInv, TypeOK, lookupEggName
  <2> QED  BY <2>1, <2>2, <2>3, <2>4 DEF IInv, TypeOK
<1>6. Found(c)'
  <2>1. ref' = ref /\ known' = known /\ assigned' = assigned /\ named' = named
    BY DEF lookupEggName, panel
  <2>2. CASE name = Blank
    <3>1. pc'[c] = "done"
      BY <1>4, <2>2 DEF Return, IInv, TypeOK
    <3> QED  BY <1>1, <2>1, <3>1 DEF Found
  <2>3. CASE name # Blank
    <3>1. pc'[c] = "store" /\ game'[c] = name
      BY <1>4, <2>3 DEF IInv, TypeOK
    <3>2. Entitled(ref[c])' = Entitled(ref[c])
      BY <2>1 DEF Entitled, Exact
    <3>3. Owned(ref[c], game[c])'
      <4>1. PICK t \in Entitled(ref[c]), e \in Eggs : <<t, e>> \in assigned /\ <<e, name>> \in named
        BY <1>3, <2>3 DEF Owned
      <4>2. ref'[c] = ref[c] /\ <<t, e>> \in assigned' /\ <<e, game'[c]>> \in named'
        BY <2>1, <3>1, <4>1
      <4>3. t \in Entitled(ref[c])'
        BY <4>1, <3>2
      <4> QED  BY <4>2, <4>3 DEF Owned
    <3> QED  BY <1>1, <2>1, <2>3, <3>1, <3>3 DEF Found
  <2> QED  BY <2>2, <2>3
<1>7. \A d \in Callers \ {c} : pc'[d] = pc[d] /\ answer'[d] = answer[d] /\ game'[d] = game[d]
                               /\ asks'[d] = asks[d]
  BY <1>4 DEF IInv, TypeOK, Return, lookupEggName
<1>8. answered' \subseteq DOMAIN cache'
  BY <1>4 DEF IInv, Return, lookupEggName
<1> QED  BY <1>5, <1>6, <1>7, <1>8, OthersFound DEF IInv, GamesOwned, lookupEggName

(* A lookup stores its game.                                                *)
LEMMA StoreIInv ==
  ASSUME IInv, NEW c \in Callers, Store(c)
  PROVE  IInv'
<1>1. /\ ref[c] \in Refs \ {Blank} /\ ~known[c]
      /\ game[c] \in Games \ {Blank, Failed} /\ Owned(ref[c], game[c])
  BY PanelAssumption DEF IInv, Found, TypeOK, Store
<1>2. /\ DOMAIN cache' = DOMAIN cache \cup {ref[c]}
      /\ \A x \in DOMAIN cache' : cache'[x] = IF x = ref[c] THEN game[c] ELSE cache[x]
  BY DEF Store, Put
<1>3. TypeOK'
  BY <1>1, <1>2 DEF IInv, TypeOK, Store, Return, panel
<1>4. \A x \in DOMAIN cache' : Owned(x, cache'[x])
  BY <1>1, <1>2 DEF IInv, GamesOwned
<1>5. answered' \subseteq DOMAIN cache'
  BY <1>2 DEF IInv, Store, Return
<1>6. Found(c)'
  BY <1>1 DEF IInv, TypeOK, Found, Store, Return
<1> QED  BY <1>3, <1>4, <1>5, <1>6, OthersFound DEF IInv, GamesOwned, TypeOK, Store, Return

(* A request to the panel fails.                                            *)
LEMMA FailsIInv ==
  ASSUME IInv, NEW c \in Callers, RequestFails(c)
  PROVE  IInv'
<1>1. ref[c] \in Refs \ {Blank} /\ asks[c] \in {0, 1} /\ ~known[c]
  BY DEF IInv, Found, TypeOK, RequestFails
<1>2. TypeOK'
  BY <1>1 DEF IInv, TypeOK, RequestFails, Return, panel
<1>3. Found(c)'
  BY <1>1 DEF IInv, TypeOK, Found, RequestFails, Return
<1> QED  BY <1>2, <1>3, OthersFound DEF IInv, GamesOwned, TypeOK, RequestFails, Return

(* The panel changes under the lookups: what they found was true when they  *)
(* found it.                                                                *)
LEMMA PanelIInv ==
  ASSUME IInv, PanelChanges
  PROVE  IInv'
<1>1. assigned \subseteq assigned' /\ named \subseteq named'
  BY DEF PanelChanges, Reassign, Rename
<1>2. /\ cache' = cache /\ pc' = pc /\ ref' = ref /\ eggID' = eggID /\ game' = game
      /\ answer' = answer /\ answered' = answered /\ known' = known /\ asks' = asks
  BY DEF PanelChanges, Reassign, Rename
<1>3. TypeOK' /\ Recorded'
  <2>1. ASSUME NEW s \in Servers, NEW e \in Eggs \cup {NoEgg}, Reassign(s, e)
        PROVE  TypeOK' /\ Recorded'
    <3>1. changes' \in 0..MaxChanges
      BY <2>1, PanelAssumption DEF IInv, TypeOK, Reassign
    <3> QED  BY <1>2, <2>1, <3>1 DEF IInv, TypeOK, Recorded, Reassign
  <2>2. ASSUME NEW e \in Eggs, NEW n \in Games, Rename(e, n)
        PROVE  TypeOK' /\ Recorded'
    <3>1. changes' \in 0..MaxChanges
      BY <2>2, PanelAssumption DEF IInv, TypeOK, Rename
    <3> QED  BY <1>2, <2>2, <3>1 DEF IInv, TypeOK, Recorded, Rename
  <2> QED  BY <2>1, <2>2 DEF PanelChanges
<1>4. GamesOwned'
  BY <1>1, <1>2, EntitledConstant DEF IInv, GamesOwned, Owned
<1>5. ASSUME NEW c \in Callers PROVE Found(c)'
  <2>1. Found(c)
    BY DEF IInv
  <2> QED  BY <1>1, <1>2, <2>1, StillFound
<1> QED  BY <1>2, <1>3, <1>4, <1>5 DEF IInv

(* Every step keeps the invariant.                                          *)
LEMMA NextIInv == IInv /\ [Next]_vars => IInv'
<1> SUFFICES ASSUME IInv, [Next]_vars PROVE IInv'
  OBVIOUS
<1>1. CASE UNCHANGED vars
  <2>1. UNCHANGED panel
    BY <1>1 DEF vars
  <2>2. /\ egg' = egg /\ eggName' = eggName /\ changes' = changes
        /\ assigned' = assigned /\ named' = named
    BY <2>1 DEF panel
  <2>3. /\ cache' = cache /\ pc' = pc /\ ref' = ref /\ eggID' = eggID /\ game' = game
        /\ answer' = answer /\ answered' = answered /\ known' = known /\ asks' = asks
    BY <1>1 DEF vars
  <2>4. GamesOwned'
    BY <2>2, <2>3, EntitledConstant DEF IInv, GamesOwned, Owned
  <2>5. ASSUME NEW c \in Callers PROVE Found(c)'
    <3>1. Found(c)
      BY DEF IInv
    <3> QED  BY <2>2, <2>3, <3>1, StillFound
  <2>6. TypeOK' /\ Recorded'
    BY <2>2, <2>3 DEF IInv, TypeOK, Recorded
  <2> QED  BY <2>3, <2>4, <2>5, <2>6 DEF IInv
<1>2. ASSUME NEW c \in Callers, NEW r \in Refs, ResolveGame(c, r) PROVE IInv'
  BY <1>2, ResolveGameIInv
<1>3. ASSUME NEW c \in Callers, Step(c) PROVE IInv'
  BY <1>3, ServersIInv, EggIInv, StoreIInv, FailsIInv DEF Step
<1>4. CASE PanelChanges
  BY <1>4, PanelIInv
<1> QED  BY <1>1, <1>2, <1>3, <1>4 DEF Next

(* IInv is an invariant of the resolver.                                    *)
THEOREM Inductive == Spec => []IInv
  BY InitIInv, NextIInv, PTL DEF Spec

-----------------------------------------------------------------------------
(* What follows                                                             *)

(* The resolver's state is well typed: no lookup asks more than twice, and  *)
(* neither an empty name nor a failure is ever cached.                      *)
THEOREM TypeCorrect == Spec => []TypeOK
<1>1. IInv => TypeOK
  BY DEF IInv
<1> QED  BY <1>1, Inductive, PTL

(* A cached game was that of an egg which the server the container names    *)
(* exactly had at some time or, if it names none, the first of the list.    *)
THEOREM CachesOwnGame == Spec => []OwnGameCached
<1>1. IInv => OwnGameCached
  BY DEF IInv, GamesOwned, OwnGameCached, Owned
<1> QED  BY <1>1, Inductive, PTL

(* After the first answer no lookup of a container asks the panel.          *)
THEOREM AsksOnce == Spec => []AskedOnce
<1>1. IInv => AskedOnce
  BY DEF IInv, AskedOnce, Found
<1> QED  BY <1>1, Inductive, PTL

(* No entry is lost; it is replaced by a lookup older than the first answer *)
(* only.                                                                    *)
THEOREM Settles == Spec => EntriesSettle
<1> DEFINE Kept ==
      \A r \in DOMAIN cache :
        /\ r \in DOMAIN cache'
        /\ cache'[r] # cache[r] => \E c \in Callers : pc[c] = "store" /\ ref[c] = r /\ ~known[c]
<1>1. IInv /\ [Next]_vars => [Kept]_vars
  <2> SUFFICES ASSUME IInv, Next PROVE Kept
    OBVIOUS
  <2>1. ASSUME NEW c \in Callers, Store(c) PROVE Kept
    <3>1. ~known[c] /\ pc[c] = "store"
      BY <2>1 DEF IInv, Found, Store
    <3> QED  BY <2>1, <3>1 DEF Store, Put
  <2>2. CASE UNCHANGED cache
    BY <2>2
  <2> QED  BY <2>1, <2>2 DEF Next, Step, ResolveGame, lookupServerByUUID, lookupEggName,
                            RequestFails, PanelChanges, Reassign, Rename
<1> QED  BY <1>1, Inductive, PTL DEF Spec, EntriesSettle

=============================================================================
