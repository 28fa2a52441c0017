----------------------------- MODULE ListFacts ------------------------------
(* What the list operators do, for lists of any length: Select of Common,   *)
(* FlattenSeq of the community modules and DistinctParts of Config.  The    *)
(* operators are recursive functions; that such a function exists and what  *)
(* it computes is proved by induction, which is a lemma about sets of       *)
(* naturals here.  And what Targets makes of lists: from any configuration  *)
(* and any request, a list of targets.                                      *)
EXTENDS Targets, SequenceTheorems, WellFoundedInduction, TLAPS

-----------------------------------------------------------------------------
(* Induction                                                                *)

LEMMA LessThanWellFounded ==
  \E R : IsWellFoundedOn(R, Nat) /\ \A i, j \in Nat : i < j => <<i, j>> \in R
<1>1. \A i, j \in Nat : i < j => <<i, j>> \in OpToRel(<, Nat)
  BY DEF OpToRel
<1> QED  BY <1>1, NatLessThanWellFounded

LEMMA LeastElement ==
  ASSUME NEW T, T \subseteq Nat, T # {}
  PROVE  \E n \in T : \A m \in T : n <= m
<1>1. PICK R : IsWellFoundedOn(R, Nat) /\ \A i, j \in Nat : i < j => <<i, j>> \in R
  BY LessThanWellFounded
<1>2. PICK n \in T : \A m \in T : ~(<<m, n>> \in R)
  <2>1. IsWellFoundedOn(R, Nat)
    BY <1>1
  <2> QED  BY <2>1, WFMin, Zenon
<1>3. ASSUME NEW m \in T PROVE n <= m
  <2>1. ~(m < n)
    BY <1>1, <1>2
  <2> QED  BY <2>1
<1> QED  BY <1>3

(* A set that has 0 and with each number the next one has all, up to n.      *)
LEMMA InductionUpTo ==
  ASSUME NEW n \in Nat, NEW T, 0 \in T,
         \A i \in 0..n : i \in T /\ i < n => i + 1 \in T
  PROVE  \A i \in 0..n : i \in T
<1> DEFINE Out == {i \in 0..n : i \notin T}
<1>1. SUFFICES ASSUME Out # {} PROVE FALSE
  OBVIOUS
<1>2. PICK m \in Out : \A i \in Out : m <= i
  <2>1. Out \subseteq Nat
    OBVIOUS
  <2> HIDE DEF Out
  <2> QED  BY <1>1, <2>1, LeastElement
<1>3. m \in 0..n /\ m # 0
  BY <1>2
<1>4. m - 1 \in 0..n /\ m - 1 < n /\ m - 1 \notin Out
  BY <1>2, <1>3
<1>5. (m - 1) + 1 = m
  BY <1>3
<1> QED  BY <1>2, <1>4, <1>5

-----------------------------------------------------------------------------
(* Select                                                                   *)

(* The function Select recurs on, up to n.                                  *)
Chosen(s, I, n, g) ==
  g = [i \in 0..n |-> IF i = 0 THEN <<>>
                      ELSE IF i \in I THEN Append(g[i - 1], s[i]) ELSE g[i - 1]]

LEMMA ChosenExists ==
  ASSUME NEW s, NEW I, NEW n \in Nat
  PROVE  \E g : Chosen(s, I, n, g)
<1> DEFINE T == {i \in 0..n : \E g : Chosen(s, I, i, g)}
<1>1. 0 \in T
  <2>1. Chosen(s, I, 0, [i \in 0..0 |-> <<>>])
    BY DEF Chosen
  <2> QED  BY <2>1
<1>2. ASSUME NEW k \in 0..n, k \in T, k < n PROVE k + 1 \in T
  <2>1. PICK g : Chosen(s, I, k, g)
    BY <1>2
  <2> DEFINE last == IF k + 1 \in I THEN Append(g[k], s[k + 1]) ELSE g[k]
             h == [i \in 0..(k + 1) |-> IF i = k + 1 THEN last ELSE g[i]]
  <2>2. \A i \in 0..k : g[i] = IF i = 0 THEN <<>>
                               ELSE IF i \in I THEN Append(g[i - 1], s[i]) ELSE g[i - 1]
    BY <2>1 DEF Chosen
  <2>3. ASSUME NEW i \in 0..(k + 1)
        PROVE  h[i] = IF i = 0 THEN <<>>
                      ELSE IF i \in I THEN Append(h[i - 1], s[i]) ELSE h[i - 1]
    <3>1. CASE i = k + 1
      <4>1. h[i] = last /\ h[i - 1] = g[k] /\ i - 1 = k /\ i # 0
        BY <3>1
      <4> QED  BY <3>1, <4>1
    <3>2. CASE i # k + 1
      <4>1. i \in 0..k /\ h[i] = g[i] /\ (i # 0 => i - 1 \in 0..k /\ h[i - 1] = g[i - 1])
        BY <3>2
      <4> QED  BY <4>1, <2>2
    <3> QED  BY <3>1, <3>2
  <2>4. Chosen(s, I, k + 1, h)
    <3> HIDE DEF last
    <3>1. h = [i \in 0..(k + 1) |-> h[i]]
      OBVIOUS
    <3> HIDE DEF h
    <3> QED  BY <2>3, <3>1 DEF Chosen
  <2> QED  BY <2>4, <1>2
<1>3. \A i \in 0..n : i \in T
  BY <1>1, <1>2, InductionUpTo
<1> QED  BY <1>3

LEMMA SelectChosen ==
  ASSUME NEW s, NEW I, Len(s) \in Nat
  PROVE  \E g : Chosen(s, I, Len(s), g) /\ Select(s, I) = g[Len(s)]
<1> DEFINE h == CHOOSE g : Chosen(s, I, Len(s), g)
<1>1. Chosen(s, I, Len(s), h)
  BY ChosenExists
<1>2. Select(s, I) = h[Len(s)]
  BY DEF Select, Chosen
<1> QED  BY <1>1, <1>2

(* Select(s, I) is s read at the places in I, in their order: f[k] is the    *)
(* place of its k-th element.                                               *)
PlacesOf(s, I, n, t, f) ==
  /\ f \in [1..Len(t) -> I \cap 1..n]
  /\ \A k \in 1..Len(t) : t[k] = s[f[k]]
  /\ \A k, l \in 1..Len(t) : k < l => f[k] < f[l]
  /\ \A i \in I \cap 1..n : \E k \in 1..Len(t) : f[k] = i

LEMMA PlacesStep ==
  ASSUME NEW S, NEW s \in Seq(S), NEW I, NEW n \in Nat, n < Len(s),
         NEW t \in Seq(S), NEW f, PlacesOf(s, I, n, t, f), n + 1 \in I
  PROVE  \E h : PlacesOf(s, I, n + 1, Append(t, s[n + 1]), h)
<1> DEFINE u == Append(t, s[n + 1])
           m == Len(t)
           h == [k \in 1..(m + 1) |-> IF k = m + 1 THEN n + 1 ELSE f[k]]
<1>1. /\ m \in Nat /\ Len(u) = m + 1 /\ s[n + 1] \in S
      /\ \A k \in 1..m : u[k] = t[k]
      /\ u[m + 1] = s[n + 1]
  BY AppendProperties, ElementOfSeq
<1>2. \A k \in 1..m : f[k] \in I \cap 1..n
  BY DEF PlacesOf
<1>3. h \in [1..(m + 1) -> I \cap 1..(n + 1)]
  <2>1. ASSUME NEW k \in 1..(m + 1) PROVE h[k] \in I \cap 1..(n + 1)
    <3>1. k = m + 1 \/ k \in 1..m
      BY <1>1
    <3> QED  BY <1>2, <3>1
  <2> QED  BY <2>1
<1>4. \A k \in 1..(m + 1) : u[k] = s[h[k]]
  <2>1. ASSUME NEW k \in 1..(m + 1) PROVE u[k] = s[h[k]]
    <3>1. CASE k = m + 1
      BY <1>1, <3>1
    <3>2. CASE k \in 1..m
      <4>1. h[k] = f[k] /\ t[k] = s[f[k]] /\ u[k] = t[k]
        BY <1>1, <3>2 DEF PlacesOf
      <4> QED  BY <4>1
    <3> QED  BY <1>1, <3>1, <3>2
  <2> QED  BY <2>1
<1>5. ASSUME NEW k \in 1..(m + 1), NEW l \in 1..(m + 1), k < l PROVE h[k] < h[l]
  <2>1. k \in 1..m /\ h[k] = f[k]
    BY <1>1, <1>5
  <2>2. CASE l = m + 1
    BY <1>2, <2>1, <2>2
  <2>3. CASE l \in 1..m
    BY <1>5, <2>1, <2>3 DEF PlacesOf
  <2> QED  BY <1>1, <2>2, <2>3
<1>6. ASSUME NEW i \in I \cap 1..(n + 1) PROVE \E k \in 1..(m + 1) : h[k] = i
  <2>1. CASE i = n + 1
    <3>1. m + 1 \in 1..(m + 1) /\ h[m + 1] = i
      BY <1>1, <2>1
    <3> QED  BY <3>1
  <2>2. CASE i \in 1..n
    <3>1. PICK k \in 1..m : f[k] = i
      BY <2>2 DEF PlacesOf
    <3>2. k \in 1..(m + 1) /\ h[k] = i
      BY <1>1, <3>1
    <3> QED  BY <3>2
  <2> QED  BY <2>1, <2>2
<1> HIDE DEF u, m, h
<1>7. PlacesOf(s, I, n + 1, u, h)
  BY <1>1, <1>3, <1>4, <1>5, <1>6 DEF PlacesOf
<1> QED  BY <1>7 DEF u

LEMMA SelectPlaces ==
  ASSUME NEW S, NEW s \in Seq(S), NEW I
  PROVE  /\ Select(s, I) \in Seq(S)
         /\ \E f : PlacesOf(s, I, Len(s), Select(s, I), f)
<1>1. Len(s) \in Nat
  OBVIOUS
<1>2. PICK g : Chosen(s, I, Len(s), g) /\ Select(s, I) = g[Len(s)]
  BY <1>1, SelectChosen
<1>3. \A i \in 0..Len(s) : g[i] = IF i = 0 THEN <<>>
                                  ELSE IF i \in I THEN Append(g[i - 1], s[i]) ELSE g[i - 1]
  BY <1>2 DEF Chosen
<1> DEFINE T == {i \in 0..Len(s) : g[i] \in Seq(S) /\ \E f : PlacesOf(s, I, i, g[i], f)}
<1>4. 0 \in T
  <2>1. g[0] = <<>> /\ <<>> \in Seq(S) /\ Len(<<>>) = 0 /\ 1..0 = {}
    BY <1>1, <1>3
  <2>2. PlacesOf(s, I, 0, <<>>, [k \in {} |-> 0])
    BY <2>1 DEF PlacesOf
  <2>3. \E f : PlacesOf(s, I, 0, g[0], f)
    BY <2>1, <2>2
  <2>4. 0 \in 0..Len(s) /\ g[0] \in Seq(S)
    BY <1>1, <2>1
  <2> QED  BY <2>3, <2>4
<1>5. ASSUME NEW n \in 0..Len(s), n \in T, n < Len(s) PROVE n + 1 \in T
  <2>1. PICK f : PlacesOf(s, I, n, g[n], f)
    BY <1>5
  <2>2. g[n] \in Seq(S) /\ n \in Nat /\ n + 1 \in 0..Len(s) /\ s[n + 1] \in S
    BY <1>1, <1>5, ElementOfSeq
  <2>3. g[n + 1] = IF n + 1 \in I THEN Append(g[n], s[n + 1]) ELSE g[n]
    <3>1. (n + 1) - 1 = n /\ n + 1 # 0
      BY <2>2
    <3> QED  BY <1>3, <2>2, <3>1
  <2>4. CASE n + 1 \in I
    <3>1. \E h : PlacesOf(s, I, n + 1, g[n + 1], h)
      BY <1>5, <2>1, <2>2, <2>3, <2>4, PlacesStep
    <3>2. g[n + 1] \in Seq(S)
      BY <2>2, <2>3, <2>4, AppendProperties
    <3> QED  BY <2>2, <3>1, <3>2
  <2>5. CASE n + 1 \notin I
    <3>1. I \cap 1..(n + 1) = I \cap 1..n
      BY <2>2, <2>5
    <3>2. PlacesOf(s, I, n + 1, g[n], f)
      BY <2>1, <3>1 DEF PlacesOf
    <3> QED  BY <2>2, <2>3, <2>5, <3>2
  <2> QED  BY <2>4, <2>5
<1>6. \A i \in 0..Len(s) : i \in T
  BY <1>1, <1>4, <1>5, InductionUpTo
<1>7. Len(s) \in T
  BY <1>1, <1>6
<1> QED  BY <1>2, <1>7

(* Its elements are those of s at the places in I, each taken once.          *)
LEMMA SelectElements ==
  ASSUME NEW S, NEW s \in Seq(S), NEW I
  PROVE  ToSet(Select(s, I)) = {s[i] : i \in I \cap DOMAIN s}
<1>1. PICK f : PlacesOf(s, I, Len(s), Select(s, I), f)
  BY SelectPlaces
<1>2. Select(s, I) \in Seq(S)
  BY SelectPlaces
<1>3. DOMAIN s = 1..Len(s) /\ DOMAIN Select(s, I) = 1..Len(Select(s, I))
  BY <1>2
<1>4. ASSUME NEW k \in DOMAIN Select(s, I)
      PROVE  \E i \in I \cap DOMAIN s : Select(s, I)[k] = s[i]
  <2>1. f[k] \in I \cap DOMAIN s /\ Select(s, I)[k] = s[f[k]]
    BY <1>1, <1>3 DEF PlacesOf
  <2> QED  BY <2>1
<1>5. ASSUME NEW i \in I \cap DOMAIN s
      PROVE  \E k \in DOMAIN Select(s, I) : Select(s, I)[k] = s[i]
  <2>1. PICK k \in DOMAIN Select(s, I) : f[k] = i
    BY <1>1, <1>3 DEF PlacesOf
  <2>2. Select(s, I)[k] = s[i]
    BY <1>1, <1>3, <2>1 DEF PlacesOf
  <2> QED  BY <2>2
<1> QED  BY <1>4, <1>5 DEF ToSet

LEMMA SelectOnce ==
  ASSUME NEW S, NEW s \in Seq(S), NEW I,
         NEW k \in DOMAIN Select(s, I), NEW l \in DOMAIN Select(s, I), k # l
  PROVE  \E i, j \in I \cap DOMAIN s :
           i # j /\ Select(s, I)[k] = s[i] /\ Select(s, I)[l] = s[j]
<1>1. PICK f : PlacesOf(s, I, Len(s), Select(s, I), f)
  BY SelectPlaces
<1>2. Select(s, I) \in Seq(S)
  BY SelectPlaces
<1>3. DOMAIN s = 1..Len(s) /\ DOMAIN Select(s, I) = 1..Len(Select(s, I))
  BY <1>2
<1>4. /\ f[k] \in I \cap 1..Len(s) /\ Select(s, I)[k] = s[f[k]]
      /\ f[l] \in I \cap 1..Len(s) /\ Select(s, I)[l] = s[f[l]]
      /\ k < l => f[k] < f[l]
      /\ l < k => f[l] < f[k]
  BY <1>1, <1>3 DEF PlacesOf
<1>5. k < l \/ l < k
  BY <1>2
<1>6. f[k] # f[l]
  BY <1>4, <1>5
<1> QED  BY <1>3, <1>4, <1>6

(* Nothing is lost or moved when all places are chosen.                      *)
(* The first element stays the first if it is taken.                         *)
LEMMA SelectHead ==
  ASSUME NEW S, NEW s \in Seq(S), NEW I, s # <<>>, 1 \in I
  PROVE  Select(s, I) # <<>> /\ Select(s, I)[1] = s[1]
<1> DEFINE t == Select(s, I)
           m == Len(t)
           n == Len(s)
<1>1. t \in Seq(S) /\ m \in Nat /\ n \in Nat /\ n >= 1
  BY SelectPlaces, EmptySeq
<1>2. PICK f : PlacesOf(s, I, n, t, f)
  BY SelectPlaces
<1> HIDE DEF t, m, n
<1>3. Len(t) = m /\ 1 \in I \cap 1..n
  BY <1>1 DEF m
<1>4. PICK k \in 1..m : f[k] = 1
  BY <1>2, <1>3 DEF PlacesOf
<1>5. 1 \in 1..m /\ f[1] \in 1..n /\ t[1] = s[f[1]]
  BY <1>1, <1>2, <1>3, <1>4 DEF PlacesOf
<1>6. k = 1
  <2>1. k # 1 => f[1] < f[k]
    BY <1>1, <1>2, <1>3, <1>4, <1>5 DEF PlacesOf
  <2> QED  BY <1>1, <1>4, <1>5, <2>1
<1>7. t # <<>> /\ t[1] = s[1]
  BY <1>1, <1>3, <1>4, <1>5, <1>6, EmptySeq
<1> QED  BY <1>7 DEF t

LEMMA SelectAll ==
  ASSUME NEW S, NEW s \in Seq(S), NEW I, DOMAIN s \subseteq I
  PROVE  Select(s, I) = s
<1>1. Len(s) \in Nat /\ DOMAIN s = 1..Len(s)
  OBVIOUS
<1>2. PICK g : Chosen(s, I, Len(s), g) /\ Select(s, I) = g[Len(s)]
  BY <1>1, SelectChosen
<1>3. \A i \in 0..Len(s) : g[i] = IF i = 0 THEN <<>>
                                  ELSE IF i \in I THEN Append(g[i - 1], s[i]) ELSE g[i - 1]
  BY <1>2 DEF Chosen
<1> DEFINE T == {i \in 0..Len(s) : /\ g[i] \in Seq(S) /\ Len(g[i]) = i
                                   /\ \A j \in 1..i : g[i][j] = s[j]}
<1>4. 0 \in T
  <2>1. g[0] = <<>>
    BY <1>1, <1>3
  <2>2. g[0] \in Seq(S) /\ Len(g[0]) = 0 /\ 1..0 = {}
    BY <2>1
  <2> QED  BY <1>1, <2>2
<1>5. ASSUME NEW n \in 0..Len(s), n \in T, n < Len(s) PROVE n + 1 \in T
  <2>1. /\ g[n] \in Seq(S) /\ Len(g[n]) = n /\ \A j \in 1..n : g[n][j] = s[j]
        /\ n \in Nat /\ n + 1 \in 0..Len(s) /\ n + 1 \in I /\ s[n + 1] \in S
    BY <1>1, <1>5, ElementOfSeq
  <2>2. g[n + 1] = Append(g[n], s[n + 1])
    <3>1. (n + 1) - 1 = n /\ n + 1 # 0
      BY <2>1
    <3> QED  BY <1>3, <2>1, <3>1
  <2>3. g[n + 1] \in Seq(S) /\ Len(g[n + 1]) = n + 1
    BY <2>1, <2>2, AppendProperties
  <2>4. \A j \in 1..(n + 1) : g[n + 1][j] = s[j]
    BY <2>1, <2>2, AppendProperties
  <2> QED  BY <2>1, <2>3, <2>4
<1>6. Len(s) \in T
  <2>1. \A i \in 0..Len(s) : i \in T
    BY <1>1, <1>4, <1>5, InductionUpTo
  <2> QED  BY <1>1, <2>1
<1> DEFINE t == g[Len(s)]
<1>7. t \in Seq(S) /\ Len(t) = Len(s) /\ \A j \in 1..Len(s) : t[j] = s[j]
  BY <1>6
<1>8. t = s
  <2> HIDE DEF t
  <2> QED  BY <1>7, SeqEqual
<1> QED  BY <1>2, <1>8

-----------------------------------------------------------------------------
(* FlattenSeq                                                               *)

(* The function FlattenSeq recurs on, up to n.                              *)
Joined(seqs, n, g) ==
  g = [i \in 1..n |-> IF i = 1 THEN seqs[i] ELSE g[i - 1] \o seqs[i]]

LEMMA JoinedExists ==
  ASSUME NEW seqs, NEW n \in Nat
  PROVE  \E g : Joined(seqs, n, g)
<1> DEFINE T == {i \in 0..n : \E g : Joined(seqs, i, g)}
<1>1. 0 \in T
  <2>1. Joined(seqs, 0, [i \in 1..0 |-> <<>>])
    BY DEF Joined
  <2> QED  BY <2>1
<1>2. ASSUME NEW k \in 0..n, k \in T, k < n PROVE k + 1 \in T
  <2>1. PICK g : Joined(seqs, k, g)
    BY <1>2
  <2> DEFINE last == IF k = 0 THEN seqs[k + 1] ELSE g[k] \o seqs[k + 1]
             h == [i \in 1..(k + 1) |-> IF i = k + 1 THEN last ELSE g[i]]
  <2>2. \A i \in 1..k : g[i] = IF i = 1 THEN seqs[i] ELSE g[i - 1] \o seqs[i]
    BY <2>1 DEF Joined
  <2>3. ASSUME NEW i \in 1..(k + 1)
        PROVE  h[i] = IF i = 1 THEN seqs[i] ELSE h[i - 1] \o seqs[i]
    <3>1. CASE i = k + 1
      <4>1. h[i] = last /\ (k = 0 <=> i = 1) /\ (k # 0 => h[i - 1] = g[k])
        BY <3>1
      <4> QED  BY <3>1, <4>1
    <3>2. CASE i # k + 1
      <4>1. i \in 1..k /\ h[i] = g[i] /\ (i # 1 => i - 1 \in 1..k /\ h[i - 1] = g[i - 1])
        BY <3>2
      <4> QED  BY <4>1, <2>2
    <3> QED  BY <3>1, <3>2
  <2>4. Joined(seqs, k + 1, h)
    <3> HIDE DEF last
    <3>1. h = [i \in 1..(k + 1) |-> h[i]]
      OBVIOUS
    <3> HIDE DEF h
    <3> QED  BY <2>3, <3>1 DEF Joined
  <2> QED  BY <2>4, <1>2
<1>3. \A i \in 0..n : i \in T
  BY <1>1, <1>2, InductionUpTo
<1> QED  BY <1>3

LEMMA FlattenJoined ==
  ASSUME NEW seqs, Len(seqs) \in Nat, Len(seqs) # 0
  PROVE  \E g : Joined(seqs, Len(seqs), g) /\ FlattenSeq(seqs) = g[Len(seqs)]
<1> DEFINE h == CHOOSE g : Joined(seqs, Len(seqs), g)
<1>1. Joined(seqs, Len(seqs), h)
  BY JoinedExists
<1>2. FlattenSeq(seqs) = h[Len(seqs)]
  BY DEF FlattenSeq, Joined
<1> QED  BY <1>1, <1>2

LEMMA FlattenType ==
  ASSUME NEW S, NEW seqs \in Seq(Seq(S))
  PROVE  FlattenSeq(seqs) \in Seq(S)
<1>1. Len(seqs) \in Nat
  OBVIOUS
<1>2. CASE Len(seqs) = 0
  <2>1. seqs = <<>> /\ FlattenSeq(seqs) = seqs
    BY <1>2, EmptySeq DEF FlattenSeq
  <2>2. <<>> \in Seq(S)
    OBVIOUS
  <2> QED  BY <2>1, <2>2
<1>3. CASE Len(seqs) # 0
  <2>1. PICK g : Joined(seqs, Len(seqs), g) /\ FlattenSeq(seqs) = g[Len(seqs)]
    BY <1>1, <1>3, FlattenJoined
  <2>2. \A i \in 1..Len(seqs) : g[i] = IF i = 1 THEN seqs[i] ELSE g[i - 1] \o seqs[i]
    BY <2>1 DEF Joined
  <2> DEFINE T == {i \in 0..Len(seqs) : i # 0 => g[i] \in Seq(S)}
  <2>3. 0 \in T
    BY <1>1
  <2>4. ASSUME NEW n \in 0..Len(seqs), n \in T, n < Len(seqs) PROVE n + 1 \in T
    <3>1. n + 1 \in 1..Len(seqs) /\ seqs[n + 1] \in Seq(S)
      BY <1>1, <2>4, ElementOfSeq
    <3>2. CASE n = 0
      <4>1. g[n + 1] = seqs[n + 1]
        BY <2>2, <3>1, <3>2
      <4> QED  BY <3>1, <4>1
    <3>3. CASE n # 0
      <4>1. g[n] \in Seq(S) /\ (n + 1) - 1 = n /\ n + 1 # 1
        BY <2>4, <3>3
      <4>2. g[n + 1] = g[n] \o seqs[n + 1]
        BY <2>2, <3>1, <4>1
      <4>3. g[n + 1] \in Seq(S)
        BY <3>1, <4>1, <4>2, ConcatProperties
      <4> QED  BY <3>1, <4>3
    <3> QED  BY <3>2, <3>3
  <2>5. \A i \in 0..Len(seqs) : i \in T
    BY <1>1, <2>3, <2>4, InductionUpTo
  <2> QED  BY <1>1, <1>3, <2>1, <2>5
<1> QED  BY <1>2, <1>3

LEMMA FlattenOne ==
  ASSUME NEW a
  PROVE  FlattenSeq(<<a>>) = a
<1> DEFINE s == <<a>>
<1>1. Len(s) = 1 /\ s[1] = a
  OBVIOUS
<1> HIDE DEF s
<1>2. PICK g : Joined(s, 1, g) /\ FlattenSeq(s) = g[1]
  <2>1. Len(s) \in Nat /\ Len(s) # 0
    BY <1>1
  <2>2. \E g : Joined(s, Len(s), g) /\ FlattenSeq(s) = g[Len(s)]
    BY <2>1, FlattenJoined
  <2> QED  BY <1>1, <2>2
<1>3. FlattenSeq(s) = a
  BY <1>1, <1>2 DEF Joined
<1> QED  BY <1>3 DEF s

LEMMA FlattenTwo ==
  ASSUME NEW a, NEW b
  PROVE  FlattenSeq(<<a, b>>) = a \o b
<1> DEFINE s == <<a, b>>
<1>1. Len(s) = 2 /\ s[1] = a /\ s[2] = b
  OBVIOUS
<1> HIDE DEF s
<1>2. PICK g : Joined(s, 2, g) /\ FlattenSeq(s) = g[2]
  <2>1. Len(s) \in Nat /\ Len(s) # 0
    BY <1>1
  <2>2. \E g : Joined(s, Len(s), g) /\ FlattenSeq(s) = g[Len(s)]
    BY <2>1, FlattenJoined
  <2> QED  BY <1>1, <2>2
<1>3. g[1] = a
  BY <1>1, <1>2 DEF Joined
<1>4. g[2] = g[1] \o b
  <2>1. 2 \in 1..2 /\ 2 # 1 /\ 2 - 1 = 1
    OBVIOUS
  <2>2. \A i \in 1..2 : g[i] = IF i = 1 THEN s[i] ELSE g[i - 1] \o s[i]
    BY <1>2 DEF Joined
  <2>3. g[2] = g[2 - 1] \o s[2]
    BY <2>1, <2>2
  <2> QED  BY <1>1, <2>1, <2>3
<1>5. FlattenSeq(s) = a \o b
  BY <1>2, <1>3, <1>4
<1> QED  BY <1>5 DEF s

LEMMA FlattenFour ==
  ASSUME NEW s, Len(s) = 4
  PROVE  FlattenSeq(s) = ((s[1] \o s[2]) \o s[3]) \o s[4]
<1>1. PICK g : Joined(s, 4, g) /\ FlattenSeq(s) = g[4]
  <2>1. Len(s) \in Nat /\ Len(s) # 0
    OBVIOUS
  <2>2. \E g : Joined(s, Len(s), g) /\ FlattenSeq(s) = g[Len(s)]
    BY <2>1, FlattenJoined
  <2> QED  BY <2>2
<1>2. \A i \in 1..4 : g[i] = IF i = 1 THEN s[i] ELSE g[i - 1] \o s[i]
  BY <1>1 DEF Joined
<1>3. g[1] = s[1]
  BY <1>2
<1>4. g[2] = g[1] \o s[2]
  <2>1. 2 \in 1..4 /\ 2 # 1 /\ 2 - 1 = 1
    OBVIOUS
  <2>2. g[2] = g[2 - 1] \o s[2]
    BY <1>2, <2>1
  <2> QED  BY <2>1, <2>2
<1>5. g[3] = g[2] \o s[3]
  <2>1. 3 \in 1..4 /\ 3 # 1 /\ 3 - 1 = 2
    OBVIOUS
  <2>2. g[3] = g[3 - 1] \o s[3]
    BY <1>2, <2>1
  <2> QED  BY <2>1, <2>2
<1>6. g[4] = g[3] \o s[4]
  <2>1. 4 \in 1..4 /\ 4 # 1 /\ 4 - 1 = 3
    OBVIOUS
  <2>2. g[4] = g[4 - 1] \o s[4]
    BY <1>2, <2>1
  <2> QED  BY <2>1, <2>2
<1> QED  BY <1>1, <1>3, <1>4, <1>5, <1>6

-----------------------------------------------------------------------------
(* The lists of the configuration and of requests                           *)

(* What the loop of parseDelimitedList, normalizeContainerRefs and           *)
(* normalizeChannelIDs returns: each part that is not blank, once.           *)
LEMMA DistinctPartsFacts ==
  ASSUME NEW values \in Seq(Seq(STRING))
  PROVE  /\ DistinctParts(values) \in Seq(STRING)
         /\ IsInjective(DistinctParts(values))
         /\ ToSet(DistinctParts(values)) = ToSet(FlattenSeq(values)) \ {Blank}
<1> DEFINE parts == FlattenSeq(values)
           First == {i \in DOMAIN parts :
                       parts[i] # Blank /\ \A j \in 1..(i - 1) : parts[j] # parts[i]}
<1>1. parts \in Seq(STRING)
  BY FlattenType
<1>2. DistinctParts(values) = Select(parts, First)
  BY DEF DistinctParts
<1> HIDE DEF parts
<1>3. Select(parts, First) \in Seq(STRING)
  BY <1>1, SelectPlaces
<1>4. ASSUME NEW k \in DOMAIN Select(parts, First), NEW l \in DOMAIN Select(parts, First), k # l
      PROVE  Select(parts, First)[k] # Select(parts, First)[l]
  <2>1. PICK i, j \in First \cap DOMAIN parts :
          i # j /\ Select(parts, First)[k] = parts[i] /\ Select(parts, First)[l] = parts[j]
    <3> HIDE DEF First
    <3> QED  BY <1>1, <1>4, SelectOnce
  <2>2. i \in Nat /\ j \in Nat /\ i >= 1 /\ j >= 1
    BY <1>1
  <2>3. i \in 1..(j - 1) \/ j \in 1..(i - 1)
    BY <2>1, <2>2
  <2> QED  BY <2>1, <2>3
<1>5. \A i \in DOMAIN parts : parts[i] # Blank => \E j \in First : parts[j] = parts[i]
  <2>1. ASSUME NEW i \in DOMAIN parts, parts[i] # Blank PROVE \E j \in First : parts[j] = parts[i]
    <3> DEFINE Same == {j \in DOMAIN parts : parts[j] = parts[i]}
    <3>1. Same \subseteq Nat /\ Same # {}
      BY <1>1, <2>1
    <3>2. PICK j \in Same : \A k \in Same : j <= k
      <4> HIDE DEF Same
      <4> QED  BY <3>1, LeastElement
    <3>3. \A k \in 1..(j - 1) : k \in DOMAIN parts /\ k \notin Same
      BY <1>1, <3>2
    <3>4. j \in First /\ parts[j] = parts[i]
      BY <2>1, <3>2, <3>3
    <3> QED  BY <3>4
  <2> QED  BY <2>1
<1>6. ToSet(Select(parts, First)) = ToSet(parts) \ {Blank}
  <2>1. ToSet(Select(parts, First)) = {parts[i] : i \in First \cap DOMAIN parts}
    <3> HIDE DEF First
    <3> QED  BY <1>1, SelectElements
  <2>2. ToSet(parts) \ {Blank} = {parts[i] : i \in First \cap DOMAIN parts}
    <3>1. \A i \in First : i \in DOMAIN parts /\ parts[i] # Blank
      OBVIOUS
    <3> HIDE DEF First
    <3> QED  BY <1>5, <3>1 DEF ToSet
  <2> QED  BY <2>1, <2>2
<1>7. IsInjective(Select(parts, First))
  BY <1>4 DEF IsInjective
<1> QED  BY <1>2, <1>3, <1>6, <1>7 DEF parts

(* It leaves a list alone that has no blank and no repeated part.           *)
LEMMA DistinctPartsSame ==
  ASSUME NEW values \in Seq(Seq(STRING)), IsInjective(FlattenSeq(values)),
         Blank \notin ToSet(FlattenSeq(values))
  PROVE  DistinctParts(values) = FlattenSeq(values)
<1> DEFINE parts == FlattenSeq(values)
           First == {i \in DOMAIN parts :
                       parts[i] # Blank /\ \A j \in 1..(i - 1) : parts[j] # parts[i]}
<1>1. parts \in Seq(STRING)
  BY FlattenType
<1>2. DistinctParts(values) = Select(parts, First)
  BY DEF DistinctParts
<1> HIDE DEF parts
<1>3. \A i, j \in DOMAIN parts : parts[i] = parts[j] => i = j
  BY DEF IsInjective, parts
<1>4. \A i \in DOMAIN parts : parts[i] # Blank
  BY DEF ToSet, parts
<1>5. ASSUME NEW i \in DOMAIN parts PROVE i \in First
  <2>1. \A j \in 1..(i - 1) : j \in DOMAIN parts /\ j # i
    BY <1>1
  <2> QED  BY <1>3, <1>4, <2>1
<1>6. DOMAIN parts \subseteq First
  BY <1>5
<1>7. Select(parts, First) = parts
  <2> HIDE DEF First
  <2> QED  BY <1>1, <1>6, SelectAll
<1> QED  BY <1>2, <1>7 DEF parts

-----------------------------------------------------------------------------
(* Lists of targets                                                         *)

(* Strings; that Blank is one of them is not known to the provers.           *)
Texts == STRING \cup {Blank}

BT == [ref : Texts, transport : BroadcastTransport, game : Texts, addr : Texts, pass : Texts]

DistinctRefs(ts) == \A i, j \in DOMAIN ts : ts[i].ref = ts[j].ref => i = j

TargetList(ts) ==
  ts \in Seq(BT) /\ DistinctRefs(ts) /\ \A i \in DOMAIN ts : ts[i].ref # Blank

LEMMA FunctionIsSeq ==
  ASSUME NEW S, NEW n \in Nat, NEW f \in [1..n -> S]
  PROVE  f \in Seq(S) /\ Len(f) = n
<1>1. f \in Seq(S)
  BY SeqDef
<1> QED  BY <1>1, LenProperties

(* A list of parts without blanks or repetitions, and a target for each.     *)
LEMMA TargetsOfParts ==
  ASSUME NEW refs \in Seq(STRING), IsInjective(refs), Blank \notin ToSet(refs),
         NEW ts, DOMAIN ts = DOMAIN refs, ts = [i \in DOMAIN refs |-> ts[i]],
         \A i \in DOMAIN refs : ts[i] \in BT /\ ts[i].ref = refs[i]
  PROVE  TargetList(ts)
<1>1. DOMAIN refs = 1..Len(refs) /\ Len(refs) \in Nat
  OBVIOUS
<1>2. ts \in [1..Len(refs) -> BT]
  BY <1>1
<1>3. ts \in Seq(BT)
  BY <1>1, <1>2, FunctionIsSeq
<1>4. \A i \in DOMAIN ts : ts[i].ref = refs[i] /\ refs[i] # Blank
  BY DEF ToSet
<1>5. DistinctRefs(ts)
  BY <1>4 DEF DistinctRefs, IsInjective
<1> QED  BY <1>3, <1>4, <1>5 DEF TargetList

LEMMA EntryIsText ==
  ASSUME NEW list \in Seq(STRING), NEW i
  PROVE  Entry(list, i) \in Texts
<1>1. i \in DOMAIN list => list[i] \in STRING
  OBVIOUS
<1> QED  BY <1>1 DEF Entry, Texts

LEMMA TransportType ==
  \A value : normalizeTargetTransport(value) \in BroadcastTransport
BY DEF normalizeTargetTransport, BroadcastTransport

(* The default lists, from the parts of the variables.                       *)
LEMMA ConsoleTargets ==
  ASSUME NEW names \in Seq(STRING), IsInjective(names), Blank \notin ToSet(names)
  PROVE  LET ts == buildDefaultBroadcastTargets(<<>>, names)
         IN  /\ TargetList(ts) /\ Refs(ts) = ToSet(names)
             /\ \A i \in DOMAIN ts :
                  ts[i].transport = "docker" /\ ts[i].addr = Blank /\ ts[i].pass = Blank
<1> DEFINE ts == buildDefaultBroadcastTargets(<<>>, names)
<1>1. normalizeContainerRefs(<<<<>>, names>>) = names
  <2>1. FlattenSeq(<<<<>>, names>>) = names
    BY FlattenTwo, ConcatEmptySeq
  <2>2. <<>> \in Seq(STRING)
    OBVIOUS
  <2>3. <<<<>>, names>> \in Seq(Seq(STRING))
    BY <2>2
  <2> QED  BY <2>1, <2>3, DistinctPartsSame DEF normalizeContainerRefs
<1>2. ts = [i \in DOMAIN names |->
              [ref |-> names[i], transport |-> "docker", game |-> Blank,
               addr |-> Blank, pass |-> Blank]]
  BY <1>1 DEF buildDefaultBroadcastTargets
<1> HIDE DEF ts
<1>3. \A i \in DOMAIN names : names[i] \in STRING
  OBVIOUS
<1>4. ASSUME NEW i \in DOMAIN names PROVE ts[i] \in BT /\ ts[i].ref = names[i]
  <2>1. ts[i] = [ref |-> names[i], transport |-> "docker", game |-> Blank,
                 addr |-> Blank, pass |-> Blank]
    BY <1>2
  <2>2. Blank \in Texts /\ "docker" \in BroadcastTransport /\ names[i] \in Texts
    BY <1>3 DEF Texts, BroadcastTransport
  <2> QED  BY <2>1, <2>2 DEF BT
<1>5. TargetList(ts)
  BY <1>2, <1>4, TargetsOfParts
<1>6. Refs(ts) = ToSet(names)
  BY <1>2, <1>4 DEF Refs, ToSet
<1> QED  BY <1>2, <1>5, <1>6 DEF ts

LEMMA RCONTargets ==
  ASSUME NEW names \in Seq(STRING), IsInjective(names), Blank \notin ToSet(names),
         NEW transports \in Seq(STRING), NEW addresses \in Seq(STRING),
         NEW passwords \in Seq(STRING)
  PROVE  LET ts == buildDefaultRCONTargets(names, transports, addresses, passwords)
         IN  /\ TargetList(ts) /\ Refs(ts) = ToSet(names) /\ DOMAIN ts = DOMAIN names
             /\ \A i \in DOMAIN ts :
                  /\ ts[i].ref = names[i]
                  /\ ts[i].transport = normalizeTargetTransport(Entry(transports, i))
                  /\ ts[i].addr = Entry(addresses, i)
                  /\ ts[i].pass = Entry(passwords, i)
<1> DEFINE ts == buildDefaultRCONTargets(names, transports, addresses, passwords)
<1>1. normalizeContainerRefs(<<names>>) = names
  <2>1. FlattenSeq(<<names>>) = names
    BY FlattenOne
  <2>2. <<names>> \in Seq(Seq(STRING))
    OBVIOUS
  <2> QED  BY <2>1, <2>2, DistinctPartsSame DEF normalizeContainerRefs
<1>2. ts = [i \in DOMAIN names |->
              [ref |-> names[i], game |-> Blank,
               transport |-> normalizeTargetTransport(Entry(transports, i)),
               addr |-> Entry(addresses, i), pass |-> Entry(passwords, i)]]
  BY <1>1 DEF buildDefaultRCONTargets, normalizeConfiguredConnectionTransport
<1> HIDE DEF ts
<1>3. \A i \in DOMAIN names :
        /\ names[i] \in Texts /\ Entry(addresses, i) \in Texts /\ Entry(passwords, i) \in Texts
        /\ normalizeTargetTransport(Entry(transports, i)) \in BroadcastTransport
  BY EntryIsText, TransportType DEF Texts
<1>4. ASSUME NEW i \in DOMAIN names
      PROVE  /\ ts[i] \in BT /\ ts[i].ref = names[i]
             /\ ts[i].transport = normalizeTargetTransport(Entry(transports, i))
             /\ ts[i].addr = Entry(addresses, i) /\ ts[i].pass = Entry(passwords, i)
  <2>1. ts[i] = [ref |-> names[i], game |-> Blank,
                 transport |-> normalizeTargetTransport(Entry(transports, i)),
                 addr |-> Entry(addresses, i), pass |-> Entry(passwords, i)]
    BY <1>2
  <2>2. Blank \in Texts
    BY DEF Texts
  <2> QED  BY <1>3, <2>1, <2>2 DEF BT
<1>5. TargetList(ts)
  BY <1>2, <1>4, TargetsOfParts
<1>6. Refs(ts) = ToSet(names)
  BY <1>2, <1>4 DEF Refs, ToSet
<1>7. DOMAIN ts = DOMAIN names
  BY <1>2
<1> QED  BY <1>4, <1>5, <1>6, <1>7 DEF ts

(* The lookup map of a list finds each of its targets.                       *)
LEMMA LookupFacts ==
  ASSUME NEW ts, TargetList(ts)
  PROVE  LET byRef == buildBroadcastTargetLookup(ts)
         IN  /\ DOMAIN byRef = Refs(ts)
             /\ \A i \in DOMAIN ts : byRef[ts[i].ref] = ts[i]
<1>1. DOMAIN buildBroadcastTargetLookup(ts) = Refs(ts)
  BY DEF buildBroadcastTargetLookup
<1>2. ASSUME NEW i \in DOMAIN ts PROVE buildBroadcastTargetLookup(ts)[ts[i].ref] = ts[i]
  <2>1. i \in Nat
    BY DEF TargetList
  <2>2. {j \in DOMAIN ts : ts[j].ref = ts[i].ref} = {i}
    BY DEF TargetList, DistinctRefs
  <2>3. Max({i}) = i
    BY <2>1 DEF Max
  <2>4. ts[i].ref \in Refs(ts)
    BY DEF Refs
  <2> QED  BY <2>2, <2>3, <2>4 DEF buildBroadcastTargetLookup
<1> QED  BY <1>1, <1>2

-----------------------------------------------------------------------------
(* The two resolution paths                                                 *)

(* What NewDockerCommander guarantees.                                      *)
WellBuilt(d) ==
  /\ TargetList(d.defaultConsoleTargets) /\ TargetList(d.defaultRCONTargets)
  /\ d.defaultConsoleByRef = buildBroadcastTargetLookup(d.defaultConsoleTargets)
  /\ d.defaultRCONByRef = buildBroadcastTargetLookup(d.defaultRCONTargets)
  /\ \A i \in DOMAIN d.defaultConsoleTargets :
       LET t == d.defaultConsoleTargets[i]
       IN  t.transport = "docker" /\ t.addr = Blank /\ t.pass = Blank

(* The target configured for a container.                                   *)
Configured(d, r) ==
  IF r \in DOMAIN d.defaultRCONByRef THEN d.defaultRCONByRef[r]
  ELSE IF r \in DOMAIN d.defaultConsoleByRef THEN d.defaultConsoleByRef[r]
  ELSE [ref |-> r, transport |-> "docker", game |-> Blank, addr |-> Blank, pass |-> Blank]

LEMMA ConfiguredRCON ==
  ASSUME NEW d, WellBuilt(d), NEW i \in DOMAIN d.defaultRCONTargets
  PROVE  /\ d.defaultRCONTargets[i].ref \in DOMAIN d.defaultRCONByRef
         /\ Configured(d, d.defaultRCONTargets[i].ref) = d.defaultRCONTargets[i]
BY LookupFacts DEF WellBuilt, Configured, Refs

LEMMA ConfiguredConsole ==
  ASSUME NEW d, WellBuilt(d), NEW i \in DOMAIN d.defaultConsoleTargets,
         d.defaultConsoleTargets[i].ref \notin DOMAIN d.defaultRCONByRef
  PROVE  Configured(d, d.defaultConsoleTargets[i].ref) = d.defaultConsoleTargets[i]
<1>1. d.defaultConsoleTargets[i].ref \in DOMAIN d.defaultConsoleByRef
  BY LookupFacts DEF WellBuilt, Refs
<1> QED  BY <1>1, LookupFacts DEF WellBuilt, Configured

LEMMA ConfiguredFacts ==
  ASSUME NEW d, WellBuilt(d), NEW r \in Texts
  PROVE  /\ Configured(d, r) \in BT /\ Configured(d, r).ref = r
         /\ \/ \E i \in DOMAIN d.defaultRCONTargets : Configured(d, r) = d.defaultRCONTargets[i]
            \/ /\ r \notin Refs(d.defaultRCONTargets) /\ Configured(d, r).transport = "docker"
               /\ Configured(d, r).addr = Blank /\ Configured(d, r).pass = Blank
<1>1. DOMAIN d.defaultRCONByRef = Refs(d.defaultRCONTargets)
  BY LookupFacts DEF WellBuilt
<1>2. DOMAIN d.defaultConsoleByRef = Refs(d.defaultConsoleTargets)
  BY LookupFacts DEF WellBuilt
<1>3. /\ \A i \in DOMAIN d.defaultRCONTargets : d.defaultRCONTargets[i] \in BT
      /\ \A i \in DOMAIN d.defaultConsoleTargets : d.defaultConsoleTargets[i] \in BT
  BY DEF WellBuilt, TargetList
<1>4. CASE r \in DOMAIN d.defaultRCONByRef
  <2>1. PICK i \in DOMAIN d.defaultRCONTargets : d.defaultRCONTargets[i].ref = r
    BY <1>1, <1>4 DEF Refs
  <2>2. Configured(d, r) = d.defaultRCONTargets[i]
    BY <2>1, ConfiguredRCON
  <2> QED  BY <1>3, <2>1, <2>2
<1>5. CASE r \notin DOMAIN d.defaultRCONByRef /\ r \in DOMAIN d.defaultConsoleByRef
  <2>1. PICK i \in DOMAIN d.defaultConsoleTargets : d.defaultConsoleTargets[i].ref = r
    BY <1>2, <1>5 DEF Refs
  <2>2. Configured(d, r) = d.defaultConsoleTargets[i]
    BY <1>5, <2>1, ConfiguredConsole
  <2>3. /\ d.defaultConsoleTargets[i].transport = "docker"
        /\ d.defaultConsoleTargets[i].addr = Blank /\ d.defaultConsoleTargets[i].pass = Blank
    BY DEF WellBuilt
  <2> QED  BY <1>1, <1>3, <1>5, <2>1, <2>2, <2>3
<1>6. CASE r \notin DOMAIN d.defaultRCONByRef /\ r \notin DOMAIN d.defaultConsoleByRef
  <2>1. Configured(d, r) = [ref |-> r, transport |-> "docker", game |-> Blank,
                       addr |-> Blank, pass |-> Blank]
    BY <1>6 DEF Configured
  <2>2. Blank \in Texts /\ "docker" \in BroadcastTransport
    BY DEF Texts, BroadcastTransport
  <2> QED  BY <1>1, <1>6, <2>1, <2>2 DEF BT
<1> QED  BY <1>4, <1>5, <1>6

(* The merged default list names each container once, and takes for each    *)
(* the target its lookup finds.                                             *)
LEMMA MergeFacts ==
  ASSUME NEW d, WellBuilt(d)
  PROVE  LET all == mergeDefaultTargetsPreferRCON(d.defaultConsoleTargets, d.defaultRCONTargets)
         IN  TargetList(all) /\ \A i \in DOMAIN all : all[i] = Configured(d, all[i].ref)
<1> DEFINE console == d.defaultConsoleTargets
           rcon == d.defaultRCONTargets
           first == [i \in DOMAIN console |-> Configured(d, console[i].ref)]
           Fresh == {i \in DOMAIN rcon : rcon[i].ref \notin Refs(console)}
           rest == Select(rcon, Fresh)
           all == mergeDefaultTargetsPreferRCON(console, rcon)
<1>1. /\ console \in Seq(BT) /\ rcon \in Seq(BT) /\ DistinctRefs(console) /\ DistinctRefs(rcon)
      /\ \A i \in DOMAIN console : console[i].ref # Blank /\ console[i].ref \in Texts
      /\ \A i \in DOMAIN rcon : rcon[i].ref # Blank /\ rcon[i].ref \in Texts
  <2>1. TargetList(console) /\ TargetList(rcon)
    BY DEF WellBuilt
  <2>2. /\ \A i \in DOMAIN console : console[i] \in BT
        /\ \A i \in DOMAIN rcon : rcon[i] \in BT
    BY <2>1 DEF TargetList
  <2> QED  BY <2>1, <2>2 DEF TargetList, BT
<1>2. all = first \o rest
  <2>1. ASSUME NEW i \in DOMAIN console
        PROVE  Configured(d, console[i].ref) =
                 IF console[i].ref \in DOMAIN buildBroadcastTargetLookup(rcon)
                 THEN buildBroadcastTargetLookup(rcon)[console[i].ref] ELSE console[i]
    <3>1. d.defaultRCONByRef = buildBroadcastTargetLookup(rcon)
      BY DEF WellBuilt
    <3>2. CASE console[i].ref \in DOMAIN d.defaultRCONByRef
      BY <3>1, <3>2 DEF Configured
    <3>3. CASE console[i].ref \notin DOMAIN d.defaultRCONByRef
      BY <3>1, <3>3, ConfiguredConsole
    <3> QED  BY <3>2, <3>3
  <2>2. first = [i \in DOMAIN console |->
                   IF console[i].ref \in DOMAIN buildBroadcastTargetLookup(rcon)
                   THEN buildBroadcastTargetLookup(rcon)[console[i].ref] ELSE console[i]]
    BY <2>1
  <2> HIDE DEF first, console, rcon
  <2> QED  BY <2>2 DEF mergeDefaultTargetsPreferRCON, first, console, rcon
<1>3. /\ first \in Seq(BT) /\ DOMAIN first = DOMAIN console
      /\ \A i \in DOMAIN console : first[i].ref = console[i].ref /\ first[i] = Configured(d, console[i].ref)
  <2>1. \A i \in DOMAIN console : Configured(d, console[i].ref) \in BT /\ Configured(d, console[i].ref).ref = console[i].ref
    BY <1>1, ConfiguredFacts
  <2>2. DOMAIN console = 1..Len(console) /\ Len(console) \in Nat
    BY <1>1
  <2>3. first \in [1..Len(console) -> BT]
    BY <2>1, <2>2
  <2> QED  BY <2>1, <2>2, <2>3, FunctionIsSeq
<1>4. rest \in Seq(BT)
  BY <1>1, SelectPlaces
<1>5. \A k \in DOMAIN rest : \E i \in Fresh : rest[k] = rcon[i]
  <2>1. ToSet(rest) = {rcon[i] : i \in Fresh \cap DOMAIN rcon}
    <3> HIDE DEF Fresh
    <3> QED  BY <1>1, SelectElements
  <2> QED  BY <2>1 DEF ToSet
<1>6. \A k, l \in DOMAIN rest : k # l => rest[k].ref # rest[l].ref
  <2>1. ASSUME NEW k \in DOMAIN rest, NEW l \in DOMAIN rest, k # l PROVE rest[k].ref # rest[l].ref
    <3>1. PICK i, j \in Fresh \cap DOMAIN rcon : i # j /\ rest[k] = rcon[i] /\ rest[l] = rcon[j]
      <4> HIDE DEF Fresh
      <4> QED  BY <1>1, <2>1, SelectOnce
    <3> QED  BY <1>1, <3>1 DEF DistinctRefs
  <2> QED  BY <2>1
<1>7. \A k \in DOMAIN rest : /\ rest[k].ref \notin Refs(console) /\ rest[k].ref # Blank
                             /\ rest[k] = Configured(d, rest[k].ref)
  <2>1. ASSUME NEW k \in DOMAIN rest
        PROVE  /\ rest[k].ref \notin Refs(console) /\ rest[k].ref # Blank
               /\ rest[k] = Configured(d, rest[k].ref)
    <3>1. PICK i \in Fresh : rest[k] = rcon[i]
      BY <1>5
    <3>2. i \in DOMAIN rcon /\ rcon[i].ref \notin Refs(console)
      OBVIOUS
    <3> QED  BY <1>1, <3>1, <3>2, ConfiguredRCON
  <2> QED  BY <2>1
<1> HIDE DEF first, rest, all, Fresh
<1>8. /\ first \o rest \in Seq(BT) /\ DOMAIN (first \o rest) = 1..(Len(first) + Len(rest))
      /\ Len(first) \in Nat /\ Len(rest) \in Nat
      /\ \A i \in 1..(Len(first) + Len(rest)) :
           (first \o rest)[i] = IF i <= Len(first) THEN first[i] ELSE rest[i - Len(first)]
      /\ DOMAIN first = 1..Len(first) /\ DOMAIN rest = 1..Len(rest)
  BY <1>3, <1>4, ConcatProperties, LenProperties
<1>9. \A i \in DOMAIN all :
        \/ i \in DOMAIN first /\ all[i] = first[i]
        \/ i > Len(first) /\ i - Len(first) \in DOMAIN rest /\ all[i] = rest[i - Len(first)]
  BY <1>2, <1>8
<1>10. \A i \in DOMAIN first : first[i].ref \in Refs(console)
  BY <1>3 DEF Refs
<1>11. \A i, j \in DOMAIN all : all[i].ref = all[j].ref => i = j
  <2>1. ASSUME NEW i \in DOMAIN all, NEW j \in DOMAIN all, all[i].ref = all[j].ref PROVE i = j
    <3>1. CASE i \in DOMAIN first /\ all[i] = first[i] /\ j \in DOMAIN first /\ all[j] = first[j]
      BY <1>1, <1>3, <2>1, <3>1 DEF DistinctRefs
    <3>2. CASE /\ i > Len(first) /\ i - Len(first) \in DOMAIN rest /\ all[i] = rest[i - Len(first)]
               /\ j > Len(first) /\ j - Len(first) \in DOMAIN rest /\ all[j] = rest[j - Len(first)]
      <4>1. i - Len(first) = j - Len(first)
        BY <1>6, <2>1, <3>2
      <4>2. i \in Nat /\ j \in Nat
        BY <1>2, <1>8
      <4> QED  BY <1>8, <4>1, <4>2
    <3> QED  BY <1>7, <1>9, <1>10, <2>1, <3>1, <3>2
  <2> QED  BY <2>1
<1>12. \A i \in DOMAIN all : all[i].ref # Blank /\ all[i] = Configured(d, all[i].ref)
  BY <1>1, <1>3, <1>7, <1>9
<1>13. TargetList(all)
  BY <1>2, <1>8, <1>11, <1>12 DEF TargetList, DistinctRefs
<1> QED  BY <1>12, <1>13 DEF all

(* What target resolution takes of a request.                               *)
IsQuery(q) ==
  /\ q.refs \in Seq(Seq(STRING))
  /\ q.game \in Texts /\ q.transport \in Texts \cup BroadcastTransport
  /\ q.addr \in Texts /\ q.pass \in Texts

QuerySpace ==
  [refs : Seq(Seq(STRING)), game : Texts, transport : Texts \cup BroadcastTransport,
   addr : Texts, pass : Texts]

LEMMA WithGameFacts ==
  ASSUME NEW t \in BT, NEW g \in Texts
  PROVE  /\ WithGame(t, g) \in BT /\ WithGame(t, g).ref = t.ref
         /\ WithGame(t, g).transport = t.transport
         /\ WithGame(t, g).addr = t.addr /\ WithGame(t, g).pass = t.pass
BY DEF WithGame, BT

(* A target with what a request gives of address and password: Docker needs  *)
(* neither.                                                                  *)
Overrides(t, q) ==
  [t EXCEPT !.addr = IF q.addr = Blank \/ t.transport = "docker" THEN @ ELSE q.addr,
            !.pass = IF q.pass = Blank \/ t.transport = "docker" THEN @ ELSE q.pass]

LEMMA WithCredentialsFacts ==
  ASSUME NEW t \in BT, NEW q, IsQuery(q)
  PROVE  LET u == WithCredentials(t, q)
         IN  /\ u = Overrides(t, q)
             /\ u \in BT /\ u.ref = t.ref /\ u.transport = t.transport
             /\ u.addr = IF q.addr = Blank \/ t.transport = "docker" THEN t.addr ELSE q.addr
             /\ u.pass = IF q.pass = Blank \/ t.transport = "docker" THEN t.pass ELSE q.pass
<1> DEFINE addr == IF q.addr = Blank \/ t.transport = "docker" THEN t.addr ELSE q.addr
           pass == IF q.pass = Blank \/ t.transport = "docker" THEN t.pass ELSE q.pass
           u == [t EXCEPT !.addr = addr, !.pass = pass]
<1>1. Overrides(t, q) = u
  BY DEF Overrides
<1>2. CASE t.transport = "docker"
  <2>1. WithCredentials(t, q) = t
    BY <1>2 DEF WithCredentials
  <2>2. addr = t.addr /\ pass = t.pass
    BY <1>2
  <2>3. u = t
    BY <2>2 DEF BT
  <2> QED  BY <1>1, <1>2, <2>1, <2>2, <2>3
<1>3. CASE t.transport # "docker"
  <2>1. WithCredentials(t, q) = u
    BY <1>3 DEF WithCredentials, BT
  <2>2. addr \in Texts /\ pass \in Texts
    BY DEF BT, IsQuery
  <2> HIDE DEF addr, pass
  <2>3. u \in BT /\ u.ref = t.ref /\ u.transport = t.transport /\ u.addr = addr /\ u.pass = pass
    BY <2>2 DEF BT
  <2> HIDE DEF u
  <2> QED  BY <1>1, <2>1, <2>3 DEF addr, pass
<1> QED  BY <1>2, <1>3

(* The containers that a request names.                                     *)
NamedBy(q) == ToSet(FlattenSeq(q.refs))

(* What a target has: its own, or what a request that names it gives.       *)
Given(q, t, override, own) ==
  IF override # Blank /\ t.ref \in NamedBy(q) /\ t.transport # "docker" THEN override ELSE own

(* A target reached the way the configuration says or the request.          *)
Served(d, q, t) ==
  LET k == Configured(d, t.ref)
  IN  /\ t.transport = k.transport
      /\ t.addr = Given(q, t, q.addr, k.addr)
      /\ t.pass = Given(q, t, q.pass, k.pass)

(* The targets of a request that names none.                                *)
LEMMA DefaultsFacts ==
  ASSUME NEW d, WellBuilt(d), NEW q, IsQuery(q), NEW g \in Texts,
         normalizeContainerRefs(q.refs) = <<>>
  PROVE  LET ts == resolveTargets(d, q, g)
         IN  /\ TargetList(ts) /\ \A i \in DOMAIN ts : Served(d, q, ts[i])
             /\ \A i \in DOMAIN ts : ts[i] = WithGame(Configured(d, ts[i].ref), g)
<1> DEFINE all == mergeDefaultTargetsPreferRCON(d.defaultConsoleTargets, d.defaultRCONTargets)
           ts == resolveTargets(d, q, g)
<1>1. ts = [i \in DOMAIN all |-> WithGame(all[i], g)]
  BY DEF resolveTargets
<1>2. TargetList(all) /\ \A i \in DOMAIN all : all[i] = Configured(d, all[i].ref)
  BY MergeFacts
<1> HIDE DEF all, ts
<1>3. all \in Seq(BT) /\ DOMAIN all = 1..Len(all) /\ Len(all) \in Nat
  BY <1>2 DEF TargetList
<1>4. \A i \in DOMAIN all :
        /\ ts[i] \in BT /\ ts[i].ref = all[i].ref /\ ts[i].transport = all[i].transport
        /\ ts[i].addr = all[i].addr /\ ts[i].pass = all[i].pass
  BY <1>1, <1>3, WithGameFacts
<1>5. DOMAIN ts = DOMAIN all /\ ts \in [1..Len(all) -> BT]
  BY <1>1, <1>3, <1>4
<1>6. ts \in Seq(BT)
  BY <1>3, <1>5, FunctionIsSeq
<1>7. TargetList(ts)
  BY <1>2, <1>4, <1>5, <1>6 DEF TargetList, DistinctRefs
<1>9. \A i \in DOMAIN ts : ts[i].ref \notin NamedBy(q)
  <2>1. ToSet(normalizeContainerRefs(q.refs)) = NamedBy(q) \ {Blank}
    BY DistinctPartsFacts DEF NamedBy, normalizeContainerRefs, IsQuery
  <2>2. NamedBy(q) \ {Blank} = {}
    BY <2>1 DEF ToSet
  <2> QED  BY <1>7, <2>2 DEF TargetList
<1>8. ASSUME NEW i \in DOMAIN ts
      PROVE  Served(d, q, ts[i]) /\ ts[i] = WithGame(Configured(d, ts[i].ref), g)
  <2>1. all[i] = Configured(d, ts[i].ref) /\ ts[i] = WithGame(all[i], g)
    BY <1>1, <1>2, <1>4, <1>5
  <2>2. ts[i].transport = all[i].transport /\ ts[i].addr = all[i].addr /\ ts[i].pass = all[i].pass
    BY <1>4, <1>5
  <2> QED  BY <1>9, <2>1, <2>2 DEF Served, Given
<1> QED  BY <1>7, <1>8 DEF ts

(* The targets of a request that names its containers.                      *)
LEMMA NamedFacts ==
  ASSUME NEW d, WellBuilt(d), NEW q, IsQuery(q), NEW g \in Texts,
         normalizeContainerRefs(q.refs) # <<>>
  PROVE  LET ts == resolveTargets(d, q, g)
             refs == normalizeContainerRefs(q.refs)
         IN  /\ TargetList(ts) /\ \A i \in DOMAIN ts : Served(d, q, ts[i])
             /\ DOMAIN ts = DOMAIN refs
             /\ \A i \in DOMAIN ts :
                  /\ ts[i] = WithCredentials(WithGame(Configured(d, refs[i]), g), q)
                  /\ ts[i].ref = refs[i]
<1> DEFINE refs == normalizeContainerRefs(q.refs)
           ts == resolveTargets(d, q, g)
<1>1. ts = [i \in DOMAIN refs |-> WithCredentials(WithGame(Configured(d, refs[i]), g), q)]
  BY DEF resolveTargets, buildTargetsForRefs, Configured
<1>2. refs \in Seq(STRING) /\ IsInjective(refs) /\ Blank \notin ToSet(refs)
  <2>1. q.refs \in Seq(Seq(STRING))
    BY DEF IsQuery
  <2> QED  BY <2>1, DistinctPartsFacts DEF normalizeContainerRefs
<1>6. ToSet(refs) \subseteq NamedBy(q)
  BY DistinctPartsFacts DEF NamedBy, normalizeContainerRefs, IsQuery
<1> HIDE DEF refs, ts
<1>3. ASSUME NEW i \in DOMAIN refs
      PROVE  ts[i] \in BT /\ ts[i].ref = refs[i] /\ Served(d, q, ts[i])
  <2>1. refs[i] \in Texts
    BY <1>2 DEF Texts
  <2>2. Configured(d, refs[i]) \in BT /\ Configured(d, refs[i]).ref = refs[i]
    BY <2>1, ConfiguredFacts
  <2> DEFINE t == WithGame(Configured(d, refs[i]), g)
  <2>3. /\ t \in BT /\ t.ref = refs[i] /\ t.transport = Configured(d, refs[i]).transport
        /\ t.addr = Configured(d, refs[i]).addr /\ t.pass = Configured(d, refs[i]).pass
    BY <2>2, WithGameFacts
  <2>4. ts[i] = WithCredentials(t, q)
    BY <1>1
  <2>5. refs[i] \in NamedBy(q)
    BY <1>6 DEF ToSet
  <2> HIDE DEF t
  <2>6. /\ ts[i] \in BT /\ ts[i].ref = refs[i] /\ ts[i].transport = t.transport
        /\ ts[i].addr = IF q.addr = Blank \/ t.transport = "docker" THEN t.addr ELSE q.addr
        /\ ts[i].pass = IF q.pass = Blank \/ t.transport = "docker" THEN t.pass ELSE q.pass
    BY <2>3, <2>4, WithCredentialsFacts
  <2> QED  BY <2>3, <2>5, <2>6 DEF Served, Given
<1>4. DOMAIN ts = DOMAIN refs /\ ts = [i \in DOMAIN refs |-> ts[i]]
  BY <1>1
<1>5. TargetList(ts)
  BY <1>2, <1>3, <1>4, TargetsOfParts
<1> QED  BY <1>1, <1>3, <1>4, <1>5 DEF ts, refs

LEMMA ResolveFacts ==
  ASSUME NEW d, WellBuilt(d), NEW q, IsQuery(q), NEW g \in Texts
  PROVE  LET ts == resolveTargets(d, q, g)
         IN  TargetList(ts) /\ \A i \in DOMAIN ts : Served(d, q, ts[i])
BY DefaultsFacts, NamedFacts

(* The filter leaves targets of its transport only, and of a list without   *)
(* repetition one without repetition.                                       *)
LEMMA FilterFacts ==
  ASSUME NEW ts, TargetList(ts), NEW transport
  PROVE  LET some == filterTargetsByTransport(ts, transport)
         IN  /\ TargetList(some)
             /\ \A k \in DOMAIN some :
                  /\ \E i \in DOMAIN ts : some[k] = ts[i]
                  /\ normalizeTargetTransport(some[k].transport) = transport
<1> DEFINE I == {i \in DOMAIN ts : normalizeTargetTransport(ts[i].transport) = transport}
           some == Select(ts, I)
<1>1. filterTargetsByTransport(ts, transport) = some
  BY DEF filterTargetsByTransport
<1>2. ts \in Seq(BT) /\ DistinctRefs(ts) /\ \A i \in DOMAIN ts : ts[i].ref # Blank
  BY DEF TargetList
<1>3. \A i \in I : i \in DOMAIN ts /\ normalizeTargetTransport(ts[i].transport) = transport
  OBVIOUS
<1> HIDE DEF I
<1>4. some \in Seq(BT)
  BY <1>2, SelectPlaces
<1>5. ToSet(some) = {ts[i] : i \in I \cap DOMAIN ts}
  BY <1>2, SelectElements
<1>6. \A k \in DOMAIN some : \E i \in I : some[k] = ts[i]
  BY <1>5 DEF ToSet
<1>7. \A k, l \in DOMAIN some : some[k].ref = some[l].ref => k = l
  <2>1. ASSUME NEW k \in DOMAIN some, NEW l \in DOMAIN some, k # l PROVE some[k].ref # some[l].ref
    <3>1. PICK i, j \in I \cap DOMAIN ts : i # j /\ some[k] = ts[i] /\ some[l] = ts[j]
      BY <1>2, <2>1, SelectOnce
    <3> QED  BY <1>2, <3>1 DEF DistinctRefs
  <2> QED  BY <2>1
<1> HIDE DEF some
<1>8. TargetList(some)
  BY <1>2, <1>3, <1>4, <1>6, <1>7 DEF TargetList, DistinctRefs
<1> QED  BY <1>1, <1>3, <1>6, <1>8

(* Resolving the refs of the default targets gives the default targets, with *)
(* the address and password the request gives; a request that names none     *)
(* gives them in vain.                                                       *)
OnlyOverrides(d, q, g) ==
  LET all == resolveTargets(d, [q EXCEPT !.refs = <<>>], g)
      named == <<[i \in DOMAIN all |-> all[i].ref]>>
      explicit == [q EXCEPT !.refs = named]
      plain == [[q EXCEPT !.refs = <<>>] EXCEPT !.addr = Blank, !.pass = Blank]
  IN  /\ resolveTargets(d, explicit, g) = [i \in DOMAIN all |-> Overrides(all[i], q)]
      /\ resolveTargets(d, plain, g) = all

(* Naming the default containers differs from naming none only in that the   *)
(* request's address and password count.                                     *)
LEMMA NamingDefaults ==
  ASSUME NEW d, WellBuilt(d), NEW q \in QuerySpace, NEW g \in Texts
  PROVE  OnlyOverrides(d, q, g)
<1> DEFINE none == [q EXCEPT !.refs = <<>>]
           all == resolveTargets(d, none, g)
           refs == [i \in DOMAIN all |-> all[i].ref]
           explicit == [q EXCEPT !.refs = <<refs>>]
           plain == [none EXCEPT !.addr = Blank, !.pass = Blank]
           expected == [i \in DOMAIN all |-> Overrides(all[i], q)]
<1>1. IsQuery(none) /\ none.refs = <<>>
  <2>1. <<>> \in Seq(Seq(STRING))
    OBVIOUS
  <2> QED  BY <2>1 DEF QuerySpace, IsQuery
<1>2. normalizeContainerRefs(<<>>) = <<>>
  <2>1. FlattenSeq(<<>>) = <<>>
    BY DEF FlattenSeq
  <2>2. <<>> \in Seq(Seq(STRING)) /\ IsInjective(<<>>) /\ Blank \notin ToSet(<<>>)
    BY DEF IsInjective, ToSet
  <2> QED  BY <2>1, <2>2, DistinctPartsSame DEF normalizeContainerRefs
<1>12. resolveTargets(d, plain, g) = all
  <2>1. plain.refs = <<>> /\ none.refs = <<>>
    BY DEF QuerySpace
  <2> HIDE DEF plain, none
  <2> QED  BY <1>2, <2>1, Zenon DEF resolveTargets, all
<1> HIDE DEF plain
<1>3. /\ TargetList(all)
      /\ \A i \in DOMAIN all : all[i] = WithGame(Configured(d, all[i].ref), g)
  BY <1>1, <1>2, DefaultsFacts
<1> HIDE DEF none, all
<1>4. /\ all \in Seq(BT) /\ DOMAIN all = 1..Len(all) /\ Len(all) \in Nat
      /\ \A i \in DOMAIN all : all[i] \in BT /\ all[i].ref # Blank /\ all[i].ref \in STRING
  <2>1. all \in Seq(BT)
    BY <1>3 DEF TargetList
  <2>2. DOMAIN all = 1..Len(all) /\ Len(all) \in Nat /\ \A i \in DOMAIN all : all[i] \in BT
    BY <2>1
  <2>3. \A i \in DOMAIN all : all[i].ref # Blank
    BY <1>3 DEF TargetList
  <2> QED  BY <2>1, <2>2, <2>3 DEF BT, Texts
<1>5. DOMAIN refs = DOMAIN all /\ \A i \in DOMAIN all : refs[i] = all[i].ref
  OBVIOUS
<1>6. refs \in [1..Len(all) -> STRING]
  BY <1>4
<1> HIDE DEF refs
<1>7. refs \in Seq(STRING)
  BY <1>4, <1>6, FunctionIsSeq
<1>8. normalizeContainerRefs(<<refs>>) = refs
  <2>1. FlattenSeq(<<refs>>) = refs
    BY FlattenOne
  <2>2. IsInjective(refs)
    BY <1>3, <1>5 DEF TargetList, DistinctRefs, IsInjective
  <2>3. Blank \notin ToSet(refs)
    BY <1>4, <1>5 DEF ToSet
  <2>4. <<refs>> \in Seq(Seq(STRING))
    BY <1>7
  <2> QED  BY <2>1, <2>2, <2>3, <2>4, DistinctPartsSame DEF normalizeContainerRefs
<1>9. /\ IsQuery(explicit) /\ explicit.refs = <<refs>>
      /\ explicit.addr = q.addr /\ explicit.pass = q.pass
  <2>1. <<refs>> \in Seq(Seq(STRING))
    BY <1>7
  <2> QED  BY <2>1 DEF QuerySpace, IsQuery
<1> HIDE DEF explicit
<1> DEFINE ts == resolveTargets(d, explicit, g)
<1>10. ASSUME refs = <<>> PROVE ts = expected
  <2>1. ts = [i \in DOMAIN mergeDefaultTargetsPreferRCON(d.defaultConsoleTargets, d.defaultRCONTargets) |->
                WithGame(mergeDefaultTargetsPreferRCON(d.defaultConsoleTargets, d.defaultRCONTargets)[i], g)]
    BY <1>8, <1>9, <1>10 DEF resolveTargets
  <2>2. all = [i \in DOMAIN mergeDefaultTargetsPreferRCON(d.defaultConsoleTargets, d.defaultRCONTargets) |->
                WithGame(mergeDefaultTargetsPreferRCON(d.defaultConsoleTargets, d.defaultRCONTargets)[i], g)]
    BY <1>1, <1>2 DEF resolveTargets, all
  <2>3. ts = all
    BY <2>1, <2>2
  <2>4. all = <<>> /\ expected = <<>>
    BY <1>4, <1>5, <1>10
  <2> QED  BY <2>3, <2>4
<1>11. ASSUME refs # <<>> PROVE ts = expected
  <2>1. /\ TargetList(ts) /\ DOMAIN ts = DOMAIN refs
        /\ \A i \in DOMAIN ts : ts[i] = WithCredentials(WithGame(Configured(d, refs[i]), g), explicit)
    BY <1>8, <1>9, <1>11, NamedFacts
  <2> HIDE DEF ts
  <2>2. ASSUME NEW i \in DOMAIN all PROVE ts[i] = Overrides(all[i], q) /\ ts[i] \in BT
    <3>1. ts[i] = WithCredentials(all[i], explicit)
      BY <1>3, <1>5, <2>1
    <3>2. all[i] \in BT
      BY <1>4
    <3>3. ts[i] = Overrides(all[i], explicit) /\ ts[i] \in BT
      BY <1>9, <3>1, <3>2, WithCredentialsFacts
    <3> QED  BY <1>9, <3>3 DEF Overrides
  <2>3. ts \in Seq(BT) /\ DOMAIN ts = DOMAIN all
    BY <1>5, <2>1 DEF TargetList
  <2>4. expected \in Seq(BT) /\ Len(expected) = Len(all)
    <3>1. expected \in [1..Len(all) -> BT]
      BY <1>4, <2>2
    <3> HIDE DEF expected
    <3> QED  BY <1>4, <3>1, FunctionIsSeq
  <2>5. Len(ts) = Len(all)
    BY <1>4, <2>3, LenProperties
  <2>6. \A i \in 1..Len(ts) : ts[i] = expected[i]
    BY <1>4, <2>2, <2>5
  <2> HIDE DEF expected
  <2> QED  BY <2>3, <2>4, <2>5, <2>6, SeqEqual
<1>13. ts = expected
  BY <1>10, <1>11
<1> QED  BY <1>12, <1>13, Zenon DEF OnlyOverrides, ts, expected, explicit, plain, refs, all, none

-----------------------------------------------------------------------------
(* From the environment to the commander                                    *)

(* What the operator wrote for a setting.                                   *)
WrittenIn(e, s) == e[s][1] \o e[s][2]

LEMMA SettingFacts ==
  ASSUME NEW e, NEW s \in DOMAIN e, e[s] \in Seq(STRING) \X Seq(STRING)
  PROVE  LET list == FromEnv(e)[s]
             written == WrittenIn(e, s)
         IN  /\ list \in Seq(STRING) /\ IsInjective(list) /\ Blank \notin ToSet(list)
             /\ ToSet(list) = ToSet(written) \ {Blank}
             /\ IsInjective(written) /\ Blank \notin ToSet(written) => list = written
<1>1. PICK a \in Seq(STRING), b \in Seq(STRING) : e[s] = <<a, b>>
  OBVIOUS
<1>2. FromEnv(e)[s] = DistinctParts(<<a, b>>)
  BY <1>1 DEF FromEnv, parseDelimitedList
<1>3. WrittenIn(e, s) = a \o b
  BY <1>1 DEF WrittenIn
<1>4. <<a, b>> \in Seq(Seq(STRING))
  OBVIOUS
<1>5. FlattenSeq(<<a, b>>) = a \o b
  BY FlattenTwo
<1>6. /\ DistinctParts(<<a, b>>) \in Seq(STRING) /\ IsInjective(DistinctParts(<<a, b>>))
      /\ ToSet(DistinctParts(<<a, b>>)) = ToSet(a \o b) \ {Blank}
  BY <1>4, <1>5, DistinctPartsFacts
<1>7. IsInjective(a \o b) /\ Blank \notin ToSet(a \o b) => DistinctParts(<<a, b>>) = a \o b
  BY <1>4, <1>5, DistinctPartsSame
<1> QED  BY <1>2, <1>3, <1>6, <1>7

(* The row of the RCON lists that a target was built from.                   *)
InRow(cfg, t, j) ==
  /\ j \in DOMAIN cfg["RCON_DEFAULT_CONTAINER_NAMES"]
  /\ t.ref = cfg["RCON_DEFAULT_CONTAINER_NAMES"][j]
  /\ t.transport = normalizeTargetTransport(Entry(cfg["RCON_DEFAULT_CONTAINER_TRANSPORTS"], j))
  /\ t.addr = Entry(cfg["RCON_DEFAULT_CONTAINER_ADDRESSES"], j)
  /\ t.pass = Entry(cfg["RCON_DEFAULT_CONTAINER_PASSWORDS"], j)

LEMMA CommanderFacts ==
  ASSUME NEW e, Pairs(e, Settings)
  PROVE  LET cfg == FromEnv(e)
             d == NewDockerCommander(cfg)
         IN  /\ WellBuilt(d)
             /\ Refs(d.defaultRCONTargets) = ToSet(cfg["RCON_DEFAULT_CONTAINER_NAMES"])
             /\ \A j \in DOMAIN d.defaultRCONTargets : InRow(cfg, d.defaultRCONTargets[j], j)
<1> DEFINE cfg == FromEnv(e)
           d == NewDockerCommander(cfg)
<1>1. \A s \in Settings : /\ cfg[s] \in Seq(STRING) /\ IsInjective(cfg[s]) /\ Blank \notin ToSet(cfg[s])
  BY SettingFacts DEF Pairs
<1>2. {"DOCKER_DEFAULT_CONTAINER_NAMES", "RCON_DEFAULT_CONTAINER_NAMES",
       "RCON_DEFAULT_CONTAINER_TRANSPORTS", "RCON_DEFAULT_CONTAINER_ADDRESSES",
       "RCON_DEFAULT_CONTAINER_PASSWORDS"} \subseteq Settings
  BY DEF Settings
<1> HIDE DEF cfg
<1> DEFINE console == buildDefaultBroadcastTargets(<<>>, cfg["DOCKER_DEFAULT_CONTAINER_NAMES"])
           rcon == buildDefaultRCONTargets(cfg["RCON_DEFAULT_CONTAINER_NAMES"],
                                           cfg["RCON_DEFAULT_CONTAINER_TRANSPORTS"],
                                           cfg["RCON_DEFAULT_CONTAINER_ADDRESSES"],
                                           cfg["RCON_DEFAULT_CONTAINER_PASSWORDS"])
<1>3. /\ d.defaultConsoleTargets = console /\ d.defaultRCONTargets = rcon
      /\ d.defaultConsoleByRef = buildBroadcastTargetLookup(console)
      /\ d.defaultRCONByRef = buildBroadcastTargetLookup(rcon)
  BY DEF NewDockerCommander
<1>4. /\ TargetList(console)
      /\ \A i \in DOMAIN console :
           console[i].transport = "docker" /\ console[i].addr = Blank /\ console[i].pass = Blank
  BY <1>1, <1>2, ConsoleTargets
<1>5. /\ TargetList(rcon) /\ Refs(rcon) = ToSet(cfg["RCON_DEFAULT_CONTAINER_NAMES"])
      /\ DOMAIN rcon = DOMAIN cfg["RCON_DEFAULT_CONTAINER_NAMES"]
      /\ \A i \in DOMAIN rcon :
           /\ rcon[i].ref = cfg["RCON_DEFAULT_CONTAINER_NAMES"][i]
           /\ rcon[i].transport =
                normalizeTargetTransport(Entry(cfg["RCON_DEFAULT_CONTAINER_TRANSPORTS"], i))
           /\ rcon[i].addr = Entry(cfg["RCON_DEFAULT_CONTAINER_ADDRESSES"], i)
           /\ rcon[i].pass = Entry(cfg["RCON_DEFAULT_CONTAINER_PASSWORDS"], i)
  <2>1. /\ cfg["RCON_DEFAULT_CONTAINER_NAMES"] \in Seq(STRING)
        /\ IsInjective(cfg["RCON_DEFAULT_CONTAINER_NAMES"])
        /\ Blank \notin ToSet(cfg["RCON_DEFAULT_CONTAINER_NAMES"])
        /\ cfg["RCON_DEFAULT_CONTAINER_TRANSPORTS"] \in Seq(STRING)
        /\ cfg["RCON_DEFAULT_CONTAINER_ADDRESSES"] \in Seq(STRING)
        /\ cfg["RCON_DEFAULT_CONTAINER_PASSWORDS"] \in Seq(STRING)
    BY <1>1, <1>2
  <2> QED  BY <2>1, RCONTargets
<1> HIDE DEF console, rcon, d
<1>6. WellBuilt(d)
  BY <1>3, <1>4, <1>5 DEF WellBuilt
<1>7. \A j \in DOMAIN rcon : InRow(cfg, rcon[j], j)
  BY <1>5 DEF InRow
<1> QED  BY <1>3, <1>5, <1>6, <1>7 DEF cfg, d

(* Every target of a request: of a row of the RCON lists, or of Docker.     *)
LEMMA ServedFacts ==
  ASSUME NEW e, Pairs(e, Settings), NEW q, IsQuery(q), NEW t, t.ref \in Texts,
         Served(NewDockerCommander(FromEnv(e)), q, t)
  PROVE  \/ \E j : \E u : /\ InRow(FromEnv(e), u, j) /\ u.ref = t.ref /\ t.transport = u.transport
                          /\ t.addr = Given(q, t, q.addr, u.addr)
                          /\ t.pass = Given(q, t, q.pass, u.pass)
         \/ /\ t.ref \notin ToSet(FromEnv(e)["RCON_DEFAULT_CONTAINER_NAMES"])
            /\ t.transport = "docker" /\ t.addr = Blank /\ t.pass = Blank
<1> DEFINE d == NewDockerCommander(FromEnv(e))
           k == Configured(d, t.ref)
<1>1. /\ WellBuilt(d)
      /\ Refs(d.defaultRCONTargets) = ToSet(FromEnv(e)["RCON_DEFAULT_CONTAINER_NAMES"])
      /\ \A j \in DOMAIN d.defaultRCONTargets : InRow(FromEnv(e), d.defaultRCONTargets[j], j)
  BY CommanderFacts
<1> HIDE DEF d
<1>2. /\ k.ref = t.ref
      /\ \/ \E i \in DOMAIN d.defaultRCONTargets : k = d.defaultRCONTargets[i]
         \/ /\ t.ref \notin Refs(d.defaultRCONTargets) /\ k.transport = "docker"
            /\ k.addr = Blank /\ k.pass = Blank
  BY <1>1, ConfiguredFacts
<1>3. /\ t.transport = k.transport
      /\ t.addr = Given(q, t, q.addr, k.addr)
      /\ t.pass = Given(q, t, q.pass, k.pass)
  BY DEF Served, d
<1> HIDE DEF k
<1>4. CASE \E i \in DOMAIN d.defaultRCONTargets : k = d.defaultRCONTargets[i]
  BY <1>1, <1>2, <1>3, <1>4
<1>5. CASE /\ t.ref \notin Refs(d.defaultRCONTargets) /\ k.transport = "docker"
           /\ k.addr = Blank /\ k.pass = Blank
  BY <1>1, <1>3, <1>5 DEF Given
<1> QED  BY <1>2, <1>4, <1>5

(* The commander of any configuration takes any request, a raw command or a  *)
(* broadcast, to a list of targets; this is what the dispatch loop assumes of *)
(* it (resolveBroadcastTargets, resolveCommandTargets).                      *)
THEOREM ResolutionGivesTargets ==
  ASSUME NEW e, Pairs(e, Settings), NEW q, IsQuery(q)
  PROVE  LET d == NewDockerCommander(FromEnv(e))
         IN  TargetList(resolveBroadcastTargets(d, q)) /\ TargetList(resolveCommandTargets(d, q))
<1> DEFINE d == NewDockerCommander(FromEnv(e))
           ts == resolveTargets(d, q, q.game)
<1>1. WellBuilt(d)
  BY CommanderFacts
<1>2. Blank \in Texts
  BY DEF Texts
<1> HIDE DEF d
<1>3. TargetList(ts)
  BY <1>1, ResolveFacts DEF IsQuery
<1>4. TargetList(resolveTargets(d, q, Blank))
  BY <1>1, <1>2, ResolveFacts
<1> HIDE DEF ts
<1>5. TargetList(filterTargetsByTransport(ts, normalizeTargetTransport(q.transport)))
  BY <1>3, FilterFacts
<1>6. resolveBroadcastTargets(d, q) \in
        {ts, filterTargetsByTransport(ts, normalizeTargetTransport(q.transport))}
  BY DEF resolveBroadcastTargets, ts
<1>7. TargetList(resolveBroadcastTargets(d, q))
  BY <1>3, <1>5, <1>6
<1> QED  BY <1>4, <1>7 DEF resolveCommandTargets, d

(* A request for RCON finds RCON targets only, whatever is configured under   *)
(* the names it gives: what keeps relays away from telnet and Docker         *)
(* (filterTargetsByTransport).                                               *)
THEOREM RCONRequestFindsRCON ==
  ASSUME NEW e, Pairs(e, Settings), NEW q, IsQuery(q),
         q.transport = "rcon"
  PROVE  LET ts == resolveBroadcastTargets(NewDockerCommander(FromEnv(e)), q)
         IN  \A i \in 1..Len(ts) : ts[i].transport = "rcon"
<1> DEFINE d == NewDockerCommander(FromEnv(e))
           all == resolveTargets(d, q, q.game)
           ts == resolveBroadcastTargets(d, q)
<1>1. WellBuilt(d)
  BY CommanderFacts
<1>2. ts = filterTargetsByTransport(all, "rcon")
  BY DEF resolveBroadcastTargets, normalizeTargetTransport, Blank
<1> HIDE DEF d, ts
<1>3. TargetList(all)
  BY <1>1, ResolveFacts DEF IsQuery
<1> HIDE DEF all
<1>4. TargetList(ts) /\ \A i \in DOMAIN ts : normalizeTargetTransport(ts[i].transport) = "rcon"
  BY <1>2, <1>3, FilterFacts
<1>5. DOMAIN ts = 1..Len(ts)
  BY <1>4 DEF TargetList
<1>6. \A i \in 1..Len(ts) : ts[i].transport = "rcon"
  BY <1>4, <1>5 DEF normalizeTargetTransport
<1> QED  BY <1>6 DEF d, ts

=============================================================================
