---------------------------- MODULE ClientsProofs ----------------------------
(* Theorems about the three console clients, for replies of any number of   *)
(* chunks, any packet ids of the library, any bound on what is on its way   *)
(* and any number of callers of a container.                                *)
EXTENDS MCClients, SequenceTheorems, TLAPS

-----------------------------------------------------------------------------
(* Rcon: what is on the wire                                                *)

(* The packets that have arrived hold the chunks after those read, up to    *)
(* the last one sent, in order and among packets that are none.             *)
RconDue(s, read, sent) ==
  /\ \A i \in 1..Len(s) : s[i].body # R!Log => s[i].body \in (read + 1)..sent
  /\ \A i, j \in 1..Len(s) :
       i < j /\ s[i].body # R!Log /\ s[j].body # R!Log => s[i].body < s[j].body
  /\ \A m \in (read + 1)..sent : \E i \in 1..Len(s) : s[i].body = m

(* A chunk without the id of the command comes right after the packet of    *)
(* type 4 that announces it, and nothing else does.                         *)
Fits(s, i, at, announced) ==
  /\ s[i].body # R!Log =>
       /\ s[i].type = "value" /\ s[i].id \in {ExecID, R!Refused}
       /\ s[i].id = R!Refused => IF i = 1 THEN at = "follow" ELSE s[i - 1].type = "four"
  /\ s[i].type = "four" =>
       /\ s[i].body = R!Log
       /\ IF i = Len(s) THEN announced = TRUE ELSE s[i + 1].body # R!Log

(* at: where the client is; announced: the server owes a chunk.             *)
Shape(s, at, announced) ==
  /\ \A i \in 1..Len(s) : Fits(s, i, at, announced)
  /\ at = "follow" => IF s = <<>> THEN announced = TRUE ELSE s[1].body # R!Log
  /\ announced = TRUE => IF s = <<>> THEN at = "follow" ELSE s[Len(s)].type = "four"

(* A line the server pushes into its answers.                               *)
Pushed(p) == p.type = "value" /\ p.id = R!Foreign /\ p.body = R!Log

(* After the answer to the log-in, what is no part of the reply was pushed. *)
OnlyPushed(s, i, server) ==
  s[i].type # "four" /\ s[i].body = R!Log => Pushed(s[i]) /\ server.pushed

(* Tail and Append, by their elements.                                      *)
LEMMA TailElements ==
  ASSUME NEW s \in Seq(R!Packets), s # <<>>
  PROVE  /\ Tail(s) \in Seq(R!Packets) /\ Len(Tail(s)) = Len(s) - 1 /\ Len(s) \in Nat \ {0}
         /\ Head(s) = s[1] /\ s[1] \in R!Packets
         /\ \A i \in 1..Len(Tail(s)) : i + 1 \in 1..Len(s) /\ Tail(s)[i] = s[i + 1]
         /\ \A i \in 1..Len(s) : i # 1 => i - 1 \in 1..Len(Tail(s)) /\ Tail(s)[i - 1] = s[i]
         /\ (Tail(s) = <<>> <=> Len(s) = 1)
<1>1. /\ Tail(s) \in Seq(R!Packets) /\ Len(Tail(s)) = Len(s) - 1 /\ Head(s) \in R!Packets
      /\ \A i \in 1..Len(Tail(s)) : Tail(s)[i] = s[i + 1]
  BY HeadTailProperties
<1>2. Len(s) \in Nat \ {0} /\ Head(s) = s[1]
  BY EmptySeq
<1>3. Tail(s) = <<>> <=> Len(Tail(s)) = 0
  BY <1>1, EmptySeq
<1>4. \A i \in 1..(Len(s) - 1) : i + 1 \in 1..Len(s)
  BY <1>2
<1>5. \A i \in 1..Len(s) : i # 1 => i - 1 \in 1..(Len(s) - 1)
  BY <1>2
<1>6. ASSUME NEW i \in 1..Len(s), i # 1
      PROVE  i - 1 \in 1..Len(Tail(s)) /\ Tail(s)[i - 1] = s[i]
  <2>1. i - 1 \in 1..Len(Tail(s)) /\ (i - 1) + 1 = i
    BY <1>1, <1>5, <1>6
  <2>2. Tail(s)[i - 1] = s[(i - 1) + 1]
    BY <1>1, <2>1
  <2> QED  BY <2>1, <2>2
<1>7. Len(Tail(s)) = 0 <=> Len(s) = 1
  BY <1>1, <1>2
<1> QED  BY <1>1, <1>2, <1>3, <1>4, <1>6, <1>7

LEMMA AppendElements ==
  ASSUME NEW s \in Seq(R!Packets), NEW x \in R!Packets
  PROVE  /\ s \o <<x>> \in Seq(R!Packets) /\ Len(s \o <<x>>) = Len(s) + 1 /\ Len(s) \in Nat
         /\ s \o <<x>> # <<>> /\ (s \o <<x>>)[Len(s) + 1] = x
         /\ \A i \in 1..Len(s) : (s \o <<x>>)[i] = s[i] /\ s[i] \in R!Packets
         /\ \A i \in 1..(Len(s) + 1) : i \in 1..Len(s) \/ i = Len(s) + 1
         /\ (s = <<>> <=> Len(s) = 0)
<1>1. s \o <<x>> = Append(s, x)
  BY AppendIsConcat
<1>2. \A i \in 1..Len(s) : s[i] \in R!Packets
  BY ElementOfSeq
<1>3. Len(s) \in Nat /\ (s = <<>> <=> Len(s) = 0)
  BY EmptySeq
<1>4. \A i \in 1..(Len(s) + 1) : i \in 1..Len(s) \/ i = Len(s) + 1
  BY <1>3
<1> QED  BY <1>1, <1>2, <1>3, <1>4, AppendProperties

(* The packet read next is no chunk, or the next one.                       *)
LEMMA RconDueHead ==
  ASSUME NEW s \in Seq(R!Packets), s # <<>>, NEW n \in Nat, NEW k \in Nat, RconDue(s, n, k)
  PROVE  /\ Head(s).body = R!Log => RconDue(Tail(s), n, k)
         /\ Head(s).body # R!Log => Head(s).body = n + 1 /\ n + 1 <= k /\ RconDue(Tail(s), n + 1, k)
<1> DEFINE t == Tail(s)
<1>1. /\ Len(t) = Len(s) - 1 /\ Len(s) \in Nat \ {0} /\ Head(s) = s[1] /\ s[1].body \in Nat
      /\ \A i \in 1..Len(t) : i + 1 \in 1..Len(s) /\ t[i] = s[i + 1]
      /\ \A i \in 1..Len(s) : i # 1 => i - 1 \in 1..Len(t) /\ t[i - 1] = s[i]
  <2>1. Head(s) = s[1] /\ s[1] \in R!Packets
    BY TailElements
  <2>2. s[1].body \in Nat
    BY <2>1, BoundAssumption DEF R!Packets
  <2> QED  BY <2>1, <2>2, TailElements
<1> HIDE DEF t
<1>2. ASSUME NEW i \in 1..Len(t), NEW j \in 1..Len(t), i < j, t[i].body # R!Log, t[j].body # R!Log
      PROVE  t[i].body < t[j].body
  <2>1. /\ i + 1 \in 1..Len(s) /\ j + 1 \in 1..Len(s) /\ i + 1 < j + 1
        /\ t[i] = s[i + 1] /\ t[j] = s[j + 1]
    BY <1>1, <1>2
  <2> QED  BY <1>2, <2>1 DEF RconDue
<1>3. CASE Head(s).body = R!Log
  <2>1. \A i \in 1..Len(t) : t[i].body # R!Log => t[i].body \in (n + 1)..k
    BY <1>1 DEF RconDue
  <2>2. ASSUME NEW m \in (n + 1)..k PROVE \E i \in 1..Len(t) : t[i].body = m
    <3>1. PICK i \in 1..Len(s) : s[i].body = m
      BY DEF RconDue
    <3>2. i # 1
      BY <1>1, <1>3, <3>1 DEF R!Log
    <3> QED  BY <1>1, <3>1, <3>2
  <2> QED  BY <1>2, <1>3, <2>1, <2>2 DEF RconDue, t
<1>4. CASE Head(s).body # R!Log
  <2>1. s[1].body \in (n + 1)..k /\ 1 \in 1..Len(s)
    BY <1>1, <1>4 DEF RconDue
  <2>2. s[1].body = n + 1
    <3>1. n + 1 \in (n + 1)..k
      BY <2>1
    <3>2. PICK i \in 1..Len(s) : s[i].body = n + 1
      BY <3>1 DEF RconDue
    <3>3. ASSUME i # 1 PROVE s[1].body < s[i].body
      <4>1. 1 < i /\ s[1].body # R!Log /\ s[i].body # R!Log
        BY <1>1, <1>4, <3>2, <3>3 DEF R!Log
      <4> QED  BY <2>1, <4>1 DEF RconDue
    <3> QED  BY <2>1, <3>2, <3>3
  <2>3. ASSUME NEW i \in 1..Len(t), t[i].body # R!Log PROVE t[i].body \in (n + 2)..k
    <3>1. i + 1 \in 1..Len(s) /\ t[i] = s[i + 1] /\ 1 < i + 1
      BY <1>1
    <3>2. s[i + 1].body \in (n + 1)..k /\ s[1].body < s[i + 1].body
      BY <1>1, <1>4, <2>1, <2>3, <3>1 DEF RconDue
    <3> QED  BY <2>2, <3>1, <3>2
  <2>4. ASSUME NEW m \in (n + 2)..k PROVE \E i \in 1..Len(t) : t[i].body = m
    <3>1. m \in (n + 1)..k
      OBVIOUS
    <3>2. PICK i \in 1..Len(s) : s[i].body = m
      BY <3>1 DEF RconDue
    <3>3. i # 1
      BY <2>2, <3>2
    <3> QED  BY <1>1, <3>2, <3>3
  <2> QED  BY <1>1, <1>2, <1>4, <2>1, <2>2, <2>3, <2>4 DEF RconDue, t
<1> QED  BY <1>3, <1>4

(* A packet arrives at the end: no chunk, or the one after the last.        *)
LEMMA RconDueAppend ==
  ASSUME NEW s \in Seq(R!Packets), NEW n \in Nat, NEW k \in Nat, n <= k, RconDue(s, n, k),
         NEW x \in R!Packets, NEW l \in Nat,
         \/ x.body = R!Log /\ l = k
         \/ x.body = k + 1 /\ l = k + 1
  PROVE  RconDue(s \o <<x>>, n, l)
<1> DEFINE t == s \o <<x>>
<1>1. /\ Len(t) = Len(s) + 1 /\ Len(s) \in Nat /\ t[Len(s) + 1] = x
      /\ \A i \in 1..Len(s) : t[i] = s[i]
      /\ \A i \in 1..Len(t) : i \in 1..Len(s) \/ i = Len(s) + 1
  BY AppendElements
<1> HIDE DEF t
<1>2. \A i \in 1..Len(t) : t[i].body # R!Log => t[i].body \in (n + 1)..l
  BY <1>1 DEF RconDue
<1>3. ASSUME NEW i \in 1..Len(t), NEW j \in 1..Len(t), i < j, t[i].body # R!Log, t[j].body # R!Log
      PROVE  t[i].body < t[j].body
  <2>1. i \in 1..Len(s) /\ t[i] = s[i] /\ s[i].body \in (n + 1)..k
    BY <1>1, <1>3 DEF RconDue
  <2>2. CASE j \in 1..Len(s)
    BY <1>1, <1>3, <2>1, <2>2 DEF RconDue
  <2>3. CASE j = Len(s) + 1
    BY <1>1, <1>3, <2>1, <2>3
  <2> QED  BY <1>1, <2>2, <2>3
<1>4. ASSUME NEW m \in (n + 1)..l PROVE \E i \in 1..Len(t) : t[i].body = m
  <2>1. CASE m \in (n + 1)..k
    <3>1. PICK i \in 1..Len(s) : s[i].body = m
      BY <2>1 DEF RconDue
    <3> QED  BY <1>1, <3>1
  <2>2. CASE m = k + 1
    BY <1>1, <2>2
  <2> QED  BY <2>1, <2>2
<1> QED  BY <1>2, <1>3, <1>4 DEF RconDue, t

(* Reading a packet keeps the shape of the rest.                            *)
LEMMA ShapeTail ==
  ASSUME NEW s \in Seq(R!Packets), s # <<>>, NEW at, NEW announced, Shape(s, at, announced)
  PROVE  /\ Head(s).type = "four" => at # "follow" /\ Shape(Tail(s), "follow", announced)
         /\ Head(s).type # "four" =>
              \A to : to # "follow" => Shape(Tail(s), to, announced)
<1> DEFINE t == Tail(s)
<1>1. /\ Len(t) = Len(s) - 1 /\ Len(s) \in Nat \ {0} /\ Head(s) = s[1]
      /\ \A i \in 1..Len(t) : i + 1 \in 1..Len(s) /\ t[i] = s[i + 1]
      /\ (t = <<>> <=> Len(s) = 1)
  BY TailElements
<1> HIDE DEF t
<1>2. 1 \in 1..Len(s) /\ Len(s) \in 1..Len(s)
  BY <1>1
<1>3. s # <<>> /\ (t # <<>> => 1 \in 1..Len(t) /\ t[1] = s[2] /\ t[Len(t)] = s[Len(s)])
  <2> SUFFICES ASSUME t # <<>> PROVE 1 \in 1..Len(t) /\ t[1] = s[2] /\ t[Len(t)] = s[Len(s)]
    OBVIOUS
  <2>1. 1 \in 1..Len(t) /\ Len(t) \in 1..Len(t) /\ Len(t) + 1 = Len(s) /\ 1 + 1 = 2
    BY <1>1
  <2>2. t[1] = s[1 + 1] /\ t[Len(t)] = s[Len(t) + 1]
    BY <1>1, <2>1
  <2> QED  BY <2>1, <2>2
<1>4. ASSUME NEW to, Head(s).type = "four" => to = "follow", NEW i \in 1..Len(t)
      PROVE  Fits(t, i, to, announced)
  <2>1. i + 1 \in 1..Len(s) /\ t[i] = s[i + 1] /\ i + 1 # 1 /\ (i + 1) - 1 = i /\ i \in 1..Len(s)
    BY <1>1
  <2>2. Fits(s, i + 1, at, announced)
    BY <2>1 DEF Shape
  <2>3. t[i].body # R!Log =>
          /\ t[i].type = "value" /\ t[i].id \in {ExecID, R!Refused}
          /\ t[i].id = R!Refused => s[i].type = "four"
    BY <2>1, <2>2 DEF Fits
  <2>4. t[i].type = "four" =>
          /\ t[i].body = R!Log
          /\ IF i + 1 = Len(s) THEN announced = TRUE ELSE s[(i + 1) + 1].body # R!Log
    BY <2>1, <2>2 DEF Fits
  <2>5. i # 1 => t[i - 1] = s[i]
    <3> SUFFICES ASSUME i # 1 PROVE t[i - 1] = s[i]
      OBVIOUS
    <3>1. i - 1 \in 1..Len(t) /\ (i - 1) + 1 = i
      BY <1>1
    <3>2. t[i - 1] = s[(i - 1) + 1]
      BY <1>1, <3>1
    <3> QED  BY <3>1, <3>2
  <2>6. i = 1 => s[i] = Head(s)
    BY <1>1
  <2>7. i # Len(t) => t[i + 1] = s[(i + 1) + 1]
    <3>1. i # Len(t) => i + 1 \in 1..Len(t)
      BY <1>1
    <3> QED  BY <1>1, <3>1
  <2>8. i = Len(t) <=> i + 1 = Len(s)
    BY <1>1
  <2>9. t[i].body # R!Log =>
          /\ t[i].type = "value" /\ t[i].id \in {ExecID, R!Refused}
          /\ t[i].id = R!Refused => IF i = 1 THEN to = "follow" ELSE t[i - 1].type = "four"
    BY <1>4, <2>3, <2>5, <2>6
  <2>10. t[i].type = "four" =>
          /\ t[i].body = R!Log
          /\ IF i = Len(t) THEN announced = TRUE ELSE t[i + 1].body # R!Log
    BY <2>4, <2>7, <2>8
  <2> QED  BY <2>9, <2>10 DEF Fits
<1>5. CASE Head(s).type = "four"
  <2>1. s[1].body = R!Log /\ IF 1 = Len(s) THEN announced = TRUE ELSE s[1 + 1].body # R!Log
    BY <1>1, <1>2, <1>5 DEF Shape, Fits
  <2>2. at # "follow"
    BY <1>3, <2>1 DEF Shape
  <2>3. IF t = <<>> THEN announced = TRUE ELSE t[1].body # R!Log
    <3>1. 1 + 1 = 2
      OBVIOUS
    <3> QED  BY <1>1, <1>3, <2>1, <3>1
  <2>4. announced = TRUE => IF t = <<>> THEN TRUE ELSE t[Len(t)].type = "four"
    BY <1>3 DEF Shape
  <2>5. Shape(t, "follow", announced)
    BY <1>4, <2>3, <2>4 DEF Shape
  <2> QED  BY <1>5, <2>2, <2>5 DEF t
<1>6. CASE Head(s).type # "four"
  <2> SUFFICES ASSUME NEW to, to # "follow" PROVE Shape(t, to, announced)
    BY <1>6 DEF t
  <2>1. announced = TRUE => t # <<>> /\ t[Len(t)].type = "four"
    <3>1. announced = TRUE => s[Len(s)].type = "four"
      BY <1>3 DEF Shape
    <3> QED  BY <1>1, <1>3, <1>6, <3>1
  <2> QED  BY <1>4, <1>6, <2>1 DEF Shape
<1> QED  BY <1>5, <1>6

(* A packet that arrives keeps the shape: an announcement and a pushed line *)
(* while no chunk is owed, a chunk always.                                  *)
LEMMA ShapeAppend ==
  ASSUME NEW s \in Seq(R!Packets), NEW x \in R!Packets, NEW at, NEW announced, NEW owed \in BOOLEAN,
         Shape(s, at, announced),
         \/ x.body = R!Log /\ announced # TRUE /\ (owed = TRUE <=> x.type = "four")
         \/ /\ x.body # R!Log /\ x.type = "value" /\ owed = FALSE
            /\ x.id = R!Refused => announced = TRUE
            /\ x.id \in {ExecID, R!Refused}
  PROVE  Shape(s \o <<x>>, at, owed)
<1> DEFINE t == s \o <<x>>
<1>1. /\ Len(t) = Len(s) + 1 /\ Len(s) \in Nat /\ t[Len(s) + 1] = x /\ t # <<>>
      /\ \A i \in 1..Len(s) : t[i] = s[i]
      /\ \A i \in 1..(Len(s) + 1) : i \in 1..Len(s) \/ i = Len(s) + 1
      /\ (s = <<>> <=> Len(s) = 0)
  BY AppendElements
<1> HIDE DEF t
<1>2. s # <<>> => s[Len(s)] = t[Len(s)] /\ Len(s) \in 1..Len(s) /\ 1 \in 1..Len(s)
  BY <1>1
<1>3. announced # TRUE => s = <<>> \/ s[Len(s)].type # "four"
  BY <1>1, <1>2 DEF Shape, Fits
<1>4. ASSUME NEW i \in 1..Len(s) PROVE Fits(t, i, at, owed)
  <2>1. Fits(s, i, at, announced) /\ t[i] = s[i]
    BY <1>1 DEF Shape
  <2>2. i # 1 => t[i - 1] = s[i - 1]
    <3>1. i # 1 => i - 1 \in 1..Len(s)
      BY <1>1
    <3> QED  BY <1>1, <3>1
  <2>3. t[i].body # R!Log =>
          /\ t[i].type = "value" /\ t[i].id \in {ExecID, R!Refused}
          /\ t[i].id = R!Refused => IF i = 1 THEN at = "follow" ELSE t[i - 1].type = "four"
    BY <2>1, <2>2 DEF Fits
  <2>4. i # Len(t)
    BY <1>1
  <2>5. t[i].type = "four" => t[i].body = R!Log /\ t[i + 1].body # R!Log
    <3>1. CASE i = Len(s)
      <4>1. t[i].type = "four" => t[i].body = R!Log /\ announced = TRUE
        BY <2>1, <3>1 DEF Fits
      <4> QED  BY <1>1, <3>1, <4>1
    <3>2. CASE i # Len(s)
      <4>1. i + 1 \in 1..Len(s)
        BY <1>1, <3>2
      <4> QED  BY <1>1, <2>1, <3>2, <4>1 DEF Fits
    <3> QED  BY <3>1, <3>2
  <2> QED  BY <2>3, <2>4, <2>5 DEF Fits
<1>5. Fits(t, Len(t), at, owed)
  <2>1. t[Len(t)] = x /\ Len(t) - 1 = Len(s)
    BY <1>1
  <2>2. x.body # R!Log =>
          /\ x.type = "value" /\ x.id \in {ExecID, R!Refused}
          /\ x.id = R!Refused => IF Len(t) = 1 THEN at = "follow" ELSE t[Len(t) - 1].type = "four"
    <3> SUFFICES ASSUME x.body # R!Log, x.id = R!Refused
                 PROVE  IF Len(t) = 1 THEN at = "follow" ELSE t[Len(t) - 1].type = "four"
      OBVIOUS
    <3>1. announced = TRUE
      BY PacketAssumption DEF R!Refused
    <3>2. CASE s = <<>>
      BY <1>1, <3>1, <3>2 DEF Shape
    <3>3. CASE s # <<>>
      <4>1. Len(t) # 1 /\ t[Len(t) - 1] = s[Len(s)]
        BY <1>1, <1>2, <2>1, <3>3
      <4> QED  BY <3>1, <3>3, <4>1 DEF Shape
    <3> QED  BY <3>2, <3>3
  <2>3. x.type = "four" => x.body = R!Log /\ owed = TRUE
    OBVIOUS
  <2> QED  BY <2>1, <2>2, <2>3 DEF Fits
<1>6. at = "follow" => t[1].body # R!Log
  <2>1. CASE s = <<>>
    BY <1>1, <2>1 DEF Shape
  <2>2. CASE s # <<>>
    BY <1>1, <1>2, <2>2 DEF Shape
  <2> QED  BY <2>1, <2>2
<1>7. owed = TRUE => t[Len(t)].type = "four"
  BY <1>1
<1>8. \A i \in 1..Len(t) : Fits(t, i, at, owed)
  BY <1>1, <1>4, <1>5
<1> QED  BY <1>1, <1>6, <1>7, <1>8 DEF Shape, t

-----------------------------------------------------------------------------
(* Rcon: the inductive invariant                                            *)

RconOnes(n) == [i \in 1..n |-> i]

Servers == [login : {"none", "asked", "granted", "refused"}, closed : BOOLEAN,
            sent : 0..MaxChunks, announced : BOOLEAN, pushed : BOOLEAN]

(* How far the call and the server have come with each other.               *)
Course ==
  /\ pc \in {"idle", "dial", "login"} => srv.login = "none" /\ writes = 0
  /\ pc \in {"reply", "reply2"} => srv.login # "none" /\ writes = 0
  /\ pc = "exec" => srv.login = "granted" /\ writes = 0
  /\ pc \in {"read", "follow"} => srv.login = "granted" /\ writes = 1
  /\ writes > 0 => srv.login = "granted"
  /\ writes = 0 => srv.sent = 0 /\ srv.announced = FALSE
  /\ srv.login # "granted" => srv.pushed = FALSE
  /\ barred => pc = "done" /\ writes = 0

(* What waits to be read while the call is under way.                       *)
Wire ==
  /\ srv.login \in {"none", "asked"} => wire = <<>>
  /\ Shape(wire, pc, srv.announced)
  /\ pc \in {"exec", "read", "follow"} => \A i \in 1..Len(wire) : OnlyPushed(wire, i, srv)
  /\ \A i \in 1..Len(wire) : wire[i].type = "auth" =>
       /\ wire[i].id # R!Refused => srv.login = "granted"
       /\ \A j \in 1..Len(wire) : i < j => OnlyPushed(wire, j, srv)

(* What a call returns.                                                     *)
Outcome ==
  /\ pc # "done" => result = "none"
  /\ pc = "done" => result \in {"ok", "error"}
  /\ result = "ok" => writes = 1 /\ (srv.pushed = FALSE => Len(output) = srv.sent)

RconIInv ==
  /\ R!TypeOK
  /\ srv \in Servers
  /\ output = RconOnes(Len(output)) /\ Len(output) <= srv.sent
  /\ RconDue(wire, Len(output), srv.sent)
  /\ Course
  /\ R!Busy => Wire
  /\ Outcome

(* The client before a call, and as a call finds it.                        *)
LEMMA Nothing ==
  /\ RconDue(<<>>, 0, 0) /\ <<>> = RconOnes(0) /\ Len(<<>>) = 0
  /\ \A S : <<>> \in Seq(S)
  /\ R!NewServer \in Servers /\ R!NewServer.login = "none" /\ R!NewServer.sent = 0
  /\ R!NewServer.announced = FALSE /\ R!NewServer.pushed = FALSE /\ R!NewServer.closed = FALSE
<1>1. RconDue(<<>>, 0, 0) /\ <<>> = RconOnes(0) /\ Len(<<>>) = 0 /\ \A S : <<>> \in Seq(S)
  BY DEF RconDue, RconOnes
<1>2. /\ R!NewServer \in Servers /\ R!NewServer.login = "none" /\ R!NewServer.sent = 0
      /\ R!NewServer.announced = FALSE /\ R!NewServer.pushed = FALSE /\ R!NewServer.closed = FALSE
  BY BoundAssumption DEF R!NewServer, Servers
<1> QED  BY <1>1, <1>2

(* The type invariant after a step, piece by piece.                         *)
LEMMA TypedNext ==
  ASSUME pc' \in {"idle", "dial", "login", "reply", "reply2", "exec", "read", "follow", "done"},
         checked' \in BOOLEAN, gone' \in BOOLEAN, readAny' \in BOOLEAN, barred' \in BOOLEAN,
         srv' \in Servers, output' \in Seq(1..MaxChunks), wire' \in Seq(R!Packets),
         result' \in {"none", "ok", "error"}, writes' \in 0..1
  PROVE  R!TypeOK'
<1>1. /\ srv'.closed \in BOOLEAN /\ srv'.announced \in BOOLEAN /\ srv'.pushed \in BOOLEAN
      /\ srv'.login \in {"none", "asked", "granted", "refused"} /\ srv'.sent \in 0..MaxChunks
  BY DEF Servers
<1>2. {checked, gone, readAny, barred, srv.closed, srv.announced, srv.pushed}' \subseteq BOOLEAN
  BY <1>1
<1> QED  BY <1>1, <1>2 DEF R!TypeOK, R!Packets

(* The invariant holds before the first call.                               *)
LEMMA RconInitIInv == R!Init => RconIInv
<1> SUFFICES ASSUME R!Init PROVE RconIInv
  OBVIOUS
<1>1. /\ pc = "idle" /\ checked = FALSE /\ gone = FALSE /\ output = <<>> /\ readAny = FALSE
      /\ result = "none" /\ wire = <<>> /\ srv = R!NewServer /\ barred = FALSE /\ writes = 0
  BY DEF R!Init
<1>2. R!TypeOK
  <2>1. /\ checked \in BOOLEAN /\ gone \in BOOLEAN /\ readAny \in BOOLEAN /\ barred \in BOOLEAN
        /\ srv.closed \in BOOLEAN /\ srv.announced \in BOOLEAN /\ srv.pushed \in BOOLEAN
    BY <1>1, Nothing
  <2>2. {checked, gone, readAny, barred, srv.closed, srv.announced, srv.pushed} \subseteq BOOLEAN
    BY <2>1
  <2>3. /\ output \in Seq(1..MaxChunks) /\ wire \in Seq(R!Packets) /\ srv.sent \in 0..MaxChunks
        /\ srv.login \in {"none", "asked", "granted", "refused"}
        /\ pc \in {"idle", "dial"} /\ result \in {"none", "ok", "error"} /\ writes \in 0..1
    BY <1>1, Nothing, BoundAssumption
  <2> QED  BY <2>2, <2>3 DEF R!TypeOK
<1>3. Course /\ Outcome /\ ~R!Busy
  BY <1>1, Nothing DEF Course, Outcome, R!Busy
<1> QED  BY <1>1, <1>2, <1>3, Nothing DEF RconIInv

(* A call begins.                                                           *)
LEMMA RconExecuteIInv ==
  ASSUME RconIInv, NEW cancelled \in BOOLEAN, NEW valid \in BOOLEAN, R!Execute(cancelled, valid)
  PROVE  RconIInv'
<1>1. /\ checked' = FALSE /\ output' = <<>> /\ readAny' = FALSE
      /\ wire' = <<>> /\ srv' = R!NewServer /\ writes' = 0
      /\ gone' = cancelled /\ barred' = cancelled
      /\ IF cancelled \/ ~valid THEN pc' = "done" /\ result' = "error"
         ELSE pc' = "dial" /\ result' = "none"
  BY DEF R!Execute, R!Connect, R!Return
<1>2. /\ pc' \in {"dial", "done"} /\ result' \in {"none", "error"}
      /\ cancelled => pc' = "done"
  BY <1>1
<1>3. R!TypeOK'
  <2>1. /\ checked' \in BOOLEAN /\ gone' \in BOOLEAN /\ readAny' \in BOOLEAN /\ barred' \in BOOLEAN
        /\ srv' \in Servers /\ output' \in Seq(1..MaxChunks) /\ wire' \in Seq(R!Packets)
        /\ writes' \in 0..1
    <3>1. checked' \in BOOLEAN /\ gone' \in BOOLEAN /\ readAny' \in BOOLEAN /\ barred' \in BOOLEAN
      BY <1>1
    <3>2. srv' \in Servers /\ output' \in Seq(1..MaxChunks) /\ wire' \in Seq(R!Packets) /\ writes' \in 0..1
      BY <1>1, Nothing
    <3> QED  BY <3>1, <3>2
  <2> QED  BY <1>2, <2>1, TypedNext
<1>4. Course'
  BY <1>1, <1>2, Nothing DEF Course
<1>5. Outcome'
  BY <1>1 DEF Outcome
<1>6. Wire'
  <2>1. 1..Len(wire') = {}
    BY <1>1, Nothing
  <2>2. pc' # "follow" /\ srv'.announced = FALSE
    BY <1>1, <1>2, Nothing
  <2> QED  BY <1>1, <2>1, <2>2 DEF Wire, Shape
<1> QED  BY <1>1, <1>3, <1>4, <1>5, <1>6, Nothing DEF RconIInv

(* Where the client is matters to what waits for it only after a packet of  *)
(* type 4.                                                                  *)
LEMMA ShapeElsewhere ==
  ASSUME NEW s, NEW at, NEW to, NEW announced, at # "follow", to # "follow",
         Shape(s, at, announced)
  PROVE  Shape(s, to, announced)
  BY DEF Shape, Fits

(* The invariant when a call has ended: nothing is read any more.           *)
LEMMA DoneIInv ==
  ASSUME RconIInv, R!Busy, NEW r \in {"ok", "error"}, pc' = "done", result' = r,
         output' = output, srv' = srv, barred' = barred, writes' = writes, gone' = gone,
         readAny' = readAny, checked' \in BOOLEAN, wire' \in Seq(R!Packets),
         RconDue(wire', Len(output), srv.sent),
         r = "ok" => writes = 1 /\ (srv.pushed = FALSE => Len(output) = srv.sent)
  PROVE  RconIInv'
<1>1. R!TypeOK'
  BY TypedNext DEF RconIInv, R!TypeOK
<1>2. Course'
  BY DEF RconIInv, Course, R!Busy
<1>3. Outcome' /\ ~R!Busy'
  BY DEF Outcome, R!Busy
<1> QED  BY <1>1, <1>2, <1>3 DEF RconIInv

(* Steps that neither read a packet nor send one.                           *)
LEMMA RconControlIInv ==
  ASSUME RconIInv, R!Dial \/ R!CheckContext \/ R!writePacket \/ R!EndOfResponse \/ R!Fails \/ R!Cancel
  PROVE  RconIInv'
<1>1. output' = output /\ wire' = wire /\ barred' = barred /\ readAny' = readAny /\ R!Busy
  BY DEF R!Dial, R!CheckContext, R!writePacket, R!EndOfResponse, R!Fails, R!Cancel, R!Busy
<1>2. wire \in Seq(R!Packets) /\ RconDue(wire, Len(output), srv.sent) /\ Wire /\ Course
  BY <1>1 DEF RconIInv, R!TypeOK
<1>3. CASE R!Fails
  <2>1. pc' = "done" /\ result' = "error" /\ srv' = srv /\ writes' = writes /\ gone' = gone
        /\ checked' = checked
    BY <1>3 DEF R!Fails, R!Return
  <2>2. checked \in BOOLEAN
    BY DEF RconIInv, R!TypeOK
  <2> QED  BY <1>1, <1>2, <2>1, <2>2, DoneIInv
<1>4. CASE R!EndOfResponse
  <2>1. /\ pc' = "done" /\ result' = IF pc \in {"read", "follow"} THEN "ok" ELSE "error"
        /\ srv' = srv /\ writes' = writes /\ gone' = gone /\ checked' = checked /\ wire = <<>>
    BY <1>4 DEF R!EndOfResponse, R!Return
  <2>2. Len(output) = srv.sent
    <3>1. /\ RconDue(<<>>, Len(output), srv.sent) /\ Len(output) \in Nat /\ srv.sent \in Nat
          /\ Len(output) <= srv.sent
      BY <1>2, <2>1, BoundAssumption DEF RconIInv, R!TypeOK
    <3>2. 1..Len(<<>>) = {}
      OBVIOUS
    <3>3. (Len(output) + 1)..srv.sent = {}
      BY <3>1, <3>2 DEF RconDue
    <3> QED  BY <3>1, <3>3
  <2>3. pc \in {"read", "follow"} => writes = 1
    BY <1>2 DEF Course
  <2>4. checked \in BOOLEAN
    BY DEF RconIInv, R!TypeOK
  <2> QED  BY <1>1, <1>2, <2>1, <2>2, <2>3, <2>4, DoneIInv
<1>5. CASE R!CheckContext
  <2>1. CASE gone
    <3>1. pc' = "done" /\ result' = "error" /\ srv' = srv /\ writes' = writes /\ gone' = gone
          /\ checked' \in BOOLEAN
      BY <1>5, <2>1 DEF R!CheckContext, R!Return
    <3> QED  BY <1>1, <1>2, <3>1, DoneIInv
  <2>2. CASE ~gone
    <3>1. pc' = pc /\ result' = result /\ srv' = srv /\ writes' = writes /\ gone' = gone
          /\ checked' \in BOOLEAN
      BY <1>5, <2>2 DEF R!CheckContext
    <3>2. R!TypeOK'
      BY <1>1, <3>1, TypedNext DEF RconIInv, R!TypeOK
    <3> QED  BY <1>1, <1>2, <3>1, <3>2 DEF RconIInv, Course, Wire, Outcome, OnlyPushed, R!Busy
  <2> QED  BY <2>1, <2>2
<1>6. CASE R!Cancel
  <2>1. pc' = pc /\ result' = result /\ srv' = srv /\ writes' = writes /\ gone' = TRUE
        /\ checked' = checked
    BY <1>6 DEF R!Cancel
  <2>2. R!TypeOK'
    BY <1>1, <2>1, TypedNext DEF RconIInv, R!TypeOK
  <2> QED  BY <1>1, <1>2, <2>1, <2>2 DEF RconIInv, Course, Wire, Outcome, OnlyPushed, R!Busy
<1>7. CASE R!Dial
  <2>1. pc = "dial" /\ pc' = "login" /\ result' = result /\ srv' = srv /\ writes' = writes
        /\ gone' = gone /\ checked' = checked
    BY <1>7 DEF R!Dial, R!Goto
  <2>2. R!TypeOK'
    BY <1>1, <2>1, TypedNext DEF RconIInv, R!TypeOK
  <2>3. Wire'
    <3>1. Shape(wire, pc', srv.announced)
      BY <1>2, <2>1, ShapeElsewhere DEF Wire
    <3> QED  BY <1>1, <1>2, <2>1, <3>1 DEF Wire, OnlyPushed
  <2>4. Course' /\ Outcome'
    BY <1>1, <1>2, <2>1 DEF Course, Outcome, RconIInv
  <2> QED  BY <1>1, <1>2, <2>1, <2>2, <2>3, <2>4 DEF RconIInv
<1>8. CASE R!writePacket /\ pc = "login"
  <2>1. pc' = "reply" /\ result' = result /\ writes' = writes /\ gone' = gone /\ checked' = FALSE
        /\ srv' = [srv EXCEPT !.login = "asked"]
    BY <1>8 DEF R!writePacket, R!Goto
  <2>2. /\ srv' \in Servers /\ srv'.login = "asked" /\ srv'.sent = srv.sent
        /\ srv'.announced = srv.announced /\ srv'.pushed = srv.pushed
    BY <2>1 DEF RconIInv, Servers
  <2>3. R!TypeOK'
    BY <1>1, <2>1, <2>2, TypedNext DEF RconIInv, R!TypeOK
  <2>4. wire = <<>> /\ 1..Len(<<>>) = {}
    BY <1>2, <1>8 DEF Wire, Course
  <2>5. Wire'
    <3>1. Shape(wire, pc', srv.announced)
      BY <1>2, <1>8, <2>1, ShapeElsewhere DEF Wire
    <3> QED  BY <1>1, <2>1, <2>2, <2>4, <3>1 DEF Wire
  <2>6. Course' /\ Outcome'
    BY <1>1, <1>2, <1>8, <2>1, <2>2 DEF Course, Outcome, RconIInv
  <2> QED  BY <1>1, <1>2, <2>1, <2>2, <2>3, <2>5, <2>6 DEF RconIInv
<1>9. CASE R!writePacket /\ pc = "exec"
  <2>1. pc' = "read" /\ result' = result /\ gone' = gone /\ checked' = FALSE /\ srv' = srv
        /\ writes' = writes + 1 /\ writes = 0
    BY <1>2, <1>9 DEF R!writePacket, R!Goto, Course
  <2>2. R!TypeOK'
    <3>1. checked' \in BOOLEAN
      BY <2>1
    <3>2. writes' = 1
      BY <2>1
    <3>3. writes' \in 0..1
      BY <3>2
    <3> QED  BY <1>1, <2>1, <3>1, <3>3, TypedNext DEF RconIInv, R!TypeOK
  <2>3. Wire'
    <3>1. Shape(wire, pc', srv.announced)
      BY <1>2, <1>9, <2>1, ShapeElsewhere DEF Wire
    <3> QED  BY <1>1, <1>2, <1>9, <2>1, <3>1 DEF Wire, OnlyPushed
  <2>4. Course' /\ Outcome'
    BY <1>1, <1>2, <1>9, <2>1 DEF Course, Outcome, RconIInv
  <2> QED  BY <1>1, <1>2, <2>1, <2>2, <2>3, <2>4 DEF RconIInv
<1> QED  BY <1>3, <1>4, <1>5, <1>6, <1>7, <1>8, <1>9 DEF R!writePacket

(* What is left of the wire after a packet was read by which the call does  *)
(* not end.                                                                 *)
LEMMA WireTail ==
  ASSUME RconIInv, R!Busy, wire # <<>>, wire' = Tail(wire), srv' = srv,
         IF Head(wire).type = "four" THEN pc' = "follow" ELSE pc' # "follow",
         pc' \in {"exec", "read", "follow"} =>
           \/ pc \in {"exec", "read", "follow"}
           \/ Head(wire).type = "auth"
  PROVE  Wire'
<1>1. wire \in Seq(R!Packets) /\ Wire
  BY DEF RconIInv, R!TypeOK
<1>2. /\ Head(wire) = wire[1] /\ 1 \in 1..Len(wire)
      /\ \A i \in 1..Len(wire') : i + 1 \in 1..Len(wire) /\ wire'[i] = wire[i + 1] /\ 1 < i + 1
  BY <1>1, TailElements
<1>3. Shape(wire', pc', srv.announced)
  <2>1. Shape(wire, pc, srv.announced)
    BY <1>1 DEF Wire
  <2> QED  BY <1>1, <2>1, ShapeTail
<1>4. srv'.login \notin {"none", "asked"}
  BY <1>1 DEF Wire
<1>5. ASSUME pc' \in {"exec", "read", "follow"}, NEW i \in 1..Len(wire')
      PROVE  OnlyPushed(wire', i, srv')
  <2>1. OnlyPushed(wire, i + 1, srv)
    BY <1>1, <1>2, <1>5 DEF Wire
  <2> QED  BY <1>2, <2>1 DEF OnlyPushed
<1>6. ASSUME NEW i \in 1..Len(wire'), wire'[i].type = "auth"
      PROVE  /\ wire'[i].id # R!Refused => srv'.login = "granted"
             /\ \A j \in 1..Len(wire') : i < j => OnlyPushed(wire', j, srv')
  <2>1. wire'[i].id # R!Refused => srv'.login = "granted"
    BY <1>1, <1>2, <1>6 DEF Wire
  <2>2. ASSUME NEW j \in 1..Len(wire'), i < j PROVE OnlyPushed(wire', j, srv')
    <3>1. OnlyPushed(wire, j + 1, srv)
      <4>1. i + 1 < j + 1 /\ i + 1 \in 1..Len(wire) /\ j + 1 \in 1..Len(wire)
        BY <1>2, <2>2
      <4> QED  BY <1>1, <1>2, <1>6, <4>1 DEF Wire
    <3> QED  BY <1>2, <3>1 DEF OnlyPushed
  <2> QED  BY <2>1, <2>2
<1> QED  BY <1>3, <1>4, <1>5, <1>6 DEF Wire

(* An answer to the log-in is read, or the packet before it.                *)
LEMMA AuthenticateIInv ==
  ASSUME RconIInv, R!authenticate
  PROVE  RconIInv'
<1>1. /\ pc \in {"reply", "reply2"} /\ wire # <<>> /\ wire' = Tail(wire) /\ checked' = FALSE
      /\ gone' = gone /\ srv' = srv /\ barred' = barred /\ writes' = writes
      /\ output' = output /\ readAny' = readAny /\ R!Busy
  BY DEF R!authenticate, R!Receive, R!Busy
<1>2. wire \in Seq(R!Packets) /\ Wire /\ Course /\ RconDue(wire, Len(output), srv.sent)
  BY <1>1 DEF RconIInv, R!TypeOK
<1>3. /\ wire' \in Seq(R!Packets) /\ Head(wire) = wire[1] /\ wire[1] \in R!Packets
      /\ 1 \in 1..Len(wire) /\ srv.sent = 0 /\ Len(output) = 0
  <2>1. writes = 0
    BY <1>1, <1>2 DEF Course
  <2>2. srv.sent = 0 /\ Len(output) \in Nat /\ Len(output) <= srv.sent
    BY <1>2, <2>1 DEF RconIInv, Course, R!TypeOK
  <2> QED  BY <1>1, <1>2, <2>2, TailElements
<1>4. Head(wire).body = R!Log /\ RconDue(wire', Len(output), srv.sent)
  <2>1. Head(wire).body # R!Log => Len(output) + 1 <= srv.sent
    BY <1>1, <1>2, <1>3, RconDueHead
  <2>2. Head(wire).body = R!Log
    BY <1>3, <2>1
  <2>3. RconDue(wire, 0, 0) /\ wire \in Seq(R!Packets) /\ wire # <<>>
    BY <1>1, <1>2, <1>3
  <2>4. RconDue(Tail(wire), 0, 0)
    BY <2>2, <2>3, RconDueHead
  <2> QED  BY <1>1, <1>3, <2>2, <2>4
<1>5. CASE pc = "reply" /\ Head(wire).type = "value"
  <2>1. pc' = "reply2" /\ result' = result
    BY <1>5 DEF R!authenticate, R!Goto
  <2>2. R!TypeOK'
    BY <1>1, <1>3, <2>1, TypedNext DEF RconIInv, R!TypeOK
  <2>3. Wire'
    BY <1>1, <1>5, <2>1, WireTail
  <2>4. Course' /\ Outcome'
    BY <1>1, <1>2, <2>1 DEF Course, Outcome, RconIInv
  <2> QED  BY <1>1, <1>4, <2>2, <2>3, <2>4 DEF RconIInv
<1>6. CASE ~(pc = "reply" /\ Head(wire).type = "value") /\ R!AuthResponse(Head(wire))
  <2>1. pc' = "exec" /\ result' = result
    BY <1>6 DEF R!authenticate, R!Goto
  <2>2. R!TypeOK'
    BY <1>1, <1>3, <2>1, TypedNext DEF RconIInv, R!TypeOK
  <2>3. Head(wire).type = "auth" /\ srv.login = "granted"
    BY <1>2, <1>3, <1>6 DEF R!AuthResponse, Wire
  <2>4. Wire'
    BY <1>1, <2>1, <2>3, WireTail
  <2>5. Course' /\ Outcome'
    BY <1>1, <1>2, <2>1, <2>3 DEF Course, Outcome, RconIInv
  <2> QED  BY <1>1, <1>4, <2>2, <2>4, <2>5 DEF RconIInv
<1>7. CASE ~(pc = "reply" /\ Head(wire).type = "value") /\ ~R!AuthResponse(Head(wire))
  <2>1. pc' = "done" /\ result' = "error"
    BY <1>7 DEF R!authenticate, R!Return
  <2> QED  BY <1>1, <1>3, <1>4, <2>1, DoneIInv
<1> QED  BY <1>5, <1>6, <1>7

(* One more chunk makes the beginning of the reply longer by one.           *)
LEMMA OnesAppend ==
  ASSUME NEW n \in Nat, n + 1 <= MaxChunks, RconOnes(n) \in Seq(1..MaxChunks), Len(RconOnes(n)) = n
  PROVE  /\ Append(RconOnes(n), n + 1) = RconOnes(n + 1)
         /\ RconOnes(n + 1) \in Seq(1..MaxChunks) /\ Len(RconOnes(n + 1)) = n + 1
<1>1. n + 1 \in 1..MaxChunks /\ \A i \in 1..(n + 1) : i \in 1..MaxChunks
  BY BoundAssumption
<1>2. RconOnes(n + 1) \in Seq(1..MaxChunks) /\ Len(RconOnes(n + 1)) = n + 1
  <2>1. RconOnes(n + 1) \in [1..(n + 1) -> 1..MaxChunks] /\ n + 1 \in Nat
    BY <1>1 DEF RconOnes
  <2>2. RconOnes(n + 1) \in Seq(1..MaxChunks)
    BY <2>1, SeqDef
  <2>3. DOMAIN RconOnes(n + 1) = 1..(n + 1)
    BY DEF RconOnes
  <2> QED  BY <2>1, <2>2, <2>3, LenProperties
<1>3. /\ Append(RconOnes(n), n + 1) \in Seq(1..MaxChunks) /\ Len(Append(RconOnes(n), n + 1)) = n + 1
      /\ \A i \in 1..n : Append(RconOnes(n), n + 1)[i] = RconOnes(n)[i]
      /\ Append(RconOnes(n), n + 1)[n + 1] = n + 1
  BY <1>1, AppendProperties
<1>4. \A i \in 1..(n + 1) : Append(RconOnes(n), n + 1)[i] = RconOnes(n + 1)[i]
  BY <1>3 DEF RconOnes
<1> QED  BY <1>2, <1>3, <1>4, SeqEqual

(* A packet of the answer is read.                                          *)
LEMMA RconReadIInv ==
  ASSUME RconIInv, R!executeCommand
  PROVE  RconIInv'
<1> DEFINE p == Head(wire)
           n == Len(output)
<1>1. /\ pc \in {"read", "follow"} /\ wire # <<>> /\ wire' = Tail(wire) /\ checked' = FALSE
      /\ gone' = gone /\ srv' = srv /\ barred' = barred /\ writes' = writes /\ R!Busy
  BY DEF R!executeCommand, R!Receive, R!Busy
<1>2. wire \in Seq(R!Packets) /\ Wire /\ Course /\ RconDue(wire, n, srv.sent)
  BY <1>1 DEF RconIInv, R!TypeOK
<1>3. /\ wire' \in Seq(R!Packets) /\ p = wire[1] /\ p \in R!Packets /\ 1 \in 1..Len(wire)
      /\ n \in Nat /\ srv.sent \in Nat /\ srv.sent <= MaxChunks /\ n <= srv.sent
  BY <1>1, <1>2, TailElements, BoundAssumption DEF RconIInv, R!TypeOK
<1>4. /\ p.body = R!Log => RconDue(wire', n, srv.sent)
      /\ p.body # R!Log => p.body = n + 1 /\ n + 1 <= srv.sent /\ RconDue(wire', n + 1, srv.sent)
  BY <1>1, <1>2, <1>3, RconDueHead
<1>5. Fits(wire, 1, pc, srv.announced) /\ OnlyPushed(wire, 1, srv)
      /\ (pc = "follow" => wire[1].body # R!Log)
  BY <1>1, <1>2, <1>3 DEF Wire, Shape
<1>6. CASE p.type = "four"
  <2>1. p.body = R!Log /\ pc = "read"
    BY <1>1, <1>3, <1>5, <1>6 DEF Fits
  <2>2. pc' = "follow" /\ result' = result /\ output' = output /\ readAny' = readAny
    BY <1>6, <2>1 DEF R!executeCommand, R!Goto
  <2>3. R!TypeOK'
    BY <1>1, <1>3, <2>2, TypedNext DEF RconIInv, R!TypeOK
  <2>4. Wire'
    BY <1>1, <1>6, <2>2, WireTail
  <2>5. Course' /\ Outcome'
    BY <1>1, <1>2, <2>2 DEF Course, Outcome, RconIInv
  <2> QED  BY <1>1, <1>4, <2>1, <2>2, <2>3, <2>4, <2>5 DEF RconIInv
<1>7. CASE p.type # "four" /\ p.body # R!Log
  <2>1. p.id \in {ExecID, R!Refused} /\ (p.id = R!Refused => pc = "follow")
    BY <1>3, <1>5, <1>7 DEF Fits
  <2>2. output' = Append(output, n + 1) /\ readAny' = TRUE /\ pc' = "read" /\ result' = result
    BY <1>4, <1>7, <2>1 DEF R!executeCommand, R!Take, R!Goto
  <2>3. output = RconOnes(n) /\ output \in Seq(1..MaxChunks) /\ n + 1 <= MaxChunks
    BY <1>3, <1>4, <1>7, BoundAssumption DEF RconIInv, R!TypeOK
  <2>4. output' = RconOnes(n + 1) /\ output' \in Seq(1..MaxChunks) /\ Len(output') = n + 1
    BY <1>3, <2>2, <2>3, OnesAppend
  <2>5. R!TypeOK'
    BY <1>1, <1>3, <2>2, <2>4, TypedNext DEF RconIInv, R!TypeOK
  <2>6. Wire'
    BY <1>1, <1>7, <2>2, WireTail
  <2>7. Course' /\ Outcome'
    BY <1>1, <1>2, <2>2 DEF Course, Outcome, RconIInv
  <2> QED  BY <1>1, <1>4, <1>7, <2>2, <2>4, <2>5, <2>6, <2>7 DEF RconIInv
<1>8. CASE p.type # "four" /\ p.body = R!Log
  <2>1. p.id = R!Foreign /\ srv.pushed /\ R!Foreign # ExecID /\ R!Foreign # R!Refused
    BY <1>3, <1>5, <1>8, PacketAssumption DEF OnlyPushed, Pushed, Foreign, R!Foreign, R!Refused
  <2>2. /\ output' = output /\ readAny' = readAny /\ pc' = "done" /\ result' \in {"ok", "error"}
    BY <1>8, <2>1 DEF R!executeCommand, R!Take, R!Return
  <2>3. writes = 1 /\ srv.pushed # FALSE
    BY <1>1, <1>2, <2>1 DEF Course
  <2> QED  BY <1>1, <1>3, <1>4, <1>8, <2>2, <2>3, DoneIInv
<1> QED  BY <1>6, <1>7, <1>8

(* The server answers the log-in: nothing but the answer waits.             *)
LEMMA JudgeIInv ==
  ASSUME RconIInv, NEW granted \in BOOLEAN, NEW pre \in {<<>>, <<R!Packet("value", AuthID, R!Log)>>},
         NEW type \in {"auth", "value"}, NEW id \in {AuthID, R!Foreign, R!Refused},
         R!Judge(granted, pre, type, id)
  PROVE  RconIInv'
<1> DEFINE x == R!Packet(type, id, R!Log)
           t == pre \o <<x>>
<1>1. /\ pc' = pc /\ checked' = checked /\ gone' = gone /\ output' = output /\ result' = result
      /\ barred' = barred /\ writes' = writes /\ readAny' = readAny /\ R!Busy
      /\ srv.login = "asked" /\ wire' = wire \o t /\ (id = R!Refused <=> granted = FALSE)
      /\ srv' = [srv EXCEPT !.login = IF granted THEN "granted" ELSE "refused"]
  BY DEF R!Judge, R!Send
<1>2. wire \in Seq(R!Packets) /\ Wire /\ Course /\ srv \in Servers /\ wire = <<>>
  BY <1>1 DEF RconIInv, R!TypeOK, Wire
<1>3. /\ writes = 0 /\ srv.sent = 0 /\ srv.announced = FALSE /\ srv.pushed = FALSE
      /\ pc \in {"reply", "reply2"} /\ Len(output) = 0 /\ barred # TRUE
  <2>1. writes = 0 /\ writes \in 0..1 /\ Len(output) \in Nat /\ Len(output) <= srv.sent
    BY <1>1, <1>2 DEF RconIInv, R!TypeOK, Course
  <2>2. srv.sent = 0 /\ srv.announced = FALSE /\ srv.pushed = FALSE
    BY <1>1, <1>2, <2>1 DEF Course
  <2>3. pc \in {"reply", "reply2"} /\ barred # TRUE
    BY <1>1, <1>2 DEF Course, R!Busy, RconIInv, R!TypeOK
  <2>4. Len(output) = 0
    BY <2>1, <2>2
  <2> QED  BY <2>1, <2>2, <2>3, <2>4
<1>4. /\ srv' \in Servers /\ srv'.sent = 0 /\ srv'.announced = FALSE /\ srv'.pushed = FALSE
      /\ srv'.login \in {"granted", "refused"}
      /\ id # R!Refused => srv'.login = "granted"
  BY <1>1, <1>2, <1>3 DEF Servers
<1>5. x \in R!Packets /\ x.body = R!Log /\ x.type = type /\ x.id = id /\ R!Log \in 0..MaxChunks
  BY BoundAssumption DEF R!Packet, R!Packets, R!Log
<1>6. /\ pre \in Seq(R!Packets) /\ Len(pre) \in Nat
      /\ \A i \in 1..Len(pre) : pre[i].body = R!Log /\ pre[i].type = "value"
  <2> DEFINE v == R!Packet("value", AuthID, R!Log)
  <2>1. v \in R!Packets /\ v.body = R!Log /\ v.type = "value"
    BY <1>5 DEF R!Packet, R!Packets
  <2> HIDE DEF v
  <2>2. CASE pre = <<>>
    BY <2>2
  <2>3. CASE pre = <<v>>
    BY <2>1, <2>3
  <2> QED  BY <2>2, <2>3 DEF v
<1> HIDE DEF x
<1>7. /\ t \in Seq(R!Packets) /\ Len(t) = Len(pre) + 1 /\ Len(t) \in Nat /\ t # <<>> /\ t[Len(t)] = x
      /\ \A i \in 1..Len(t) : i = Len(t) \/ (t[i].body = R!Log /\ t[i].type = "value")
  <2>1. /\ t \in Seq(R!Packets) /\ Len(t) = Len(pre) + 1 /\ t # <<>> /\ t[Len(pre) + 1] = x
        /\ \A i \in 1..Len(pre) : t[i] = pre[i]
        /\ \A i \in 1..(Len(pre) + 1) : i \in 1..Len(pre) \/ i = Len(pre) + 1
    BY <1>5, <1>6, AppendElements
  <2> HIDE DEF t
  <2> QED  BY <1>6, <2>1
<1>8. wire' = t
  BY <1>1, <1>2, <1>7, ConcatEmptySeq
<1> HIDE DEF t
<1>9. \A i \in 1..Len(t) : t[i].body = R!Log /\ t[i].type # "four"
  BY <1>5, <1>7
<1>10. RconDue(wire', Len(output'), srv'.sent)
  BY <1>1, <1>3, <1>4, <1>8, <1>9 DEF RconDue
<1>11. Shape(wire', pc', srv'.announced)
  BY <1>1, <1>3, <1>4, <1>8, <1>9 DEF Shape, Fits
<1>12. ASSUME NEW i \in 1..Len(t), t[i].type = "auth"
       PROVE  /\ t[i].id # R!Refused => srv'.login = "granted"
              /\ \A j \in 1..Len(t) : ~(i < j)
  <2>1. i = Len(t)
    BY <1>7, <1>12
  <2> QED  BY <1>4, <1>5, <1>7, <2>1
<1>13. Wire'
  BY <1>1, <1>3, <1>4, <1>8, <1>11, <1>12 DEF Wire
<1>14. R!TypeOK'
  BY <1>1, <1>4, <1>7, <1>8, TypedNext DEF RconIInv, R!TypeOK
<1>15. Course' /\ Outcome'
  BY <1>1, <1>3, <1>4 DEF RconIInv, Course, Outcome
<1> QED  BY <1>1, <1>3, <1>4, <1>10, <1>13, <1>14, <1>15 DEF RconIInv

(* A packet of a server that has granted the log-in.                        *)
LEMMA ArrivesIInv ==
  ASSUME RconIInv, NEW x \in R!Packets, NEW server \in Servers, R!Send(<<x>>, server),
         srv.login = "granted", server.login = "granted", x.type # "auth",
         writes = 0 => server.sent = 0 /\ server.announced = FALSE,
         srv.pushed = TRUE => server.pushed = TRUE,
         x.type = "four" \/ x.body # R!Log \/ (Pushed(x) /\ server.pushed = TRUE),
         \/ x.body = R!Log /\ server.sent = srv.sent
         \/ x.body = srv.sent + 1 /\ server.sent = srv.sent + 1,
         \/ /\ x.body = R!Log /\ srv.announced # TRUE
            /\ server.announced = TRUE <=> x.type = "four"
         \/ /\ x.body # R!Log /\ x.type = "value" /\ server.announced = FALSE
            /\ x.id = R!Refused => srv.announced = TRUE
            /\ x.id \in {ExecID, R!Refused}
  PROVE  RconIInv'
<1> DEFINE t == wire \o <<x>>
<1>1. /\ pc' = pc /\ checked' = checked /\ gone' = gone /\ output' = output /\ result' = result
      /\ barred' = barred /\ writes' = writes /\ readAny' = readAny /\ R!Busy
      /\ wire' = t /\ srv' = server
  BY DEF R!Send
<1>2. wire \in Seq(R!Packets) /\ Wire /\ Course /\ srv \in Servers
  BY <1>1 DEF RconIInv, R!TypeOK
<1>3. /\ t \in Seq(R!Packets) /\ Len(t) = Len(wire) + 1 /\ Len(wire) \in Nat /\ t[Len(wire) + 1] = x
      /\ \A i \in 1..Len(wire) : t[i] = wire[i]
      /\ \A i \in 1..(Len(wire) + 1) : i \in 1..Len(wire) \/ i = Len(wire) + 1
  BY <1>2, AppendElements
<1>4. RconDue(t, Len(output), server.sent)
  <2>1. Len(output) \in Nat /\ srv.sent \in Nat /\ server.sent \in Nat /\ Len(output) <= srv.sent
        /\ RconDue(wire, Len(output), srv.sent)
    BY <1>2, BoundAssumption DEF RconIInv, R!TypeOK, Servers
  <2> QED  BY <1>2, <2>1, RconDueAppend
<1>5. Shape(t, pc, server.announced)
  <2>1. server.announced \in BOOLEAN /\ Shape(wire, pc, srv.announced)
    BY <1>2 DEF Servers, Wire
  <2> QED  BY <1>2, <2>1, ShapeAppend
<1> HIDE DEF t
<1>6. OnlyPushed(t, Len(wire) + 1, server)
  BY <1>3 DEF OnlyPushed
<1>7. ASSUME NEW i \in 1..Len(wire), OnlyPushed(wire, i, srv) PROVE OnlyPushed(t, i, server)
  BY <1>2, <1>3, <1>7 DEF OnlyPushed, Servers
<1>8. pc \in {"exec", "read", "follow"} => \A i \in 1..Len(t) : OnlyPushed(t, i, server)
  BY <1>2, <1>3, <1>6, <1>7 DEF Wire
<1>9. ASSUME NEW i \in 1..Len(t), t[i].type = "auth", NEW j \in 1..Len(t), i < j
      PROVE  OnlyPushed(t, j, server)
  <2>1. i \in 1..Len(wire) /\ wire[i].type = "auth"
    BY <1>3, <1>9
  <2>2. j \in 1..Len(wire) => OnlyPushed(wire, j, srv)
    BY <1>2, <1>9, <2>1 DEF Wire
  <2> QED  BY <1>3, <1>6, <1>7, <2>2
<1>10. Wire'
  BY <1>1, <1>5, <1>8, <1>9 DEF Wire
<1>11. R!TypeOK'
  BY <1>1, <1>3, TypedNext DEF RconIInv, R!TypeOK
<1>12. Course' /\ Outcome'
  BY <1>1, <1>2 DEF RconIInv, Course, Outcome, R!Busy
<1>13. Len(output') <= srv'.sent /\ output' = RconOnes(Len(output')) /\ srv' \in Servers
  BY <1>1, BoundAssumption DEF RconIInv, Servers, R!TypeOK
<1> QED  BY <1>1, <1>4, <1>10, <1>11, <1>12, <1>13 DEF RconIInv

(* The server answers, pushes its line or closes the connection.            *)
LEMMA RconServerIInv ==
  ASSUME RconIInv, R!Server
  PROVE  RconIInv'
<1>1. srv \in Servers /\ srv.sent \in Nat /\ MaxChunks \in Nat /\ R!Log = 0 /\ writes \in 0..1
  BY BoundAssumption DEF RconIInv, Servers, R!TypeOK, R!Log
<1>2. CASE R!Announce
  <2> DEFINE x == R!Packet("four", ExecID, R!Log)
             server == [srv EXCEPT !.announced = TRUE]
  <2>1. x \in R!Packets /\ x.type = "four" /\ x.body = R!Log
    BY <1>1 DEF R!Packet, R!Packets
  <2>2. server \in Servers /\ server.login = srv.login /\ server.sent = srv.sent
        /\ server.announced = TRUE /\ server.pushed = srv.pushed
    BY <1>1 DEF Servers
  <2>3. ~srv.announced /\ srv.login = "granted" /\ writes > 0
    BY <1>2 DEF R!Announce, R!Answering
  <2>4. R!Send(<<x>>, server)
    BY <1>2 DEF R!Announce
  <2>5. srv.announced # TRUE
    BY <1>1, <2>3 DEF Servers
  <2>6. writes # 0
    BY <2>3
  <2> HIDE DEF x, server
  <2> QED  BY <2>1, <2>2, <2>3, <2>4, <2>5, <2>6, ArrivesIInv
<1>3. ASSUME NEW id \in {ExecID, R!Refused}, R!SendChunk(id) PROVE RconIInv'
  <2> DEFINE x == R!Packet("value", id, srv.sent + 1)
             server == [srv EXCEPT !.sent = @ + 1, !.announced = FALSE]
  <2>1. srv.sent + 1 \in 0..MaxChunks /\ srv.sent + 1 # R!Log
    BY <1>1, <1>3 DEF R!SendChunk, R!Answering
  <2>2. x \in R!Packets /\ x.type = "value" /\ x.body = srv.sent + 1 /\ x.id = id
    BY <2>1 DEF R!Packet, R!Packets
  <2>3. server \in Servers /\ server.login = srv.login /\ server.sent = srv.sent + 1
        /\ server.announced = FALSE /\ server.pushed = srv.pushed
    BY <1>1, <2>1 DEF Servers
  <2>4. /\ R!Send(<<x>>, server) /\ srv.login = "granted" /\ writes # 0
        /\ id = R!Refused => srv.announced = TRUE
    BY <1>1, <1>3 DEF R!SendChunk, R!Answering, Servers
  <2> HIDE DEF x, server
  <2> QED  BY <2>1, <2>2, <2>3, <2>4, ArrivesIInv
<1>4. CASE R!PushLog
  <2> DEFINE x == R!Packet("value", R!Foreign, R!Log)
             server == [srv EXCEPT !.pushed = TRUE]
  <2>1. x \in R!Packets /\ Pushed(x) /\ x.type = "value" /\ x.body = R!Log
    BY <1>1 DEF R!Packet, R!Packets, Pushed
  <2>2. server \in Servers /\ server.login = srv.login /\ server.sent = srv.sent
        /\ server.announced = srv.announced /\ server.pushed = TRUE
    BY <1>1 DEF Servers
  <2>3. R!Send(<<x>>, server) /\ srv.login = "granted" /\ srv.announced # TRUE
    BY <1>4 DEF R!PushLog
  <2>4. writes = 0 => server.sent = 0 /\ server.announced = FALSE
    BY <2>2 DEF RconIInv, Course
  <2> HIDE DEF x, server
  <2> QED  BY <2>1, <2>2, <2>3, <2>4, ArrivesIInv
<1>5. CASE R!Close
  <2>1. /\ pc' = pc /\ checked' = checked /\ gone' = gone /\ output' = output /\ result' = result
        /\ barred' = barred /\ writes' = writes /\ readAny' = readAny /\ R!Busy
        /\ wire' = wire \o <<>> /\ srv' = [srv EXCEPT !.closed = TRUE]
    BY <1>5 DEF R!Close, R!Send
  <2>2. wire \in Seq(R!Packets) /\ Wire /\ Course /\ wire' = wire
    BY <2>1, ConcatEmptySeq DEF RconIInv, R!TypeOK
  <2>3. srv' \in Servers /\ srv'.login = srv.login /\ srv'.sent = srv.sent
        /\ srv'.announced = srv.announced /\ srv'.pushed = srv.pushed
    BY <1>1, <2>1 DEF Servers
  <2>4. R!TypeOK'
    BY <2>1, <2>2, <2>3, TypedNext DEF RconIInv, R!TypeOK
  <2>5. Wire'
    BY <2>1, <2>2, <2>3 DEF Wire, OnlyPushed
  <2>6. Course' /\ Outcome'
    BY <2>1, <2>2, <2>3 DEF RconIInv, Course, Outcome
  <2> QED  BY <2>1, <2>2, <2>3, <2>4, <2>5, <2>6 DEF RconIInv
<1> QED  BY <1>2, <1>3, <1>4, <1>5, JudgeIInv DEF R!Server

(* Every step keeps the invariant.                                          *)
LEMMA RconNextIInv == RconIInv /\ [R!Next]_(R!vars) => RconIInv'
<1> SUFFICES ASSUME RconIInv, [R!Next]_(R!vars) PROVE RconIInv'
  OBVIOUS
<1>1. CASE UNCHANGED R!vars
  BY <1>1 DEF R!vars, RconIInv, R!TypeOK, Course, Wire, OnlyPushed, Outcome, R!Busy
<1>2. CASE \E cancelled, valid \in BOOLEAN : R!Execute(cancelled, valid)
  BY <1>2, RconExecuteIInv
<1>3. CASE R!Dial \/ R!CheckContext \/ R!writePacket \/ R!EndOfResponse \/ R!Fails \/ R!Cancel
  BY <1>3, RconControlIInv
<1> QED  BY <1>1, <1>2, <1>3, AuthenticateIInv, RconReadIInv, RconServerIInv DEF R!Next, R!Step

(* IInv is an invariant of the RCON client and its server.                  *)
THEOREM RconInductive == R!Spec => []RconIInv
  BY RconInitIInv, RconNextIInv, PTL DEF R!Spec

-----------------------------------------------------------------------------
(* Rcon: what follows                                                       *)

(* The output is the reply when the invariant holds.                         *)
LEMMA RconOutput == RconIInv => R!OutputIsReply
<1> SUFFICES ASSUME RconIInv, result = "ok" PROVE R!OutputIsReply
  BY DEF R!OutputIsReply
<1>1. output = RconOnes(Len(output)) /\ Len(output) <= srv.sent
      /\ (srv.pushed = FALSE => Len(output) = srv.sent) /\ srv.pushed \in BOOLEAN
  BY DEF RconIInv, Outcome, Servers
<1> QED  BY <1>1 DEF R!OutputIsReply, RconOnes

-----------------------------------------------------------------------------
(* Rcon implements ConsoleCall                                              *)

(* Every step is a step of the interface, or changes nothing it shows.      *)
LEMMA RconNextMaps == RconIInv /\ [R!Next]_(R!vars) => [R!Call!Next]_(R!Call!consoleCall)
<1> SUFFICES ASSUME RconIInv, [R!Next]_(R!vars) PROVE [R!Call!Next]_(R!Call!consoleCall)
  OBVIOUS
<1>1. pc # "idle" /\ ~R!Busy => result # "none"
  BY DEF RconIInv, Outcome, R!Busy
<1>2. ASSUME NEW cancelled \in BOOLEAN, NEW valid \in BOOLEAN, R!Execute(cancelled, valid)
      PROVE  R!Call!Start
  BY <1>1, <1>2 DEF R!Execute, R!Connect, R!Return, R!Call!Start, R!Busy, RconIInv, R!TypeOK
<1>3. CASE R!writePacket
  <2>1. CASE pc = "exec"
    <3>1. writes = 0 /\ ~barred
      BY <2>1 DEF RconIInv, Course
    <3>2. writes' = writes + 1 /\ pc' = "read" /\ barred' = barred
      BY <1>3, <2>1 DEF R!writePacket, R!Goto
    <3>3. writes' = 1
      BY <3>1, <3>2
    <3> QED  BY <2>1, <3>1, <3>2, <3>3 DEF R!Call!Next, R!Call!Write, R!Busy
  <2>2. CASE pc = "login"
    BY <1>3, <2>2 DEF R!writePacket, R!Goto, R!Call!consoleCall, R!Busy
  <2> QED  BY <1>3, <2>1, <2>2 DEF R!writePacket
<1>4. CASE R!Fails
  BY <1>4 DEF R!Fails, R!Return, R!Call!Next, R!Call!Fail, R!Busy
<1>5. CASE R!CheckContext
  BY <1>5 DEF R!CheckContext, R!Return, R!Call!Next, R!Call!Fail, R!Call!consoleCall, R!Busy
<1>6. CASE R!authenticate
  BY <1>6 DEF R!authenticate, R!Receive, R!Goto, R!Return, R!Call!Next, R!Call!Fail, R!Call!consoleCall, R!Busy
<1>7. CASE R!executeCommand \/ R!EndOfResponse
  <2>1. R!Busy /\ writes' = writes /\ barred' = barred /\ (pc \in {"read", "follow"} => writes = 1)
    BY <1>7 DEF R!executeCommand, R!EndOfResponse, R!Receive, R!Busy, RconIInv, Course
  <2>2. CASE R!Busy'
    BY <2>1, <2>2 DEF R!Call!consoleCall, R!Busy
  <2>3. CASE ~R!Busy'
    <3>1. /\ pc' = "done" /\ result' \in {"ok", "error"}
          /\ result' = "ok" => pc \in {"read", "follow"}
      BY <1>7, <2>3 DEF R!executeCommand, R!EndOfResponse, R!Take, R!Goto, R!Return, R!Busy
    <3> QED  BY <2>1, <2>3, <3>1 DEF R!Call!Next, R!Call!Succeed, R!Call!Fail, R!Busy
  <2> QED  BY <2>2, <2>3
<1>8. CASE R!Dial \/ R!Cancel \/ R!Server
  <2>1. writes' = writes /\ barred' = barred /\ result' = result /\ R!Busy /\ R!Busy'
    BY <1>8 DEF R!Dial, R!Cancel, R!Server, R!Judge, R!Announce, R!SendChunk, R!PushLog, R!Close, R!Send, R!Goto, R!Busy
  <2> QED  BY <2>1 DEF R!Call!consoleCall, R!Busy
<1>9. CASE UNCHANGED R!vars
  BY <1>9 DEF R!vars, R!Call!consoleCall, R!Busy
<1> QED  BY <1>2, <1>3, <1>4, <1>5, <1>6, <1>7, <1>8, <1>9 DEF R!Next, R!Step, R!Call!Next

(* The RCON client keeps what the dispatcher relies on.                     *)
THEOREM RconKeepsItsPromise == R!Spec => R!ImplementsConsoleCall
<1>1. R!Init => R!Call!Init
  BY DEF R!Init, R!Call!Init
<1> QED  BY <1>1, RconNextMaps, RconInductive, PTL DEF R!Spec, R!ImplementsConsoleCall, R!Call!Spec

-----------------------------------------------------------------------------
(* Telnet: what is on the wire                                              *)

(* The lines that have arrived hold the chunks after those read, up to the  *)
(* last one sent, in order and among any chatter.                           *)
TelnetDue(s, read, sent) ==
  /\ \A i \in 1..Len(s) : s[i] # T!Chatter => s[i] \in (read + 1)..sent
  /\ \A i, j \in 1..Len(s) : i < j /\ s[i] # T!Chatter /\ s[j] # T!Chatter => s[i] < s[j]
  /\ \A m \in (read + 1)..sent : \E i \in 1..Len(s) : s[i] = m

(* The line read next is chatter or the next chunk.                         *)
LEMMA TelnetDueHead ==
  ASSUME NEW s \in Seq(Nat), s # <<>>, NEW n \in Nat, NEW k \in Nat, TelnetDue(s, n, k)
  PROVE  /\ Head(s) = T!Chatter => TelnetDue(Tail(s), n, k)
         /\ Head(s) # T!Chatter => Head(s) = n + 1 /\ n + 1 <= k /\ TelnetDue(Tail(s), n + 1, k)
<1> DEFINE t == Tail(s)
<1>1. /\ t \in Seq(Nat) /\ Len(t) = Len(s) - 1 /\ Head(s) = s[1] /\ Head(s) \in Nat
      /\ \A i \in 1..Len(t) : t[i] = s[i + 1]
      /\ Len(s) \in Nat \ {0}
  BY HeadTailProperties, EmptySeq
<1> HIDE DEF t
<1>2. \A i \in 1..Len(t) : i + 1 \in 1..Len(s)
  BY <1>1
<1>3. ASSUME NEW i \in 1..Len(t), NEW j \in 1..Len(t), i < j, t[i] # T!Chatter, t[j] # T!Chatter
      PROVE  t[i] < t[j]
  <2>1. i + 1 \in 1..Len(s) /\ j + 1 \in 1..Len(s)
    BY <1>2
  <2>2. i + 1 < j + 1
    <3>1. i \in Int /\ j \in Int
      OBVIOUS
    <3> QED  BY <1>3, <3>1
  <2>3. t[i] = s[i + 1] /\ t[j] = s[j + 1]
    BY <1>1
  <2> QED  BY <1>3, <2>1, <2>2, <2>3 DEF TelnetDue
<1>4. ASSUME NEW i \in 1..Len(s), i # 1 PROVE i - 1 \in 1..Len(t) /\ t[i - 1] = s[i]
  BY <1>1, <1>4
<1>5. CASE Head(s) = T!Chatter
  <2>1. \A i \in 1..Len(t) : t[i] # T!Chatter => t[i] \in (n + 1)..k
    BY <1>1, <1>2 DEF TelnetDue
  <2>2. ASSUME NEW m \in (n + 1)..k PROVE \E i \in 1..Len(t) : t[i] = m
    <3>1. PICK i \in 1..Len(s) : s[i] = m
      BY DEF TelnetDue
    <3>2. i # 1
      BY <1>1, <1>5, <3>1 DEF T!Chatter
    <3> QED  BY <1>4, <3>1, <3>2
  <2> QED  BY <1>1, <1>3, <1>5, <2>1, <2>2 DEF TelnetDue, t
<1>6. CASE Head(s) # T!Chatter
  <2>1. s[1] \in (n + 1)..k /\ 1 \in 1..Len(s)
    BY <1>1, <1>6 DEF TelnetDue
  <2>2. s[1] = n + 1
    <3>1. n + 1 \in (n + 1)..k
      BY <2>1
    <3>2. PICK i \in 1..Len(s) : s[i] = n + 1
      BY <3>1 DEF TelnetDue
    <3>3. i # 1 => s[1] < s[i]
      <4> SUFFICES ASSUME i # 1 PROVE s[1] < s[i]
        OBVIOUS
      <4>1. 1 < i /\ s[1] # T!Chatter /\ s[i] # T!Chatter
        BY <1>1, <1>6, <3>2 DEF T!Chatter
      <4> QED  BY <2>1, <4>1 DEF TelnetDue
    <3> QED  BY <2>1, <3>2, <3>3
  <2>3. ASSUME NEW i \in 1..Len(t), t[i] # T!Chatter PROVE t[i] \in (n + 2)..k
    <3>1. i + 1 \in 1..Len(s) /\ t[i] = s[i + 1] /\ 1 < i + 1
      BY <1>1, <1>2
    <3>2. s[i + 1] \in (n + 1)..k /\ s[1] < s[i + 1]
      BY <1>1, <1>6, <2>1, <2>3, <3>1 DEF TelnetDue
    <3> QED  BY <2>2, <3>1, <3>2
  <2>4. ASSUME NEW m \in (n + 2)..k PROVE \E i \in 1..Len(t) : t[i] = m
    <3>1. m \in (n + 1)..k
      OBVIOUS
    <3>2. PICK i \in 1..Len(s) : s[i] = m
      BY <3>1 DEF TelnetDue
    <3>3. i # 1
      BY <2>2, <3>2
    <3> QED  BY <1>4, <3>2, <3>3
  <2> QED  BY <1>1, <1>3, <1>6, <2>1, <2>2, <2>3, <2>4 DEF TelnetDue, t
<1> QED  BY <1>5, <1>6

(* A line arrives at the end: chatter, or the chunk after the last.         *)
LEMMA TelnetDueAppend ==
  ASSUME NEW s \in Seq(Nat), NEW n \in Nat, NEW k \in Nat, n <= k, TelnetDue(s, n, k),
         NEW x \in Nat, NEW l \in Nat,
         \/ x = T!Chatter /\ l = k
         \/ x = k + 1 /\ l = k + 1
  PROVE  TelnetDue(Append(s, x), n, l)
<1> DEFINE t == Append(s, x)
<1>1. /\ Len(t) = Len(s) + 1 /\ Len(s) \in Nat /\ t[Len(s) + 1] = x
      /\ \A i \in 1..Len(s) : t[i] = s[i]
  BY AppendProperties
<1> HIDE DEF t
<1>2. \A i \in 1..Len(t) : i \in 1..Len(s) \/ i = Len(s) + 1
  BY <1>1
<1>3. \A i \in 1..Len(t) : t[i] # T!Chatter => t[i] \in (n + 1)..l
  BY <1>1, <1>2 DEF TelnetDue
<1>4. ASSUME NEW i \in 1..Len(t), NEW j \in 1..Len(t), i < j, t[i] # T!Chatter, t[j] # T!Chatter
      PROVE  t[i] < t[j]
  <2>1. i \in 1..Len(s) /\ t[i] = s[i] /\ s[i] \in (n + 1)..k
    BY <1>1, <1>2, <1>4 DEF TelnetDue
  <2>2. CASE j \in 1..Len(s)
    BY <1>1, <1>4, <2>1, <2>2 DEF TelnetDue
  <2>3. CASE j = Len(s) + 1
    BY <1>1, <1>4, <2>1, <2>3
  <2> QED  BY <1>2, <2>2, <2>3
<1>5. ASSUME NEW m \in (n + 1)..l PROVE \E i \in 1..Len(t) : t[i] = m
  <2>1. CASE m \in (n + 1)..k
    <3>1. PICK i \in 1..Len(s) : s[i] = m
      BY <2>1 DEF TelnetDue
    <3> QED  BY <1>1, <3>1
  <2>2. CASE m = k + 1
    BY <1>1, <2>2
  <2> QED  BY <2>1, <2>2
<1> QED  BY <1>3, <1>4, <1>5 DEF TelnetDue, t

-----------------------------------------------------------------------------
(* Telnet: the inductive invariant                                          *)

TelnetOnes(n) == [i \in 1..n |-> i]

(* What was read is the beginning of the reply and the rest is on its way;  *)
(* nothing of it was sent before the command was written.                   *)
TelnetIInv ==
  /\ T!TypeOK
  /\ srv \in [sent : 0..MaxChunks, quiet : BOOLEAN, closed : BOOLEAN]
  /\ output = TelnetOnes(Len(output)) /\ Len(output) <= srv.sent
  /\ TelnetDue(wire, Len(output), srv.sent)
  /\ pc \notin {"read", "done"} => writes = 0
  /\ writes = 0 => srv.sent = 0
  /\ pc = "read" => writes = 1
  /\ pc # "done" => result = "none"
  /\ pc = "done" => result \in {"ok", "error"}
  /\ result = "ok" => writes = 1 /\ Len(output) = srv.sent
  /\ barred => pc = "done" /\ writes = 0

(* Nothing is due on an empty wire when nothing was sent.                   *)
LEMMA NothingDue == TelnetDue(<<>>, 0, 0) /\ <<>> = TelnetOnes(0) /\ <<>> \in Seq(Nat)
  BY DEF TelnetDue, TelnetOnes

(* The invariant holds before the first call.                               *)
LEMMA TelnetInitIInv == T!Init => TelnetIInv
<1> SUFFICES ASSUME T!Init PROVE TelnetIInv
  OBVIOUS
<1>1. /\ pc = "idle" /\ checked = FALSE /\ gone = FALSE /\ output = <<>> /\ result = "none"
      /\ wire = <<>> /\ srv = T!NewServer /\ barred = FALSE /\ writes = 0
  BY DEF T!Init
<1>2. srv.sent = 0 /\ srv.quiet = FALSE /\ srv.closed = FALSE
      /\ srv \in [sent : 0..MaxChunks, quiet : BOOLEAN, closed : BOOLEAN]
  BY <1>1, BoundAssumption DEF T!NewServer
<1>3. Len(<<>>) = 0 /\ \A S : <<>> \in Seq(S)
  OBVIOUS
<1>4. T!TypeOK
  <2>1. /\ checked \in BOOLEAN /\ gone \in BOOLEAN /\ barred \in BOOLEAN
        /\ srv.quiet \in BOOLEAN /\ srv.closed \in BOOLEAN
    BY <1>1, <1>2
  <2>2. {checked, gone, barred, srv.quiet, srv.closed} \subseteq BOOLEAN
    BY <2>1
  <2>3. /\ pc \in {"dial", "idle", "done"} /\ result \in {"none", "error"}
        /\ writes \in 0..1 /\ srv.sent \in 0..MaxChunks
        /\ output \in Seq(1..MaxChunks) /\ wire \in Seq(0..MaxChunks) /\ Len(wire) <= MaxWire
    BY <1>1, <1>2, <1>3, BoundAssumption
  <2> QED  BY <2>2, <2>3 DEF T!TypeOK
<1> QED  BY <1>1, <1>2, <1>3, <1>4, NothingDue DEF TelnetIInv

(* A call begins.                                                           *)
LEMMA TelnetExecuteIInv ==
  ASSUME TelnetIInv, NEW cancelled \in BOOLEAN, T!Execute(cancelled)
  PROVE  TelnetIInv'
<1>1. /\ checked' = FALSE /\ output' = <<>> /\ wire' = <<>> /\ srv' = T!NewServer /\ writes' = 0
      /\ gone' = cancelled /\ barred' = cancelled
      /\ IF cancelled THEN pc' = "done" /\ result' = "error"
         ELSE pc' = "dial" /\ result' = "none"
  BY DEF T!Execute, T!Connect, T!Return
<1>2. srv'.sent = 0 /\ srv'.quiet = FALSE /\ srv'.closed = FALSE
      /\ srv' \in [sent : 0..MaxChunks, quiet : BOOLEAN, closed : BOOLEAN]
  BY <1>1, BoundAssumption DEF T!NewServer
<1>3. Len(<<>>) = 0 /\ \A S : <<>> \in Seq(S)
  OBVIOUS
<1>4. T!TypeOK'
  <2>1. /\ checked' \in BOOLEAN /\ gone' \in BOOLEAN /\ barred' \in BOOLEAN
        /\ srv'.quiet \in BOOLEAN /\ srv'.closed \in BOOLEAN
    BY <1>1, <1>2
  <2>2. {checked, gone, barred, srv.quiet, srv.closed}' \subseteq BOOLEAN
    BY <2>1
  <2>3. /\ pc' \in {"dial", "idle", "done"} /\ result' \in {"none", "error"}
        /\ writes' \in 0..1 /\ srv'.sent \in 0..MaxChunks
        /\ output' \in Seq(1..MaxChunks) /\ wire' \in Seq(0..MaxChunks) /\ Len(wire') <= MaxWire
    BY <1>1, <1>2, <1>3, BoundAssumption
  <2> QED  BY <2>2, <2>3 DEF T!TypeOK
<1> QED  BY <1>1, <1>2, <1>3, <1>4, NothingDue DEF TelnetIInv

(* A line is drained or read: only one that is read may be a chunk.         *)
LEMMA TelnetReadIInv ==
  ASSUME TelnetIInv, T!Drain \/ T!ReadOutput
  PROVE  TelnetIInv'
<1> DEFINE n == Len(output)
           k == srv.sent
<1>1. /\ wire # <<>> /\ wire' = Tail(wire) /\ pc' = pc /\ gone' = gone /\ result' = result
      /\ srv' = srv /\ barred' = barred /\ writes' = writes /\ checked' \in BOOLEAN
  BY DEF T!Drain, T!ReadOutput, TelnetIInv, T!TypeOK
<1>2. wire \in Seq(0..MaxChunks) /\ wire \in Seq(Nat) /\ output \in Seq(1..MaxChunks)
      /\ n \in Nat /\ k \in Nat /\ k <= MaxChunks /\ output = TelnetOnes(n) /\ TelnetDue(wire, n, k)
  <2>1. wire \in Seq(0..MaxChunks) /\ 0..MaxChunks \subseteq Nat
    BY BoundAssumption DEF TelnetIInv, T!TypeOK
  <2> QED  BY <2>1, SeqMonotonic, BoundAssumption DEF TelnetIInv, T!TypeOK
<1>3. /\ Head(wire) = T!Chatter => TelnetDue(wire', n, k)
      /\ Head(wire) # T!Chatter => Head(wire) = n + 1 /\ n + 1 <= k /\ TelnetDue(wire', n + 1, k)
  BY <1>1, <1>2, TelnetDueHead
<1>4. wire' \in Seq(0..MaxChunks) /\ Len(wire') <= MaxWire
  <2>1. Len(wire') = Len(wire) - 1 /\ Len(wire) \in Nat /\ wire' \in Seq(0..MaxChunks)
    BY <1>1, <1>2, HeadTailProperties
  <2> QED  BY <2>1, BoundAssumption DEF TelnetIInv, T!TypeOK
<1>5. CASE Head(wire) = T!Chatter
  <2>1. output' = output
    BY <1>5 DEF T!Drain, T!ReadOutput
  <2>2. T!TypeOK'
    BY <1>1, <1>4, <2>1 DEF TelnetIInv, T!TypeOK
  <2> QED  BY <1>1, <1>3, <1>5, <2>1, <2>2 DEF TelnetIInv
<1>6. CASE Head(wire) # T!Chatter
  <2>1. pc = "read" /\ output' = Append(output, n + 1)
    <3>1. ~T!Drain
      <4>1. T!Drain => k = 0
        BY DEF T!Drain, T!Draining, TelnetIInv
      <4> QED  BY <1>2, <1>3, <1>6, <4>1
    <3> QED  BY <1>3, <1>6, <3>1 DEF T!ReadOutput
  <2>2. /\ output' \in Seq(1..MaxChunks) /\ Len(output') = n + 1 /\ output' = TelnetOnes(n + 1)
    <3>1. n + 1 \in 1..MaxChunks
      BY <1>2, <1>3, <1>6, BoundAssumption
    <3>2. /\ output' \in Seq(1..MaxChunks) /\ Len(output') = n + 1
          /\ \A i \in 1..n : output'[i] = output[i]
          /\ output'[n + 1] = n + 1
      BY <1>2, <2>1, <3>1, AppendProperties
    <3>3. TelnetOnes(n + 1) \in Seq(1..MaxChunks) /\ Len(TelnetOnes(n + 1)) = n + 1
          /\ \A i \in 1..(n + 1) : TelnetOnes(n + 1)[i] = i
      <4> \A i \in 1..(n + 1) : i \in 1..MaxChunks
        BY <1>2, <3>1, BoundAssumption
      <4>1. TelnetOnes(n + 1) \in [1..(n + 1) -> 1..MaxChunks] /\ n + 1 \in Nat
        BY <1>2, <3>1 DEF TelnetOnes
      <4>2. TelnetOnes(n + 1) \in Seq(1..MaxChunks)
        BY <4>1, SeqDef
      <4>3. DOMAIN TelnetOnes(n + 1) = 1..(n + 1)
        BY DEF TelnetOnes
      <4>4. Len(TelnetOnes(n + 1)) = n + 1
        BY <4>1, <4>2, <4>3, LenProperties
      <4> QED  BY <4>2, <4>4 DEF TelnetOnes
    <3>4. \A i \in 1..n : output[i] = i
      BY <1>2 DEF TelnetOnes
    <3>5. \A i \in 1..(n + 1) : output'[i] = TelnetOnes(n + 1)[i]
      BY <1>2, <3>2, <3>3, <3>4
    <3> QED  BY <3>2, <3>3, <3>5, SeqEqual
  <2>3. T!TypeOK'
    BY <1>1, <1>4, <2>2 DEF TelnetIInv, T!TypeOK
  <2>4. result = "none"
    BY <2>1 DEF TelnetIInv
  <2> QED  BY <1>1, <1>3, <1>6, <2>1, <2>2, <2>3, <2>4 DEF TelnetIInv
<1> QED  BY <1>5, <1>6

(* The server says something or falls silent.                               *)
LEMMA TelnetServerIInv ==
  ASSUME TelnetIInv, T!Server
  PROVE  TelnetIInv'
<1> DEFINE n == Len(output)
           k == srv.sent
<1>1. /\ pc' = pc /\ checked' = checked /\ gone' = gone /\ output' = output /\ result' = result
      /\ barred' = barred /\ writes' = writes /\ T!Busy
  BY DEF T!Server, T!Send
<1>2. wire \in Seq(0..MaxChunks) /\ wire \in Seq(Nat) /\ n \in Nat /\ k \in 0..MaxChunks
      /\ n <= k /\ TelnetDue(wire, n, k) /\ Len(wire) \in Nat
  <2>1. wire \in Seq(0..MaxChunks) /\ 0..MaxChunks \subseteq Nat
    BY BoundAssumption DEF TelnetIInv, T!TypeOK
  <2> QED  BY <2>1, SeqMonotonic, BoundAssumption DEF TelnetIInv, T!TypeOK
<1>3. ASSUME NEW x \in 0..MaxChunks, NEW l \in 0..MaxChunks,
             NEW server \in [sent : {l}, quiet : BOOLEAN, closed : BOOLEAN],
             T!Send(<<x>>, server),
             \/ x = T!Chatter /\ l = k
             \/ x = k + 1 /\ l = k + 1 /\ writes > 0
      PROVE  TelnetIInv'
  <2>1. wire' = Append(wire, x) /\ srv' = server /\ Len(wire) + 1 <= MaxWire
    BY <1>2, <1>3, AppendIsConcat DEF T!Send
  <2>2. /\ wire' \in Seq(0..MaxChunks) /\ Len(wire') = Len(wire) + 1
    BY <1>2, <2>1, AppendProperties
  <2>3. srv' \in [sent : 0..MaxChunks, quiet : BOOLEAN, closed : BOOLEAN] /\ srv'.sent = l
        /\ srv'.quiet \in BOOLEAN /\ srv'.closed \in BOOLEAN
    BY <1>3, <2>1
  <2>4. TelnetDue(wire', n, l)
    <3>1. x \in Nat /\ l \in Nat /\ k \in Nat
      BY <1>2, BoundAssumption
    <3> QED  BY <1>2, <1>3, <2>1, <3>1, TelnetDueAppend
  <2>5. T!TypeOK'
    BY <1>1, <2>1, <2>2, <2>3 DEF TelnetIInv, T!TypeOK
  <2>6. n <= l /\ (writes = 0 => l = 0) /\ result # "ok"
    BY <1>1, <1>2, <1>3 DEF TelnetIInv, T!Busy, T!TypeOK
  <2> QED  BY <1>1, <2>3, <2>4, <2>5, <2>6 DEF TelnetIInv
<1>4. CASE T!Send(<<T!Chatter>>, srv)
  <2>1. srv \in [sent : {k}, quiet : BOOLEAN, closed : BOOLEAN] /\ T!Chatter \in 0..MaxChunks
    BY BoundAssumption DEF TelnetIInv, T!Chatter
  <2> QED  BY <1>2, <1>3, <1>4, <2>1
<1>5. CASE /\ writes > 0 /\ srv.sent < MaxChunks
           /\ T!Send(<<srv.sent + 1>>, [srv EXCEPT !.sent = @ + 1])
  <2>1. [srv EXCEPT !.sent = @ + 1] \in [sent : {k + 1}, quiet : BOOLEAN, closed : BOOLEAN]
    BY DEF TelnetIInv
  <2>2. k + 1 \in 0..MaxChunks
    BY <1>2, <1>5, BoundAssumption
  <2> QED  BY <1>3, <1>5, <2>1, <2>2
<1>6. ASSUME NEW closes \in BOOLEAN, T!Send(<<>>, [srv EXCEPT !.quiet = TRUE, !.closed = closes])
      PROVE  TelnetIInv'
  <2>1. wire' = wire /\ srv' = [srv EXCEPT !.quiet = TRUE, !.closed = closes]
    BY <1>2, <1>6, ConcatEmptySeq DEF T!Send
  <2>2. srv' \in [sent : 0..MaxChunks, quiet : BOOLEAN, closed : BOOLEAN] /\ srv'.sent = k
        /\ srv'.quiet \in BOOLEAN /\ srv'.closed \in BOOLEAN
    BY <2>1 DEF TelnetIInv
  <2>3. T!TypeOK'
    BY <1>1, <2>1, <2>2 DEF TelnetIInv, T!TypeOK
  <2> QED  BY <1>1, <2>1, <2>2, <2>3 DEF TelnetIInv
<1> QED  BY <1>4, <1>5, <1>6 DEF T!Server

(* The other steps leave the wire and what was read alone.                  *)
LEMMA TelnetControlIInv ==
  ASSUME TelnetIInv,
         \/ T!Dial \/ T!drainTelnetGreeting \/ (\E blank \in BOOLEAN : T!SendPassword(blank))
         \/ T!SendCommand \/ T!CheckContext \/ T!EndOfOutput \/ T!Fails \/ T!Cancel
  PROVE  TelnetIInv'
<1>1. output' = output /\ wire' = wire /\ srv' = srv /\ barred' = barred
  BY DEF T!Dial, T!drainTelnetGreeting, T!SendPassword, T!SendCommand, T!CheckContext, T!EndOfOutput, T!Fails, T!Cancel
<1>2. CASE T!Cancel
  BY <1>1, <1>2 DEF T!Cancel, TelnetIInv, T!TypeOK
<1>3. CASE T!Fails
  BY <1>1, <1>3 DEF T!Fails, T!Return, T!Busy, TelnetIInv, T!TypeOK
<1>4. CASE T!CheckContext
  <2>1. CASE gone
    BY <1>1, <1>4, <2>1 DEF T!CheckContext, T!Return, TelnetIInv, T!TypeOK
  <2>2. CASE ~gone
    BY <1>1, <1>4, <2>2 DEF T!CheckContext, TelnetIInv, T!TypeOK
  <2> QED  BY <2>1, <2>2
<1>5. CASE T!EndOfOutput
  <2>1. wire = <<>> /\ pc = "read" /\ pc' = "done" /\ result' = "ok" /\ writes' = writes
        /\ checked' = checked /\ gone' = gone
    BY <1>5 DEF T!EndOfOutput, T!Return
  <2>2. Len(output) = srv.sent
    <3>1. TelnetDue(<<>>, Len(output), srv.sent) /\ Len(output) \in Nat /\ srv.sent \in Nat
          /\ Len(output) <= srv.sent
      BY <2>1, BoundAssumption DEF TelnetIInv, T!TypeOK
    <3>2. 1..Len(<<>>) = {}
      OBVIOUS
    <3>3. (Len(output) + 1)..srv.sent = {}
      BY <3>1, <3>2 DEF TelnetDue
    <3> QED  BY <3>1, <3>3
  <2> QED  BY <1>1, <2>1, <2>2 DEF TelnetIInv, T!TypeOK
<1>6. CASE T!SendCommand
  BY <1>1, <1>6 DEF T!SendCommand, T!Goto, TelnetIInv, T!TypeOK
<1>7. CASE T!Dial \/ T!drainTelnetGreeting \/ (\E blank \in BOOLEAN : T!SendPassword(blank))
  BY <1>1, <1>7 DEF T!Dial, T!drainTelnetGreeting, T!SendPassword, T!Goto, TelnetIInv, T!TypeOK
<1> QED  BY <1>2, <1>3, <1>4, <1>5, <1>6, <1>7

(* Every step keeps the invariant.                                          *)
LEMMA TelnetNextIInv == TelnetIInv /\ [T!Next]_(T!vars) => TelnetIInv'
<1> SUFFICES ASSUME TelnetIInv, [T!Next]_(T!vars) PROVE TelnetIInv'
  OBVIOUS
<1>1. CASE UNCHANGED T!vars
  BY <1>1 DEF T!vars, TelnetIInv, T!TypeOK
<1> QED  BY <1>1, TelnetExecuteIInv, TelnetReadIInv, TelnetServerIInv, TelnetControlIInv DEF T!Next, T!Step

(* IInv is an invariant of the telnet client.                               *)
THEOREM TelnetInductive == T!Spec => []TelnetIInv
  BY TelnetInitIInv, TelnetNextIInv, PTL DEF T!Spec

-----------------------------------------------------------------------------
(* Telnet: what follows                                                     *)

(* No part of the reply is lost when the invariant holds.                    *)
LEMMA TelnetOutput == TelnetIInv => T!ReplyNotDrained
  BY DEF TelnetIInv, T!ReplyNotDrained, TelnetOnes

-----------------------------------------------------------------------------
(* Telnet implements ConsoleCall                                            *)

(* Every step is a step of the interface, or changes nothing it shows.      *)
LEMMA TelnetNextMaps == TelnetIInv /\ [T!Next]_(T!vars) => [T!Call!Next]_(T!Call!consoleCall)
<1> SUFFICES ASSUME TelnetIInv, [T!Next]_(T!vars) PROVE [T!Call!Next]_(T!Call!consoleCall)
  OBVIOUS
<1>1. ASSUME NEW cancelled \in BOOLEAN, T!Execute(cancelled) PROVE T!Call!Start
  BY <1>1 DEF T!Execute, T!Connect, T!Return, T!Call!Start, T!Busy, TelnetIInv, T!TypeOK
<1>2. CASE T!SendCommand
  BY <1>2 DEF T!SendCommand, T!Goto, T!Call!Next, T!Call!Write, T!Busy, TelnetIInv, T!TypeOK
<1>3. CASE T!EndOfOutput
  BY <1>3 DEF T!EndOfOutput, T!Return, T!Call!Next, T!Call!Succeed, T!Busy, TelnetIInv, T!TypeOK
<1>4. CASE T!Fails
  BY <1>4 DEF T!Fails, T!Return, T!Call!Next, T!Call!Fail, T!Busy, TelnetIInv, T!TypeOK
<1>5. CASE T!CheckContext
  BY <1>5 DEF T!CheckContext, T!Return, T!Call!Next, T!Call!Fail, T!Call!consoleCall, T!Busy, TelnetIInv, T!TypeOK
<1>6. CASE \/ T!Dial \/ T!Drain \/ T!drainTelnetGreeting \/ T!ReadOutput \/ T!Cancel \/ T!Server
           \/ (\E blank \in BOOLEAN : T!SendPassword(blank))
  <2>1. writes' = writes /\ barred' = barred /\ result' = result /\ T!Busy /\ T!Busy'
    BY <1>6 DEF T!Dial, T!Drain, T!Draining, T!drainTelnetGreeting, T!ReadOutput, T!Cancel, T!Server, T!Send,
                T!SendPassword, T!Goto, T!Busy
  <2> QED  BY <2>1 DEF T!Call!consoleCall, T!Busy
<1>7. CASE UNCHANGED T!vars
  BY <1>7 DEF T!vars, T!Call!consoleCall, T!Busy
<1> QED  BY <1>1, <1>2, <1>3, <1>4, <1>5, <1>6, <1>7 DEF T!Next, T!Step, T!Call!Next

(* The telnet client keeps what the dispatcher relies on.                   *)
THEOREM TelnetKeepsItsPromise == T!Spec => T!ImplementsConsoleCall
<1>1. T!Init => T!Call!Init
  BY DEF T!Init, T!Call!Init
<1> QED  BY <1>1, TelnetNextMaps, TelnetInductive, PTL DEF T!Spec, T!ImplementsConsoleCall, T!Call!Spec

-----------------------------------------------------------------------------
(* Attach: sequences                                                        *)

(* What a sequence holds after something was added at its end.              *)
LEMMA ContainsAppend ==
  ASSUME NEW S, NEW s \in Seq(S), NEW x \in S, NEW e
  PROVE  /\ Append(s, x) \in Seq(S) /\ Len(Append(s, x)) = Len(s) + 1
         /\ A!Contains(Append(s, x), e) <=> A!Contains(s, e) \/ e = x
<1>1. /\ Append(s, x) \in Seq(S) /\ Len(Append(s, x)) = Len(s) + 1 /\ Len(s) \in Nat
      /\ \A i \in 1..Len(s) : Append(s, x)[i] = s[i]
      /\ Append(s, x)[Len(s) + 1] = x
  BY AppendProperties
<1>2. A!Contains(s, e) => A!Contains(Append(s, x), e)
  BY <1>1 DEF A!Contains
<1>3. e = x => A!Contains(Append(s, x), e)
  BY <1>1 DEF A!Contains
<1>4. ASSUME A!Contains(Append(s, x), e) PROVE A!Contains(s, e) \/ e = x
  <2>1. PICK i \in 1..(Len(s) + 1) : Append(s, x)[i] = e
    BY <1>1, <1>4 DEF A!Contains
  <2>2. CASE i \in 1..Len(s)
    BY <1>1, <2>1, <2>2 DEF A!Contains
  <2>3. CASE i = Len(s) + 1
    BY <1>1, <2>1, <2>3
  <2> QED  BY <1>1, <2>1, <2>2, <2>3
<1> QED  BY <1>1, <1>2, <1>3, <1>4

(* A sequence without repetitions, its end and its beginning.               *)
LEMMA InjectiveAppend ==
  ASSUME NEW S, NEW s \in Seq(S), NEW x \in S, A!IsInjective(s), ~A!Contains(s, x)
  PROVE  A!IsInjective(Append(s, x))
<1>1. /\ Len(Append(s, x)) = Len(s) + 1 /\ Len(s) \in Nat /\ Append(s, x) \in Seq(S)
      /\ \A i \in 1..Len(s) : Append(s, x)[i] = s[i]
      /\ Append(s, x)[Len(s) + 1] = x
  BY AppendProperties
<1>2. DOMAIN Append(s, x) = 1..(Len(s) + 1) /\ DOMAIN s = 1..Len(s)
  BY <1>1
<1>3. \A i \in 1..Len(s) : s[i] # x
  BY DEF A!Contains
<1> SUFFICES ASSUME NEW i \in 1..(Len(s) + 1), NEW j \in 1..(Len(s) + 1),
                    Append(s, x)[i] = Append(s, x)[j]
             PROVE  i = j
  BY <1>2 DEF A!IsInjective
<1>4. CASE i \in 1..Len(s) /\ j \in 1..Len(s)
  BY <1>1, <1>2, <1>4 DEF A!IsInjective
<1>5. CASE i = Len(s) + 1 \/ j = Len(s) + 1
  BY <1>1, <1>3, <1>5
<1> QED  BY <1>1, <1>4, <1>5

LEMMA InjectiveTail ==
  ASSUME NEW S, NEW s \in Seq(S), s # <<>>, A!IsInjective(s)
  PROVE  /\ Tail(s) \in Seq(S) /\ A!IsInjective(Tail(s)) /\ ~A!Contains(Tail(s), Head(s))
         /\ \A e : A!Contains(Tail(s), e) => A!Contains(s, e)
         /\ A!Contains(s, Head(s)) /\ Head(s) \in S
<1>1. /\ Tail(s) \in Seq(S) /\ Len(Tail(s)) = Len(s) - 1 /\ Head(s) \in S
      /\ \A i \in 1..Len(Tail(s)) : Tail(s)[i] = s[i + 1]
  BY HeadTailProperties
<1>2. Len(s) \in Nat \ {0} /\ Head(s) = s[1] /\ DOMAIN s = 1..Len(s)
  BY EmptySeq
<1>3. DOMAIN Tail(s) = 1..(Len(s) - 1)
  BY <1>1
<1>4. \A i \in 1..Len(s), j \in 1..Len(s) : s[i] = s[j] => i = j
  BY <1>2 DEF A!IsInjective
<1>5. A!IsInjective(Tail(s))
  <2> SUFFICES ASSUME NEW i \in 1..(Len(s) - 1), NEW j \in 1..(Len(s) - 1), Tail(s)[i] = Tail(s)[j]
               PROVE  i = j
    BY <1>3 DEF A!IsInjective
  <2>1. s[i + 1] = s[j + 1] /\ i + 1 \in 1..Len(s) /\ j + 1 \in 1..Len(s)
    BY <1>1, <1>2
  <2>2. i + 1 = j + 1
    BY <1>4, <2>1
  <2> QED  BY <2>2
<1>6. ~A!Contains(Tail(s), Head(s))
  <2> SUFFICES ASSUME NEW i \in 1..(Len(s) - 1), Tail(s)[i] = Head(s) PROVE FALSE
    BY <1>1 DEF A!Contains
  <2>1. s[i + 1] = s[1] /\ i + 1 \in 1..Len(s) /\ 1 \in 1..Len(s)
    BY <1>1, <1>2
  <2>2. i + 1 = 1
    BY <1>4, <2>1
  <2> QED  BY <2>2
<1>7. \A e : A!Contains(Tail(s), e) => A!Contains(s, e)
  <2> SUFFICES ASSUME NEW i \in 1..(Len(s) - 1) PROVE \E j \in 1..Len(s) : s[j] = Tail(s)[i]
    BY <1>1 DEF A!Contains
  <2>1. i + 1 \in 1..Len(s) /\ s[i + 1] = Tail(s)[i]
    BY <1>1, <1>2
  <2> QED  BY <2>1
<1>8. A!Contains(s, Head(s))
  BY <1>2 DEF A!Contains
<1> QED  BY <1>1, <1>5, <1>6, <1>7, <1>8

-----------------------------------------------------------------------------
(* Attach: the inductive invariant                                          *)

(* One call: what it has written, whether it is heard, what it has seen.    *)
CallInv(c) ==
  /\ A!Busy(c) => result[c] = "none"
  /\ pc[c] = "done" => result[c] \in {"ok", "error"}
  /\ result[c] = "ok" => writes[c] = 1
  /\ pc[c] \in {"inspect", "attach", "write"} => writes[c] = 0
  /\ pc[c] \in {"written", "collect"} => writes[c] = 1
  /\ barred[c] /\ A!Busy(c) => pc[c] = "inspect" /\ gone[c]
  /\ c \in attached => pc[c] \in {"write", "written", "collect"}
  /\ A!Busy(c) /\ A!Contains(stdin, c) => c \in attached /\ pc[c] \in {"written", "collect"}
  /\ c \in answered => /\ pc[c] \in {"written", "collect", "done"}
                       /\ A!Busy(c) \/ result[c] = "ok" => A!Contains(output[c], c)

AttachIInv == A!TypeOK /\ \A c \in Callers : CallInv(c)

(* The invariant holds before the first call.                               *)
LEMMA AttachInitIInv == A!Init => AttachIInv
<1> SUFFICES ASSUME A!Init PROVE AttachIInv
  OBVIOUS
<1>1. stdin \in Seq(Callers) /\ A!IsInjective(stdin) /\ \A c \in Callers : ~A!Contains(stdin, c)
  BY DEF A!Init, A!IsInjective, A!Contains
<1>2. \A c \in Callers : output[c] \in Seq(Callers \cup {Noise}) /\ Len(output[c]) <= MaxOutput
  BY BoundAssumption DEF A!Init
<1>3. \A c \in Callers : pc[c] = "idle" /\ result[c] = "none" /\ writes[c] = 0
  BY DEF A!Init
<1>4. A!TypeOK
  BY <1>1, <1>2 DEF A!Init, A!TypeOK
<1> QED  BY <1>1, <1>3, <1>4 DEF A!Init, AttachIInv, CallInv, A!Busy

(* A step of one caller: the other calls are as they were, only the input   *)
(* of the container may have grown.                                         *)
LEMMA OthersIInv ==
  ASSUME AttachIInv, NEW c \in Callers, A!TypeOK', CallInv(c)',
         \A d \in Callers \ {c} :
           /\ pc'[d] = pc[d] /\ gone'[d] = gone[d] /\ output'[d] = output[d]
           /\ result'[d] = result[d] /\ barred'[d] = barred[d] /\ writes'[d] = writes[d]
           /\ (d \in attached' <=> d \in attached)
           /\ (d \in answered' <=> d \in answered)
           /\ A!Contains(stdin', d) => A!Contains(stdin, d)
  PROVE  AttachIInv'
<1> SUFFICES ASSUME NEW d \in Callers, d # c PROVE CallInv(d)'
  BY DEF AttachIInv
<1>1. CallInv(d)
  BY DEF AttachIInv
<1> QED  BY <1>1 DEF CallInv, A!Busy

(* Return, whatever the result.                                             *)
LEMMA ReturnIInv ==
  ASSUME AttachIInv, NEW c \in Callers, NEW r \in {"ok", "error"}, A!Busy(c), A!Return(c, r),
         r = "ok" => writes[c] = 1,
         UNCHANGED <<gone, output, A!container, barred, writes, answered>>
  PROVE  AttachIInv'
<1>1. /\ pc' = [pc EXCEPT ![c] = "done"] /\ result' = [result EXCEPT ![c] = r]
      /\ attached' = attached \ {c}
      /\ gone' = gone /\ output' = output /\ running' = running /\ stdin' = stdin
      /\ barred' = barred /\ writes' = writes /\ answered' = answered
  BY DEF A!Return, A!container
<1>2. A!TypeOK'
  BY <1>1 DEF AttachIInv, A!TypeOK, A!Busy
<1>3. pc'[c] = "done" /\ result'[c] = r
  BY <1>1 DEF AttachIInv, A!TypeOK
<1>4. CallInv(c)'
  <2>1. CallInv(c)
    BY DEF AttachIInv
  <2> QED  BY <1>1, <1>3, <2>1 DEF CallInv, A!Busy
<1>5. \A d \in Callers \ {c} :
        /\ pc'[d] = pc[d] /\ result'[d] = result[d]
        /\ d \in attached' <=> d \in attached
  BY <1>1 DEF AttachIInv, A!TypeOK
<1> QED  BY <1>1, <1>2, <1>4, <1>5, OthersIInv

(* A call begins.                                                           *)
LEMMA BeginIInv ==
  ASSUME AttachIInv, NEW c \in Callers, NEW cancelled \in BOOLEAN, NEW valid \in BOOLEAN,
         A!SendCommand(c, cancelled, valid)
  PROVE  AttachIInv'
<1>1. /\ ~A!Busy(c) /\ ~A!Contains(stdin, c)
      /\ gone' = [gone EXCEPT ![c] = cancelled] /\ barred' = [barred EXCEPT ![c] = cancelled]
      /\ output' = [output EXCEPT ![c] = <<>>] /\ writes' = [writes EXCEPT ![c] = 0]
      /\ answered' = answered \ {c}
      /\ pc' = [pc EXCEPT ![c] = IF valid THEN "inspect" ELSE "done"]
      /\ result' = [result EXCEPT ![c] = IF valid THEN "none" ELSE "error"]
      /\ attached' = attached /\ running' = running /\ stdin' = stdin
  BY DEF A!SendCommand, A!Begin, A!container
<1>2. /\ pc'[c] \in {"inspect", "done"} /\ result'[c] = IF pc'[c] = "inspect" THEN "none" ELSE "error"
      /\ writes'[c] = 0 /\ gone'[c] = barred'[c]
  BY <1>1 DEF AttachIInv, A!TypeOK
<1>3. c \notin attached
  BY <1>1 DEF AttachIInv, A!TypeOK
<1>4. A!TypeOK'
  <2>1. \A d \in Callers : output'[d] \in Seq(Callers \cup {Noise}) /\ Len(output'[d]) <= MaxOutput
    BY <1>1, BoundAssumption DEF AttachIInv, A!TypeOK
  <2>2. attached' \subseteq {d \in Callers : A!Busy(d)'}
    BY <1>1, <1>3 DEF AttachIInv, A!TypeOK, A!Busy
  <2> QED  BY <1>1, <2>1, <2>2 DEF AttachIInv, A!TypeOK
<1>5. CallInv(c)'
  BY <1>1, <1>2, <1>3 DEF CallInv, A!Busy
<1>6. \A d \in Callers \ {c} :
        /\ pc'[d] = pc[d] /\ gone'[d] = gone[d] /\ output'[d] = output[d]
        /\ result'[d] = result[d] /\ barred'[d] = barred[d] /\ writes'[d] = writes[d]
        /\ d \in answered' <=> d \in answered
  BY <1>1 DEF AttachIInv, A!TypeOK
<1> QED  BY <1>1, <1>4, <1>5, <1>6, OthersIInv

(* A step of a call that only goes on to the next place.                    *)
LEMMA InspectIInv ==
  ASSUME AttachIInv, NEW c \in Callers, A!ContainerInspect(c)
  PROVE  AttachIInv'
<1>1. CASE running /\ ~gone[c]
  <2>1. /\ pc[c] = "inspect" /\ pc' = [pc EXCEPT ![c] = "attach"] /\ result' = result
        /\ attached' = attached /\ gone' = gone /\ output' = output /\ running' = running
        /\ stdin' = stdin /\ barred' = barred /\ writes' = writes /\ answered' = answered
    BY <1>1 DEF A!ContainerInspect, A!Goto, A!container
  <2>2. A!TypeOK'
    BY <2>1 DEF AttachIInv, A!TypeOK, A!Busy
  <2>3. pc'[c] = "attach" /\ \A d \in Callers \ {c} : pc'[d] = pc[d]
    BY <2>1 DEF AttachIInv, A!TypeOK
  <2>4. CallInv(c)'
    <3>1. CallInv(c)
      BY DEF AttachIInv
    <3> QED  BY <1>1, <2>1, <2>3, <3>1 DEF CallInv, A!Busy
  <2> QED  BY <2>1, <2>2, <2>3, <2>4, OthersIInv
<1>2. CASE ~(running /\ ~gone[c])
  <2>1. A!Return(c, "error") /\ A!Busy(c)
    BY <1>2 DEF A!ContainerInspect, A!Busy
  <2> QED  BY <2>1, ReturnIInv DEF A!ContainerInspect
<1> QED  BY <1>1, <1>2

LEMMA ContainerAttachIInv ==
  ASSUME AttachIInv, NEW c \in Callers, A!ContainerAttach(c)
  PROVE  AttachIInv'
<1>1. CASE running /\ ~gone[c]
  <2>1. /\ pc[c] = "attach" /\ pc' = [pc EXCEPT ![c] = "write"] /\ result' = result
        /\ attached' = attached \cup {c} /\ gone' = gone /\ output' = output
        /\ running' = running /\ stdin' = stdin /\ barred' = barred /\ writes' = writes
        /\ answered' = answered
    BY <1>1 DEF A!ContainerAttach, A!Goto, A!container
  <2>2. A!TypeOK'
    BY <2>1 DEF AttachIInv, A!TypeOK, A!Busy
  <2>3. /\ pc'[c] = "write"
        /\ \A d \in Callers \ {c} : pc'[d] = pc[d] /\ (d \in attached' <=> d \in attached)
    BY <2>1 DEF AttachIInv, A!TypeOK
  <2>4. CallInv(c)'
    <3>1. CallInv(c)
      BY DEF AttachIInv
    <3> QED  BY <1>1, <2>1, <2>3, <3>1 DEF CallInv, A!Busy
  <2> QED  BY <2>1, <2>2, <2>3, <2>4, OthersIInv
<1>2. CASE ~(running /\ ~gone[c])
  <2>1. A!Return(c, "error") /\ A!Busy(c)
    BY <1>2 DEF A!ContainerAttach, A!Busy
  <2> QED  BY <2>1, ReturnIInv DEF A!ContainerAttach
<1> QED  BY <1>1, <1>2

(* The command is written: it reaches the input, which does not hold it     *)
(* yet, unless the attachment was cut.                                      *)
LEMMA WriteIInv ==
  ASSUME AttachIInv, NEW c \in Callers, A!WriteString(c)
  PROVE  AttachIInv'
<1>1. /\ pc[c] = "write" /\ pc' = [pc EXCEPT ![c] = "written"] /\ result' = result
      /\ stdin' = (IF c \in attached THEN Append(stdin, c) ELSE stdin)
      /\ writes' = [writes EXCEPT ![c] = @ + 1]
      /\ attached' = attached /\ gone' = gone /\ output' = output /\ running' = running
      /\ barred' = barred /\ answered' = answered
  BY DEF A!WriteString, A!Goto
<1>2. CallInv(c)
  BY DEF AttachIInv
<1>3. ~A!Contains(stdin, c) /\ writes[c] = 0
  BY <1>1, <1>2 DEF CallInv, A!Busy
<1>4. /\ stdin' \in Seq(Callers) /\ A!IsInjective(stdin')
      /\ \A d \in Callers \ {c} : A!Contains(stdin', d) => A!Contains(stdin, d)
      /\ A!Contains(stdin', c) => c \in attached
  BY <1>1, <1>3, ContainsAppend, InjectiveAppend DEF AttachIInv, A!TypeOK
<1>5. A!TypeOK'
  BY <1>1, <1>3, <1>4 DEF AttachIInv, A!TypeOK, A!Busy
<1>6. /\ pc'[c] = "written" /\ writes'[c] = 1
      /\ \A d \in Callers \ {c} : pc'[d] = pc[d] /\ writes'[d] = writes[d]
  BY <1>1, <1>3 DEF AttachIInv, A!TypeOK
<1>7. CallInv(c)'
  BY <1>1, <1>2, <1>4, <1>6 DEF CallInv, A!Busy
<1> QED  BY <1>1, <1>4, <1>5, <1>6, <1>7, OthersIInv

LEMMA DeadlineIInv ==
  ASSUME AttachIInv, NEW c \in Callers, A!setDeadline(c)
  PROVE  AttachIInv'
<1>1. /\ pc[c] = "written" /\ pc' = [pc EXCEPT ![c] = "collect"] /\ result' = result
      /\ attached' = attached /\ gone' = gone /\ output' = output /\ running' = running
      /\ stdin' = stdin /\ barred' = barred /\ writes' = writes /\ answered' = answered
  BY DEF A!setDeadline, A!Goto, A!container
<1>2. A!TypeOK'
  BY <1>1 DEF AttachIInv, A!TypeOK, A!Busy
<1>3. pc'[c] = "collect" /\ \A d \in Callers \ {c} : pc'[d] = pc[d]
  BY <1>1 DEF AttachIInv, A!TypeOK
<1>4. CallInv(c)'
  <2>1. CallInv(c)
    BY DEF AttachIInv
  <2> QED  BY <1>1, <1>3, <2>1 DEF CallInv, A!Busy
<1> QED  BY <1>1, <1>2, <1>3, <1>4, OthersIInv

(* The client of a call goes away.                                          *)
LEMMA CancelIInv ==
  ASSUME AttachIInv, NEW c \in Callers, A!Cancel(c)
  PROVE  AttachIInv'
<1>1. /\ gone' = [gone EXCEPT ![c] = TRUE] /\ pc' = pc /\ result' = result
      /\ attached' = attached /\ output' = output /\ running' = running
      /\ stdin' = stdin /\ barred' = barred /\ writes' = writes /\ answered' = answered
  BY DEF A!Cancel, A!container
<1>2. A!TypeOK'
  BY <1>1 DEF AttachIInv, A!TypeOK, A!Busy
<1>3. gone'[c] = TRUE /\ \A d \in Callers \ {c} : gone'[d] = gone[d]
  BY <1>1 DEF AttachIInv, A!TypeOK
<1>4. CallInv(c)'
  <2>1. CallInv(c)
    BY DEF AttachIInv
  <2> QED  BY <1>1, <1>3, <2>1 DEF CallInv, A!Busy
<1> QED  BY <1>1, <1>2, <1>3, <1>4, OthersIInv

(* A line goes to every attachment.                                         *)
LEMMA EmitOutput ==
  ASSUME A!TypeOK, NEW line \in Callers \cup {Noise}, A!Emit(line)
  PROVE  /\ output' \in [Callers -> Seq(Callers \cup {Noise})]
         /\ \A c \in Callers : /\ Len(output'[c]) <= MaxOutput
                               /\ A!Contains(output[c], c) => A!Contains(output'[c], c)
                               /\ c \in attached /\ c = line => A!Contains(output'[c], c)
<1>1. output' = [c \in Callers |-> IF c \in attached THEN Append(output[c], line) ELSE output[c]]
  BY DEF A!Emit, A!Hearing
<1> SUFFICES ASSUME NEW c \in Callers
             PROVE  /\ output'[c] \in Seq(Callers \cup {Noise})
                    /\ Len(output'[c]) <= MaxOutput
                    /\ A!Contains(output[c], c) => A!Contains(output'[c], c)
                    /\ c \in attached /\ c = line => A!Contains(output'[c], c)
  BY <1>1
<1>2. output[c] \in Seq(Callers \cup {Noise}) /\ Len(output[c]) <= MaxOutput
  BY DEF A!TypeOK
<1>3. CASE c \in attached
  <2>1. Len(output[c]) < MaxOutput /\ output'[c] = Append(output[c], line)
    BY <1>1, <1>3 DEF A!Emit, A!Hearing
  <2>2. /\ Append(output[c], line) \in Seq(Callers \cup {Noise})
        /\ Len(Append(output[c], line)) = Len(output[c]) + 1
        /\ A!Contains(Append(output[c], line), c) <=> A!Contains(output[c], c) \/ c = line
    BY <1>2, ContainsAppend
  <2>3. Len(output[c]) \in Nat /\ MaxOutput \in Nat
    BY <1>2, BoundAssumption
  <2> QED  BY <2>1, <2>2, <2>3
<1>4. CASE c \notin attached
  BY <1>1, <1>2, <1>4
<1> QED  BY <1>3, <1>4

(* The console answers a command, or says something of its own.             *)
LEMMA EmitIInv ==
  ASSUME AttachIInv, A!Chat \/ A!Reply
  PROVE  AttachIInv'
<1>1. PICK line \in Callers \cup {Noise} : A!Emit(line)
  <2>1. stdin # <<>> => Head(stdin) \in Callers
    BY InjectiveTail DEF AttachIInv, A!TypeOK
  <2> QED  BY <2>1 DEF A!Chat, A!Reply
<1>2. /\ pc' = pc /\ gone' = gone /\ result' = result /\ running' = running
      /\ attached' = attached /\ barred' = barred /\ writes' = writes
  BY <1>1 DEF A!Emit
<1>3. /\ output' \in [Callers -> Seq(Callers \cup {Noise})]
      /\ \A c \in Callers : /\ Len(output'[c]) <= MaxOutput
                            /\ A!Contains(output[c], c) => A!Contains(output'[c], c)
  BY <1>1, EmitOutput DEF AttachIInv
<1>4. /\ stdin' \in Seq(Callers) /\ A!IsInjective(stdin')
      /\ \A e : A!Contains(stdin', e) => A!Contains(stdin, e)
  <2>1. stdin \in Seq(Callers) /\ A!IsInjective(stdin)
    BY DEF AttachIInv, A!TypeOK
  <2>2. CASE A!Chat
    BY <2>1, <2>2 DEF A!Chat
  <2>3. CASE A!Reply
    <3>1. stdin # <<>> /\ stdin' = Tail(stdin)
      BY <2>3 DEF A!Reply
    <3> QED  BY <2>1, <3>1, InjectiveTail
  <2> QED  BY <2>2, <2>3
<1>5. \A c \in Callers :
        c \in answered' => \/ c \in answered
                           \/ A!Busy(c) /\ A!Contains(stdin, c) /\ A!Contains(output'[c], c)
  <2>1. CASE A!Chat
    BY <2>1 DEF A!Chat
  <2>2. CASE A!Reply
    <3>1. /\ stdin # <<>> /\ A!Emit(Head(stdin))
          /\ answered' = IF A!Busy(Head(stdin)) THEN answered \cup {Head(stdin)} ELSE answered
      BY <2>2 DEF A!Reply
    <3>2. A!Contains(stdin, Head(stdin)) /\ Head(stdin) \in Callers
      BY <3>1, InjectiveTail DEF AttachIInv, A!TypeOK
    <3>3. A!Busy(Head(stdin)) => Head(stdin) \in attached
      BY <3>2 DEF AttachIInv, CallInv
    <3>4. A!Busy(Head(stdin)) => A!Contains(output'[Head(stdin)], Head(stdin))
      BY <3>1, <3>2, <3>3, EmitOutput DEF AttachIInv
    <3> QED  BY <3>1, <3>2, <3>4
  <2> QED  BY <2>1, <2>2
<1>6. answered' \subseteq Callers
  <2>1. stdin # <<>> => Head(stdin) \in Callers
    BY InjectiveTail DEF AttachIInv, A!TypeOK
  <2> QED  BY <2>1 DEF A!Chat, A!Reply, AttachIInv, A!TypeOK
<1>7. A!TypeOK'
  BY <1>2, <1>3, <1>4, <1>6 DEF AttachIInv, A!TypeOK, A!Busy
<1>8. ASSUME NEW c \in Callers PROVE CallInv(c)'
  <2>1. CallInv(c)
    BY DEF AttachIInv
  <2> QED  BY <1>2, <1>3, <1>4, <1>5, <2>1 DEF CallInv, A!Busy
<1> QED  BY <1>7, <1>8 DEF AttachIInv

(* The container stops or starts.                                           *)
LEMMA StopIInv ==
  ASSUME AttachIInv, A!StopOrStart
  PROVE  AttachIInv'
<1>1. /\ pc' = pc /\ gone' = gone /\ result' = result /\ running' = ~running
      /\ attached' = {} /\ stdin' = <<>> /\ barred' = barred /\ writes' = writes
      /\ output' = output /\ answered' = answered
  BY DEF A!StopOrStart
<1>2. stdin' \in Seq(Callers) /\ A!IsInjective(stdin') /\ \A e : ~A!Contains(stdin', e)
  BY <1>1 DEF A!IsInjective, A!Contains
<1>3. A!TypeOK'
  BY <1>1, <1>2 DEF AttachIInv, A!TypeOK
<1>4. ASSUME NEW c \in Callers PROVE CallInv(c)'
  <2>1. CallInv(c)
    BY DEF AttachIInv
  <2> QED  BY <1>1, <1>2, <2>1 DEF CallInv, A!Busy
<1> QED  BY <1>3, <1>4 DEF AttachIInv

(* Every step keeps the invariant.                                          *)
LEMMA AttachNextIInv == AttachIInv /\ [A!Next]_(A!vars) => AttachIInv'
<1> SUFFICES ASSUME AttachIInv, [A!Next]_(A!vars) PROVE AttachIInv'
  OBVIOUS
<1>1. CASE UNCHANGED A!vars
  BY <1>1 DEF A!vars, A!container, AttachIInv, A!TypeOK, CallInv, A!Busy
<1>2. ASSUME NEW c \in Callers, A!Step(c) PROVE AttachIInv'
  <2>1. CASE A!collectAttachOutput(c)
    <3>1. A!Busy(c) /\ writes[c] = 1
      BY <2>1 DEF A!collectAttachOutput, AttachIInv, CallInv, A!Busy
    <3> QED  BY <2>1, <3>1, ReturnIInv DEF A!collectAttachOutput
  <2> QED  BY <1>2, <2>1, InspectIInv, ContainerAttachIInv, WriteIInv, DeadlineIInv DEF A!Step
<1>3. ASSUME NEW c \in Callers, A!Fails(c) PROVE AttachIInv'
  BY <1>3, ReturnIInv DEF A!Fails
<1> QED  BY <1>1, <1>2, <1>3, BeginIInv, CancelIInv, EmitIInv, StopIInv DEF A!Next

(* IInv is an invariant of the Docker client.                               *)
THEOREM AttachInductive == A!Spec => []AttachIInv
  BY AttachInitIInv, AttachNextIInv, PTL DEF A!Spec

-----------------------------------------------------------------------------
(* Attach: what follows                                                     *)

(* The answer is in the output when the invariant holds.                     *)
LEMMA AttachOutput == AttachIInv => A!OwnReplySeen
  BY DEF AttachIInv, CallInv, A!OwnReplySeen, A!Busy, A!TypeOK

-----------------------------------------------------------------------------
(* Attach implements ConsoleCall                                            *)

(* A call no step touched stutters.                                         *)
LEMMA UntouchedMaps ==
  ASSUME NEW c \in Callers, pc'[c] = pc[c], result'[c] = result[c],
         barred'[c] = barred[c], writes'[c] = writes[c]
  PROVE  [A!Call(c)!Next]_(A!Call(c)!consoleCall)
  BY DEF A!Call!consoleCall, A!Busy

(* A call that goes on and has written nothing with it stutters.            *)
LEMMA GoesOnMaps ==
  ASSUME NEW c \in Callers, A!Busy(c), pc'[c] \in {"attach", "write", "collect"},
         barred'[c] = barred[c], writes'[c] = writes[c]
  PROVE  [A!Call(c)!Next]_(A!Call(c)!consoleCall)
<1>1. pc[c] # "idle" /\ pc'[c] # "idle" /\ A!Busy(c)'
  BY DEF A!Busy
<1> QED  BY <1>1 DEF A!Call!consoleCall

(* Return is success, if the command was written, or failure.               *)
LEMMA ReturnMaps ==
  ASSUME AttachIInv, NEW c \in Callers, NEW r \in {"ok", "error"}, A!Busy(c), A!Return(c, r),
         r = "ok" => writes[c] = 1, barred' = barred, writes' = writes
  PROVE  A!Call(c)!Succeed \/ A!Call(c)!Fail
<1>1. pc'[c] = "done" /\ result'[c] = r
  BY DEF A!Return, AttachIInv, A!TypeOK
<1>2. pc[c] # "idle" /\ pc'[c] # "idle" /\ ~A!Busy(c)'
  BY <1>1 DEF A!Busy
<1> QED  BY <1>1, <1>2 DEF A!Call!Succeed, A!Call!Fail

(* A step of one call.                                                      *)
LEMMA CallerMaps ==
  ASSUME AttachIInv, NEW c \in Callers,
         \/ \E cancelled, valid \in BOOLEAN : A!SendCommand(c, cancelled, valid)
         \/ A!Step(c) \/ A!Fails(c) \/ A!Cancel(c)
  PROVE  [A!Call(c)!Next]_(A!Call(c)!consoleCall)
<1>1. ASSUME NEW cancelled \in BOOLEAN, NEW valid \in BOOLEAN, A!SendCommand(c, cancelled, valid)
      PROVE  A!Call(c)!Start
  <2>1. /\ pc'[c] \in {"inspect", "done"}
        /\ result'[c] = IF pc'[c] = "inspect" THEN "none" ELSE "error"
        /\ writes'[c] = 0 /\ barred'[c] \in BOOLEAN /\ ~A!Busy(c)
    BY <1>1 DEF A!SendCommand, A!Begin, AttachIInv, A!TypeOK
  <2>2. pc[c] # "idle" => result[c] \in {"ok", "error"}
    BY <2>1 DEF AttachIInv, CallInv, A!Busy
  <2>3. pc'[c] # "idle" /\ (A!Busy(c)' <=> pc'[c] = "inspect")
    BY <2>1 DEF A!Busy
  <2> QED  BY <2>1, <2>2, <2>3 DEF A!Call!Start
<1>2. CASE A!WriteString(c)
  <2>1. /\ pc[c] = "write" /\ pc'[c] = "written" /\ barred' = barred
        /\ writes'[c] = writes[c] + 1
    BY <1>2 DEF A!WriteString, A!Goto, AttachIInv, A!TypeOK
  <2>2. writes[c] = 0 /\ ~barred[c] /\ A!Busy(c) /\ A!Busy(c)'
    BY <2>1 DEF AttachIInv, CallInv, A!Busy
  <2> QED  BY <2>1, <2>2 DEF A!Call!Write, A!Call!Next
<1>3. CASE A!collectAttachOutput(c)
  <2>1. A!Busy(c) /\ writes[c] = 1
    BY <1>3 DEF A!collectAttachOutput, AttachIInv, CallInv, A!Busy
  <2> QED  BY <1>3, <2>1, ReturnMaps DEF A!collectAttachOutput, A!Call!Next
<1>4. CASE A!Fails(c)
  BY <1>4, ReturnMaps DEF A!Fails, A!Call!Next
<1>5. CASE A!ContainerInspect(c) \/ A!ContainerAttach(c)
  <2>1. A!Busy(c) /\ barred' = barred /\ writes' = writes
    BY <1>5 DEF A!ContainerInspect, A!ContainerAttach, A!Busy
  <2>2. CASE A!Return(c, "error")
    BY <2>1, <2>2, ReturnMaps DEF A!Call!Next
  <2>3. CASE ~A!Return(c, "error")
    <3>1. pc'[c] \in {"attach", "write"}
      BY <1>5, <2>3 DEF A!ContainerInspect, A!ContainerAttach, A!Goto, AttachIInv, A!TypeOK
    <3> QED  BY <2>1, <3>1, GoesOnMaps
  <2> QED  BY <2>2, <2>3
<1>6. CASE A!setDeadline(c)
  <2>1. A!Busy(c) /\ pc'[c] = "collect" /\ barred' = barred /\ writes' = writes
    BY <1>6 DEF A!setDeadline, A!Goto, A!Busy, AttachIInv, A!TypeOK
  <2> QED  BY <2>1, GoesOnMaps
<1>7. CASE A!Cancel(c)
  BY <1>7, UntouchedMaps DEF A!Cancel
<1> QED  BY <1>1, <1>2, <1>3, <1>4, <1>5, <1>6, <1>7 DEF A!Step, A!Call!Next

(* Every step is, for every caller, a step of the interface or none.        *)
LEMMA AttachNextMaps ==
  AttachIInv /\ [A!Next]_(A!vars) => \A c \in Callers : [A!Call(c)!Next]_(A!Call(c)!consoleCall)
<1> SUFFICES ASSUME AttachIInv, [A!Next]_(A!vars), NEW c \in Callers
             PROVE  [A!Call(c)!Next]_(A!Call(c)!consoleCall)
  OBVIOUS
<1>1. ASSUME NEW d \in Callers,
             \/ \E cancelled, valid \in BOOLEAN : A!SendCommand(d, cancelled, valid)
             \/ A!Step(d) \/ A!Fails(d) \/ A!Cancel(d)
      PROVE  [A!Call(c)!Next]_(A!Call(c)!consoleCall)
  <2>1. CASE d = c
    BY <1>1, <2>1, CallerMaps
  <2>2. CASE d # c
    <3>1. pc'[c] = pc[c] /\ result'[c] = result[c] /\ barred'[c] = barred[c] /\ writes'[c] = writes[c]
      BY <1>1, <2>2 DEF AttachIInv, A!TypeOK, A!Step, A!SendCommand, A!Begin, A!ContainerInspect, A!ContainerAttach,
                        A!WriteString, A!setDeadline, A!collectAttachOutput, A!Fails, A!Cancel, A!Goto, A!Return
    <3> QED  BY <3>1, UntouchedMaps
  <2> QED  BY <2>1, <2>2
<1>2. CASE A!Chat \/ A!Reply \/ A!StopOrStart
  BY <1>2, UntouchedMaps DEF A!Chat, A!Reply, A!Emit, A!StopOrStart
<1>3. CASE UNCHANGED A!vars
  BY <1>3, UntouchedMaps DEF A!vars
<1> QED  BY <1>1, <1>2, <1>3 DEF A!Next

(* The Docker client keeps what the dispatcher relies on.                   *)
THEOREM DockerKeepsItsPromise == A!Spec => A!ImplementsConsoleCall
<1>1. A!Init => \A c \in Callers : A!Call(c)!Init
  BY DEF A!Init, A!Call!Init
<1> QED  BY <1>1, AttachNextMaps, AttachInductive, PTL DEF A!Spec, A!ImplementsConsoleCall

-----------------------------------------------------------------------------
(* The three clients together                                               *)

(* The transport chosen at the start stays, and its client's invariant with *)
(* it.                                                                      *)
ClientsInv ==
  /\ transport \in {"rcon", "telnet", "docker"}
  /\ transport = "rcon" => RconIInv
  /\ transport = "telnet" => TelnetIInv
  /\ transport = "docker" => AttachIInv

(* A step of the whole is a step of the client of its transport.            *)
LEMMA StepOfOne ==
  ASSUME Next
  PROVE  /\ transport' = transport
         /\ transport \in {"rcon", "telnet", "docker"}
         /\ transport = "rcon" => R!Next
         /\ transport = "telnet" => T!Next
         /\ transport = "docker" => A!Next
BY DEF Next, Over

LEMMA ClientsInductive == Spec => []ClientsInv
<1>1. Init => ClientsInv
  BY RconInitIInv, TelnetInitIInv, AttachInitIInv DEF Init, ClientsInv
<1>2. ClientsInv /\ [Next]_vars => ClientsInv'
  <2> SUFFICES ASSUME ClientsInv, [Next]_vars PROVE ClientsInv'
    OBVIOUS
  <2>1. transport' = transport
    BY StepOfOne DEF vars
  <2>2. CASE transport = "rcon"
    <3>1. [R!Next]_(R!vars)
      BY <2>2, StepOfOne DEF vars, connection, R!vars
    <3>2. RconIInv'
      BY <2>2, <3>1, RconNextIInv DEF ClientsInv
    <3> QED  BY <2>1, <2>2, <3>2 DEF ClientsInv
  <2>3. CASE transport = "telnet"
    <3>1. [T!Next]_(T!vars)
      BY <2>3, StepOfOne DEF vars, connection, T!vars
    <3>2. TelnetIInv'
      BY <2>3, <3>1, TelnetNextIInv DEF ClientsInv
    <3> QED  BY <2>1, <2>3, <3>2 DEF ClientsInv
  <2>4. CASE transport = "docker"
    <3>1. [A!Next]_(A!vars)
      BY <2>4, StepOfOne DEF vars, container, A!vars, A!container
    <3>2. AttachIInv'
      BY <2>4, <3>1, AttachNextIInv DEF ClientsInv
    <3> QED  BY <2>1, <2>4, <3>2 DEF ClientsInv
  <2> QED  BY <2>2, <2>3, <2>4 DEF ClientsInv
<1> QED  BY <1>1, <1>2, PTL DEF Spec

(* Whatever the transport, the client's state is well typed.                *)
THEOREM ClientsTyped == Spec => []TypeOK
<1>1. ClientsInv => TypeOK
  <2>1. /\ RconIInv => R!TypeOK
        /\ TelnetIInv => T!TypeOK
        /\ AttachIInv => A!TypeOK
    BY DEF RconIInv, TelnetIInv, AttachIInv
  <2> QED  BY <2>1 DEF ClientsInv, TypeOK
<1> QED  BY <1>1, ClientsInductive, PTL

(* No command goes out over RCON before the server has granted the log-in   *)
(* (rconcontrol/client.go authenticate), whatever the server answers.       *)
THEOREM ClientsAuthenticateFirst == Spec => []AuthenticatedFirst
<1>1. ClientsInv => AuthenticatedFirst
  BY DEF ClientsInv, AuthenticatedFirst, RconIInv, Course, R!AuthenticatedFirst
<1> QED  BY <1>1, ClientsInductive, PTL

(* A successful RCON call returns the reply in order, and all of it unless  *)
(* the server has pushed a packet of its own into it (executeCommand).      *)
THEOREM ClientsReturnReply == Spec => []OutputIsReply
<1>1. RconIInv => R!OutputIsReply
  BY RconOutput
<1>2. ClientsInv => OutputIsReply
  BY <1>1 DEF ClientsInv, OutputIsReply
<1> QED  BY <1>2, ClientsInductive, PTL

(* The drains of a telnet call take no part of the reply to its command     *)
(* (telnetcontrol/client.go drainTelnetGreeting).                           *)
THEOREM ClientsDrainNoReply == Spec => []ReplyNotDrained
<1>1. TelnetIInv => T!ReplyNotDrained
  BY TelnetOutput
<1>2. ClientsInv => ReplyNotDrained
  BY <1>1 DEF ClientsInv, ReplyNotDrained
<1> QED  BY <1>2, ClientsInductive, PTL

(* A successful Docker call has seen the answer the console gave while it   *)
(* was attached (dockercontrol/client.go collectAttachOutput).              *)
THEOREM ClientsSeeOwnReply == Spec => []OwnReplySeen
<1>1. AttachIInv => A!OwnReplySeen
  BY AttachOutput
<1>2. ClientsInv => OwnReplySeen
  BY <1>1 DEF ClientsInv, OwnReplySeen
<1> QED  BY <1>2, ClientsInductive, PTL

(* Whatever the transport, a call is what ConsoleCall says it is: it writes *)
(* its command at most once, succeeds only after it has and writes nothing  *)
(* when its context was cancelled before.                                   *)
THEOREM ClientsImplementConsoleCall == Spec => ImplementsConsoleCall
<1> DEFINE Starts == CASE transport = "rcon" -> R!Call!Init
                       [] transport = "telnet" -> T!Call!Init
                       [] transport = "docker" -> \A c \in Callers : A!Call(c)!Init
           Maps == CASE transport = "rcon" -> [R!Call!Next]_(R!Call!consoleCall)
                     [] transport = "telnet" -> [T!Call!Next]_(T!Call!consoleCall)
                     [] transport = "docker" ->
                          \A c \in Callers : [A!Call(c)!Next]_(A!Call(c)!consoleCall)
<1>1. Init => Starts
  <2>1. R!Init => R!Call!Init
    BY DEF R!Init, R!Call!Init
  <2>2. T!Init => T!Call!Init
    BY DEF T!Init, T!Call!Init
  <2>3. A!Init => \A c \in Callers : A!Call(c)!Init
    BY DEF A!Init, A!Call!Init
  <2> QED  BY <2>1, <2>2, <2>3 DEF Init
<1>2. ClientsInv /\ [Next]_vars => [Maps]_vars
  <2> SUFFICES ASSUME ClientsInv, Next PROVE Maps
    OBVIOUS
  <2>1. CASE transport = "rcon"
    <3>1. [R!Call!Next]_(R!Call!consoleCall)
      BY <2>1, StepOfOne, RconNextMaps DEF ClientsInv
    <3> QED  BY <2>1, <3>1
  <2>2. CASE transport = "telnet"
    <3>1. [T!Call!Next]_(T!Call!consoleCall)
      BY <2>2, StepOfOne, TelnetNextMaps DEF ClientsInv
    <3> QED  BY <2>2, <3>1
  <2>3. CASE transport = "docker"
    <3>1. \A c \in Callers : [A!Call(c)!Next]_(A!Call(c)!consoleCall)
      BY <2>3, StepOfOne, AttachNextMaps DEF ClientsInv
    <3> QED  BY <2>3, <3>1
  <2> QED  BY <2>1, <2>2, <2>3 DEF ClientsInv
<1> HIDE DEF Starts, Maps
<1>3. Spec => Starts /\ [][Maps]_vars
  BY <1>1, <1>2, ClientsInductive, PTL DEF Spec
<1> QED  BY <1>3 DEF ImplementsConsoleCall, Starts, Maps

=============================================================================
