--------------------------- MODULE DispatchProofs ---------------------------
(* Theorems about Dispatch, for any number of callers, any set of requests, *)
(* any resolution of targets, any fallback rule and any wiring.             *)
EXTENDS Dispatch, ListFacts

-----------------------------------------------------------------------------
(* Type correctness                                                         *)

(* Replacing an element of a sequence of sequences by a longer one.         *)
LEMMA AppendAt ==
  ASSUME NEW S, NEW s \in Seq(Seq(S)), NEW k \in Nat, NEW e \in S
  PROVE  [s EXCEPT ![k] = Append(@, e)] \in Seq(Seq(S))
<1>1. CASE k \in 1..Len(s)
  <2>1. Append(s[k], e) \in Seq(S)
    BY <1>1, AppendProperties, ElementOfSeq
  <2> QED  BY <1>1, <2>1, ExceptSeq
<1>2. CASE k \notin 1..Len(s)
  <2>1. [s EXCEPT ![k] = Append(@, e)] = s
    BY <1>2, LenProperties
  <2> QED  BY <2>1
<1> QED  BY <1>1, <1>2

(* An idle agent is well typed.                                             *)
LEMMA InitTypeOK == Init => TypeOK
  BY GameAssumption DEF Init, TypeOK, Places, Replies, NoRequest, BroadcastTransport

(* The initial values Begin gives a request. *)
LEMMA BeginTypeOK ==
  ASSUME TypeOK, NEW c \in Callers, NEW q \in Requests, Begin(c, q),
         pc' \in [Callers -> Places], reply' \in [Callers -> Replies]
  PROVE  TypeOK'
<1>1. Resolve(q) \in Seq(BroadcastTarget(Games)) /\ Blank \in Games
  BY RequestAssumption, GameAssumption
<1> DEFINE blank == [k \in 1..Len(Resolve(q)) |-> <<>>]
<1>2. blank \in Seq(Seq(BroadcastTransport))
  <2>1. Len(Resolve(q)) \in Nat
    BY <1>1
  <2>2. <<>> \in Seq(BroadcastTransport)
    OBVIOUS
  <2> QED  BY <2>1, <2>2, IsASeq
<1>3. wire' = [wire EXCEPT ![c] = blank]
  BY DEF Begin
<1> HIDE DEF blank
<1>4. wire' \in [Callers -> Seq(Seq(BroadcastTransport))]
  BY <1>2, <1>3 DEF TypeOK
<1> QED  BY <1>1, <1>4 DEF Begin, TypeOK, BroadcastTransport

(* A delivery appended to the result is well typed.                         *)
LEMMA DeliverTypeOK ==
  ASSUME TypeOK, NEW c \in Callers, NEW sent \in BOOLEAN, Deliver(c, sent),
         Len(out[c]) < Len(targets[c])
  PROVE  TypeOK'
<1>1. Target(c) \in BroadcastTarget(Games)
  <2>1. Pos(c) \in 1..Len(targets[c])
    BY DEF TypeOK, Pos
  <2> QED  BY <2>1 DEF TypeOK, Target
<1> DEFINE d == [ref |-> Target(c).ref, transport |-> via[c],
                 game |-> game[c], sent |-> sent]
<1>2. d \in BroadcastDelivery(Games)
  BY <1>1 DEF TypeOK, BroadcastTarget, BroadcastDelivery
<1>3. Append(out[c], d) \in Seq(BroadcastDelivery(Games))
  BY <1>2, AppendProperties DEF TypeOK
<1>4. out' = [out EXCEPT ![c] = Append(out[c], d)]
  BY DEF Deliver, TypeOK
<1>5. out' \in [Callers -> Seq(BroadcastDelivery(Games))]
  BY <1>3, <1>4 DEF TypeOK
<1> QED  BY <1>5 DEF Deliver, TypeOK, Places

-----------------------------------------------------------------------------
(* The inductive invariant                                                  *)

(* A caller works through its targets: what it may be doing at which pc.    *)
Shape(c) ==
  /\ pc[c] = "idle" => targets[c] = <<>>
  /\ pc[c] # "idle" => req[c] \in Requests
  /\ Len(wire[c]) = Len(targets[c])
  /\ Len(out[c]) <= Len(targets[c])
  /\ pc[c] \in {"ready", "calling", "written", "failed"} => Len(out[c]) < Len(targets[c])
  /\ pc[c] \in {"calling", "written", "failed"} => ~req[c].dry
  /\ Busy(c) => reply[c] = "none"
  /\ reply[c] = "accepted" => Len(out[c]) = Len(targets[c])

(* What holds of every target with a delivery ...                           *)
Settled(c, k) ==
  /\ out[c][k].ref = targets[c][k].ref
  /\ req[c].dry => ~out[c][k].sent /\ wire[c][k] = <<>>
  /\ ~req[c].dry => /\ wire[c][k] # <<>>
                    /\ out[c][k].transport = wire[c][k][Len(wire[c][k])]
                    /\ OneWrite(c, k)

(* ... and of the target being served: the executor called is the target's  *)
(* own, or the Docker console it fell back to.                              *)
Own(c) == via[c] = Target(c).transport

Fell(c) ==
  /\ via[c] = "docker"
  /\ Target(c).transport = "telnet"
  /\ Target(c).ref \in ConsoleRefs
  /\ FallbackGame(game[c])
  /\ req[c].kind # "command"
  /\ ~req[c].dry

Serving(c, own, fell) ==
  \/ Own(c) /\ wire[c][Pos(c)] \in own
  \/ Fell(c) /\ wire[c][Pos(c)] \in fell

Before == {<<>>, <<"telnet">>}
After == {<<"docker">>, <<"telnet", "docker">>}

Current(c) ==
  LET once == <<Target(c).transport>>
  IN  /\ pc[c] = "loop" => wire[c][Pos(c)] = <<>>
      /\ pc[c] \in {"ready", "calling"} => Serving(c, {<<>>}, Before)
      /\ pc[c] = "written" => Serving(c, {once}, After)
      /\ pc[c] = "failed" => Serving(c, {<<>>, once}, Before \cup After)
      /\ pc[c] = "done" => /\ OneWrite(c, Pos(c))
                           /\ req[c].dry => wire[c][Pos(c)] = <<>>

Cancelled(c) ==
  /\ ~gone[c] \/ pc[c] = "calling" => late[c] = 0
  /\ late[c] <= 1

CallerInv(c) ==
  /\ Shape(c)
  /\ \A k \in 1..Len(out[c]) : Settled(c, k)
  /\ Len(out[c]) < Len(targets[c]) => Current(c)
  /\ \A k \in 1..Len(wire[c]) : k > Pos(c) => wire[c][k] = <<>>
  /\ Cancelled(c)

IInv == TypeOK /\ \A c \in Callers : CallerInv(c)

(* The invariant holds before the first request.                            *)
LEMMA InitIInv == Init => IInv
<1> SUFFICES ASSUME Init, NEW c \in Callers PROVE CallerInv(c)
  BY InitTypeOK DEF IInv
<1>1. Shape(c) /\ Cancelled(c)
  BY DEF Init, Shape, Cancelled, Busy
<1> QED  BY <1>1 DEF Init, CallerInv, Pos

(* A step of one caller leaves the others alone.                            *)
Untouched(c) ==
  /\ req'[c] = req[c] /\ pc'[c] = pc[c] /\ targets'[c] = targets[c]
  /\ out'[c] = out[c] /\ game'[c] = game[c] /\ via'[c] = via[c]
  /\ gone'[c] = gone[c] /\ reply'[c] = reply[c] /\ wire'[c] = wire[c]
  /\ late'[c] = late[c]

(* A caller no action touched keeps its invariant.                          *)
LEMMA UntouchedInv ==
  ASSUME NEW c \in Callers, CallerInv(c), Untouched(c)
  PROVE  CallerInv(c)'
<1>1. Shape(c)' /\ Cancelled(c)'
  BY DEF CallerInv, Untouched, Shape, Cancelled, Busy
<1>2. ASSUME NEW k \in Nat PROVE /\ Settled(c, k)' <=> Settled(c, k)
                                 /\ OneWrite(c, k)' <=> OneWrite(c, k)
  BY DEF Untouched, Settled, OneWrite, GameAt
<1>3. Current(c)' <=> Current(c)
  BY <1>2 DEF Untouched, Current, Serving, Own, Fell, Target, Pos, OneWrite, GameAt
<1> QED  BY <1>1, <1>2, <1>3 DEF CallerInv, Untouched, Pos

(* An action of one caller leaves the others as they were.                  *)
LEMMA OthersUntouched ==
  ASSUME TypeOK, NEW c \in Callers, Arrive(c) \/ Step(c) \/ Cancel(c),
         NEW d \in Callers, d # c
  PROVE  Untouched(d)
<1>1. CASE Arrive(c)
  BY <1>1 DEF TypeOK, Arrive, Refuse, Accept, Begin, Answer, Untouched
<1>2. CASE Prepare(c)
  BY <1>2 DEF TypeOK, Prepare, Untouched
<1>3. CASE DryRun(c) \/ CallOk(c)
  BY <1>3 DEF TypeOK, DryRun, CallOk, Deliver, Untouched
<1>4. CASE Refused(c) \/ Panic(c) \/ GiveUp(c) \/ Finish(c)
  BY <1>4 DEF TypeOK, Refused, Panic, GiveUp, Finish, Answer, Untouched
<1>5. CASE Call(c) \/ CallFails(c) \/ Fallback(c)
  BY <1>5 DEF TypeOK, Call, CallFails, Fallback, Untouched
<1>6. CASE Write(c)
  BY <1>6 DEF TypeOK, Write, Untouched
<1>7. CASE Cancel(c)
  BY <1>7 DEF TypeOK, Cancel, Untouched
<1> QED  BY <1>1, <1>2, <1>3, <1>4, <1>5, <1>6, <1>7 DEF Step

(* Delivered targets stay as they are while the request, its targets and    *)
(* the deliveries do.                                                       *)
LEMMA SettledStays ==
  ASSUME NEW c \in Callers, NEW k \in 1..Len(out[c]), Settled(c, k),
         req'[c] = req[c], targets'[c] = targets[c],
         out'[c] = out[c], wire'[c][k] = wire[c][k]
  PROVE  Settled(c, k)'
  BY DEF Settled, OneWrite, GameAt

-----------------------------------------------------------------------------
(* One lemma per action: it preserves the invariant of its caller.          *)

(* Begin resets everything the invariant speaks of.                         *)
LEMMA ArriveInv ==
  ASSUME IInv, NEW c \in Callers, Arrive(c)
  PROVE  TypeOK' /\ CallerInv(c)'
<1>1. PICK q \in Requests : Refuse(c, q) \/ Accept(c, q)
  BY DEF Arrive
<1>2. Begin(c, q) /\ TypeOK
  BY <1>1 DEF Refuse, Accept, IInv
<1>3. /\ pc' \in [Callers -> Places] /\ reply' \in [Callers -> Replies]
      /\ pc'[c] \in {"loop", "done"}
      /\ reply'[c] = IF pc'[c] = "loop" THEN "none" ELSE "rejected"
  BY <1>1, <1>2 DEF Refuse, Accept, Answer, TypeOK, Places, Replies
<1>4. TypeOK'
  BY <1>2, <1>3, BeginTypeOK
<1>5. /\ req'[c] = q /\ targets'[c] = Resolve(q) /\ out'[c] = <<>>
      /\ gone'[c] = FALSE /\ late'[c] = 0
      /\ wire'[c] = [k \in 1..Len(Resolve(q)) |-> <<>>]
  BY <1>2 DEF Begin, TypeOK
<1>6. Len(Resolve(q)) \in Nat
  BY RequestAssumption
<1>7. Len(wire'[c]) = Len(Resolve(q)) /\ \A k \in 1..Len(Resolve(q)) : wire'[c][k] = <<>>
  BY <1>5, <1>6
<1>8. Shape(c)' /\ Cancelled(c)'
  BY <1>3, <1>5, <1>6, <1>7 DEF Shape, Cancelled, Busy
<1>9. Len(out'[c]) = 0 /\ Pos(c)' = 1
  BY <1>5 DEF Pos
<1>10. Len(out'[c]) < Len(targets'[c]) => Current(c)'
  BY <1>3, <1>5, <1>6, <1>7, <1>9 DEF Current, OneWrite
<1> QED  BY <1>4, <1>5, <1>6, <1>7, <1>8, <1>9, <1>10 DEF CallerInv

(* Prepare starts a target that has seen nothing yet.                       *)
LEMMA PrepareInv ==
  ASSUME IInv, NEW c \in Callers, Prepare(c)
  PROVE  TypeOK' /\ CallerInv(c)'
<1>1. TypeOK /\ CallerInv(c) /\ Pos(c) \in 1..Len(targets[c])
  BY DEF IInv, Prepare, Pos, TypeOK
<1>2. Target(c) \in BroadcastTarget(Games)
  BY <1>1 DEF TypeOK, Target
<1>3. PICK g \in GameAnswers(req[c], Target(c)) :
        game' = [game EXCEPT ![c] = ReportedGame(req[c], g)]
  BY DEF Prepare
<1>4. ReportedGame(req[c], g) \in Games
  BY <1>2, GameAssumption DEF GameAnswers, ReportedGame, BroadcastTarget
<1>5. TypeOK'
  BY <1>1, <1>2, <1>3, <1>4 DEF Prepare, TypeOK, BroadcastTarget, Places
<1>6. /\ pc[c] = "loop" /\ pc'[c] = "ready" /\ via'[c] = Target(c).transport
      /\ UNCHANGED <<req, targets, out, gone, reply, wire, late>>
  BY <1>1 DEF Prepare, TypeOK
<1>7. Shape(c)' /\ Cancelled(c)'
  BY <1>1, <1>6 DEF CallerInv, Shape, Cancelled, Busy, Prepare
<1>8. \A k \in 1..Len(out'[c]) : Settled(c, k)'
  BY <1>1, <1>6, SettledStays DEF CallerInv
<1>9. Current(c)'
  BY <1>1, <1>6 DEF CallerInv, Current, Serving, Own, Target, Pos, Prepare
<1> QED  BY <1>1, <1>5, <1>6, <1>7, <1>8, <1>9 DEF CallerInv, Pos

(* A delivery is appended: the target served becomes a settled one.         *)
LEMMA DeliverInv ==
  ASSUME IInv, NEW c \in Callers, NEW sent \in BOOLEAN, Deliver(c, sent),
         Len(out[c]) < Len(targets[c]), Busy(c), sent <=> ~req[c].dry,
         ~sent => wire[c][Pos(c)] = <<>>,
         sent => Serving(c, {<<Target(c).transport>>}, After)
  PROVE  TypeOK' /\ CallerInv(c)'
<1>1. PICK n \in Nat : n = Len(out[c])
  BY DEF IInv, TypeOK
<1>2. TypeOK /\ CallerInv(c) /\ Pos(c) = n + 1 /\ Len(targets[c]) \in Nat
  BY <1>1 DEF IInv, TypeOK, Pos
<1>3. TypeOK'
  BY <1>2, DeliverTypeOK
<1>4. PICK d : d = [ref |-> Target(c).ref, transport |-> via[c],
                    game |-> game[c], sent |-> sent]
  OBVIOUS
<1>5. /\ out'[c] = Append(out[c], d) /\ pc'[c] = "loop"
      /\ UNCHANGED <<req, targets, game, via, gone, reply, wire, late>>
  BY <1>2, <1>4 DEF Deliver, TypeOK
<1>6. /\ Len(out'[c]) = n + 1 /\ out'[c][n + 1] = d
      /\ \A k \in 1..n : out'[c][k] = out[c][k]
  BY <1>1, <1>2, <1>5, AppendProperties DEF TypeOK
<1>7. Shape(c)' /\ Cancelled(c)'
  BY <1>1, <1>2, <1>5, <1>6 DEF CallerInv, Shape, Cancelled, Busy
<1>8. ASSUME NEW k \in 1..n PROVE Settled(c, k)'
  <2>1. /\ Settled(c, k) /\ out'[c][k] = out[c][k]
        /\ k <= Len(out[c]) /\ k <= Len(out'[c])
    BY <1>1, <1>2, <1>6, <1>8 DEF CallerInv
  <2> QED  BY <1>5, <2>1 DEF Settled, OneWrite, GameAt
<1>9. PICK t, w : t = targets[c][n + 1] /\ w = wire[c][n + 1]
  OBVIOUS
<1>10. t = Target(c) /\ w = wire[c][Pos(c)]
  BY <1>2, <1>9 DEF Target
<1>11. GameAt(c, n + 1)' = game[c]
  BY <1>4, <1>6 DEF GameAt
<1>12. OneWrite(c, n + 1)' <=>
          \/ w \in {<<>>, <<t.transport>>}
          \/ /\ w \in After
             /\ t.transport = "telnet" /\ t.ref \in ConsoleRefs
             /\ FallbackGame(game[c]) /\ req[c].kind # "command"
  BY <1>5, <1>9, <1>11 DEF OneWrite, After
<1>13. Settled(c, n + 1)' <=>
          /\ d.ref = t.ref
          /\ req[c].dry => ~d.sent /\ w = <<>>
          /\ ~req[c].dry => /\ w # <<>> /\ d.transport = w[Len(w)]
                            /\ OneWrite(c, n + 1)'
  BY <1>5, <1>6, <1>9 DEF Settled
<1>14. d.ref = t.ref /\ d.sent = sent /\ d.transport = via[c]
  BY <1>4, <1>10
<1>15. ASSUME sent PROVE Settled(c, n + 1)'
  <2>1. \/ via[c] = t.transport /\ w = <<t.transport>>
        \/ Fell(c) /\ w \in After
    BY <1>10, <1>15 DEF Serving, Own
  <2>2. w # <<>> /\ via[c] = w[Len(w)]
    <3>1. CASE w = <<t.transport>>
      BY <2>1, <3>1 DEF Fell, After
    <3>2. CASE Fell(c) /\ w = <<"docker">>
      BY <3>2 DEF Fell
    <3>3. CASE Fell(c) /\ w = <<"telnet", "docker">>
      BY <3>3 DEF Fell
    <3> QED  BY <2>1, <3>1, <3>2, <3>3 DEF After
  <2>3. OneWrite(c, n + 1)'
    BY <1>10, <1>12, <2>1 DEF Fell
  <2> QED  BY <1>13, <1>14, <1>15, <2>2, <2>3
<1>16. ASSUME ~sent PROVE Settled(c, n + 1)'
  BY <1>10, <1>13, <1>14, <1>16
<1>17. \A k \in 1..Len(out'[c]) : Settled(c, k)'
  <2>1. Settled(c, n + 1)'
    BY <1>15, <1>16
  <2>2. \A k \in 1..(n + 1) : k = n + 1 \/ k \in 1..n
    OBVIOUS
  <2> QED  BY <1>6, <1>8, <2>1, <2>2
<1>18. \A k \in 1..Len(wire'[c]) : k > Pos(c)' => wire'[c][k] = <<>>
  BY <1>1, <1>2, <1>5, <1>6 DEF CallerInv, Pos
<1>19. Len(out'[c]) < Len(targets'[c]) => Current(c)'
  <2>1. Len(targets[c]) = Len(wire[c])
    BY <1>2 DEF CallerInv, Shape
  <2>2. Pos(c)' = n + 2
    BY <1>6 DEF Pos
  <2>3. n + 1 < Len(targets[c]) => wire[c][n + 2] = <<>>
    BY <1>2, <2>1 DEF CallerInv
  <2> QED  BY <1>5, <1>6, <2>2, <2>3 DEF Current
<1> QED  BY <1>3, <1>7, <1>17, <1>18, <1>19 DEF CallerInv

(* A dry run settles a target that nothing was written to.                  *)
LEMMA DryRunInv ==
  ASSUME IInv, NEW c \in Callers, DryRun(c)
  PROVE  TypeOK' /\ CallerInv(c)'
<1>1. CallerInv(c) /\ pc[c] = "ready" /\ req[c].dry /\ Deliver(c, FALSE)
  BY DEF IInv, DryRun
<1>2. Len(out[c]) < Len(targets[c]) /\ Busy(c)
  BY <1>1 DEF CallerInv, Shape, Busy
<1>3. wire[c][Pos(c)] = <<>>
  BY <1>1, <1>2 DEF CallerInv, Current, Serving, Fell
<1> QED  BY <1>1, <1>2, <1>3, DeliverInv

(* A call that returned settles a target that was written to.               *)
LEMMA CallOkInv ==
  ASSUME IInv, NEW c \in Callers, CallOk(c)
  PROVE  TypeOK' /\ CallerInv(c)'
<1>1. CallerInv(c) /\ pc[c] = "written" /\ Deliver(c, TRUE)
  BY DEF IInv, CallOk
<1>2. Len(out[c]) < Len(targets[c]) /\ Busy(c) /\ ~req[c].dry
  BY <1>1 DEF CallerInv, Shape, Busy
<1>3. Serving(c, {<<Target(c).transport>>}, After)
  BY <1>1, <1>2 DEF CallerInv, Current
<1> QED  BY <1>1, <1>2, <1>3, DeliverInv

(* The request is answered with an error while a target is being served.    *)
LEMMA EndInv ==
  ASSUME IInv, NEW c \in Callers, NEW r \in {"rejected", "aborted"}, Answer(c, r),
         pc[c] \in {"ready", "failed"}, ~req[c].dry,
         UNCHANGED <<req, targets, out, game, via, gone, wire, late>>
  PROVE  TypeOK' /\ CallerInv(c)'
<1>1. TypeOK /\ CallerInv(c) /\ Len(out[c]) < Len(targets[c]) /\ Len(out[c]) \in Nat
  <2>1. TypeOK /\ CallerInv(c) /\ Len(out[c]) \in Nat
    BY DEF IInv, TypeOK
  <2> QED  BY <2>1 DEF CallerInv, Shape
<1>2. TypeOK' /\ pc'[c] = "done" /\ reply'[c] = r
  BY <1>1 DEF TypeOK, Answer, Places, Replies
<1>3. Shape(c)' /\ Cancelled(c)'
  BY <1>1, <1>2 DEF CallerInv, Shape, Cancelled, Busy
<1>4. \A k \in 1..Len(out'[c]) : Settled(c, k)'
  BY <1>1, SettledStays DEF CallerInv
<1>5. Serving(c, {<<>>, <<Target(c).transport>>}, Before \cup After)
  BY <1>1 DEF CallerInv, Current, Serving
<1>6. OneWrite(c, Pos(c))
  <2>1. GameAt(c, Pos(c)) = game[c]
    BY <1>1 DEF GameAt, Pos
  <2> QED  BY <1>5, <2>1 DEF Serving, Own, Fell, Target, OneWrite, Before, After
<1>7. Current(c)'
  BY <1>2, <1>6 DEF Current, OneWrite, GameAt, Pos
<1> QED  BY <1>1, <1>2, <1>3, <1>4, <1>7 DEF CallerInv, Pos

(* A missing executor or credential ends the request before any call.       *)
LEMMA RefusedInv ==
  ASSUME IInv, NEW c \in Callers, Refused(c)
  PROVE  TypeOK' /\ CallerInv(c)'
  BY EndInv DEF Refused

(* Calling a nil client ends the request before any write.                  *)
LEMMA PanicInv ==
  ASSUME IInv, NEW c \in Callers, Panic(c)
  PROVE  TypeOK' /\ CallerInv(c)'
  BY EndInv DEF Panic

(* The failure of a target ends the request.                                *)
LEMMA GiveUpInv ==
  ASSUME IInv, NEW c \in Callers, GiveUp(c)
  PROVE  TypeOK' /\ CallerInv(c)'
<1>1. ~req[c].dry
  BY DEF GiveUp, IInv, CallerInv, Shape
<1> QED  BY <1>1, EndInv DEF GiveUp

(* A step inside a delivery that writes nothing.                            *)
LEMMA MoveInv ==
  ASSUME IInv, NEW c \in Callers, TypeOK',
         pc[c] \in {"ready", "calling", "written", "failed"}, ~req[c].dry,
         pc'[c] \in {"ready", "calling", "failed"},
         pc'[c] = "calling" => ~gone[c], Current(c)',
         UNCHANGED <<req, targets, out, gone, reply, wire, late>>
  PROVE  TypeOK' /\ CallerInv(c)'
<1>1. CallerInv(c)
  BY DEF IInv
<1>2. Len(out[c]) < Len(targets[c])
  BY <1>1 DEF CallerInv, Shape
<1>3. Shape(c)' /\ Cancelled(c)'
  BY <1>1, <1>2 DEF CallerInv, Shape, Cancelled, Busy
<1>4. \A k \in 1..Len(out'[c]) : Settled(c, k)'
  BY <1>1, SettledStays DEF CallerInv
<1> QED  BY <1>1, <1>3, <1>4 DEF CallerInv, Pos

(* A call started with a cancelled context fails before it writes.          *)
LEMMA CallInv ==
  ASSUME IInv, NEW c \in Callers, Call(c)
  PROVE  TypeOK' /\ CallerInv(c)'
<1>1. TypeOK /\ CallerInv(c) /\ pc[c] = "ready"
  BY DEF IInv, Call
<1>2. /\ pc'[c] \in {"calling", "failed"}
      /\ pc'[c] = "calling" => ~gone[c]
      /\ UNCHANGED <<req, targets, out, game, via, gone, reply, wire, late>>
  BY <1>1 DEF Call, TypeOK
<1>3. TypeOK'
  BY <1>1 DEF Call, TypeOK, Places
<1>4. Serving(c, {<<>>}, Before)
  BY <1>1 DEF CallerInv, Shape, Current
<1>5. Serving(c, {<<>>}, Before)'
  BY <1>2, <1>4 DEF Serving, Own, Fell, Target, Pos, Before
<1>6. Current(c)'
  <2>1. Serving(c, {<<>>, <<Target(c).transport>>}, Before \cup After)'
    BY <1>5 DEF Serving
  <2>2. CASE pc'[c] = "calling"
    BY <1>5, <2>2 DEF Current
  <2>3. CASE pc'[c] = "failed"
    BY <2>1, <2>3 DEF Current
  <2> QED  BY <1>2, <2>2, <2>3
<1> QED  BY <1>1, <1>2, <1>3, <1>6, MoveInv DEF Call

(* A call fails before or after its write.                                  *)
LEMMA CallFailsInv ==
  ASSUME IInv, NEW c \in Callers, CallFails(c)
  PROVE  TypeOK' /\ CallerInv(c)'
<1>1. TypeOK /\ CallerInv(c) /\ pc[c] \in {"calling", "written"}
  BY DEF IInv, CallFails
<1>2. /\ pc'[c] = "failed"
      /\ UNCHANGED <<req, targets, out, game, via, gone, reply, wire, late>>
  BY <1>1 DEF CallFails, TypeOK
<1>3. TypeOK'
  BY <1>1 DEF CallFails, TypeOK, Places
<1>4. Serving(c, {<<>>}, Before) \/ Serving(c, {<<Target(c).transport>>}, After)
  BY <1>1 DEF CallerInv, Shape, Current
<1>5. Serving(c, {<<>>, <<Target(c).transport>>}, Before \cup After)'
  BY <1>2, <1>4 DEF Serving, Own, Fell, Target, Pos
<1>6. Current(c)'
  BY <1>2, <1>5 DEF Current
<1>7. ~req[c].dry
  BY <1>1 DEF CallerInv, Shape
<1> QED  BY <1>1, <1>2, <1>3, <1>6, <1>7, MoveInv

(* Falling back: a failed telnet call of the target's own transport, since  *)
(* a target that fell back already calls Docker.                            *)
LEMMA FallbackInv ==
  ASSUME IInv, NEW c \in Callers, Fallback(c)
  PROVE  TypeOK' /\ CallerInv(c)'
<1>1. TypeOK /\ CallerInv(c) /\ pc[c] = "failed" /\ MayFallBack(c)
  BY DEF IInv, Fallback
<1>2. /\ pc'[c] = "ready" /\ via'[c] = "docker"
      /\ UNCHANGED <<req, targets, out, game, gone, reply, wire, late>>
  BY <1>1 DEF Fallback, TypeOK
<1>3. TypeOK'
  BY <1>1 DEF Fallback, TypeOK, Places, BroadcastTransport
<1>4. ~req[c].dry /\ Serving(c, {<<>>, <<Target(c).transport>>}, Before \cup After)
  BY <1>1 DEF CallerInv, Shape, Current
<1>5. Own(c) /\ wire[c][Pos(c)] \in Before /\ Target(c).transport = "telnet"
  BY <1>1, <1>4 DEF MayFallBack, Serving, Own, Fell, Before
<1>6. Serving(c, {<<>>}, Before)'
  BY <1>1, <1>2, <1>4, <1>5 DEF MayFallBack, Serving, Fell, Target, Pos
<1>7. Current(c)'
  BY <1>2, <1>6 DEF Current
<1> QED  BY <1>1, <1>2, <1>3, <1>4, <1>7, MoveInv

(* The two writes a target that fell back may have seen.                    *)
LEMMA TelnetThenDocker == Append(<<"telnet">>, "docker") = <<"telnet", "docker">>
<1> USE DEF BroadcastTransport
<1>1. /\ <<"telnet">> \in Seq(BroadcastTransport) /\ "docker" \in BroadcastTransport
      /\ <<"telnet", "docker">> \in Seq(BroadcastTransport)
  OBVIOUS
<1>2. /\ Append(<<"telnet">>, "docker") \in Seq(BroadcastTransport)
      /\ Len(Append(<<"telnet">>, "docker")) = 2
      /\ \A i \in 1..2 : Append(<<"telnet">>, "docker")[i] = <<"telnet", "docker">>[i]
  BY <1>1, AppendProperties
<1>3. Len(<<"telnet", "docker">>) = 2
  OBVIOUS
<1> QED  BY <1>1, <1>2, <1>3, SeqEqual

(* The write: the executor's transport is appended to what the target saw.  *)
LEMMA WriteInv ==
  ASSUME IInv, NEW c \in Callers, Write(c)
  PROVE  TypeOK' /\ CallerInv(c)'
<1>1. TypeOK /\ CallerInv(c) /\ pc[c] = "calling"
  BY DEF IInv, Write
<1>2. PICK n \in Nat : n = Len(out[c])
  BY <1>1 DEF TypeOK
<1>3. /\ Pos(c) = n + 1 /\ n + 1 \in 1..Len(targets[c]) /\ Len(wire[c]) = Len(targets[c])
      /\ ~req[c].dry /\ reply[c] = "none" /\ Len(targets[c]) \in Nat
  BY <1>1, <1>2 DEF CallerInv, Shape, Pos, TypeOK, Busy
<1>4. PICK w : w = wire[c][n + 1]
  OBVIOUS
<1>5. /\ wire' = [wire EXCEPT ![c] = [wire[c] EXCEPT ![n + 1] = Append(@, via[c])]]
      /\ pc' = [pc EXCEPT ![c] = "written"]
      /\ late' = [late EXCEPT ![c] = IF gone[c] THEN late[c] + 1 ELSE late[c]]
      /\ UNCHANGED <<req, targets, out, game, via, gone, reply>>
  BY <1>3 DEF Write
<1>6. TypeOK'
  <2>1. [wire[c] EXCEPT ![n + 1] = Append(@, via[c])] \in Seq(Seq(BroadcastTransport))
    BY <1>1, AppendAt DEF TypeOK
  <2>2. wire' \in [Callers -> Seq(Seq(BroadcastTransport))]
    BY <1>1, <1>5, <2>1 DEF TypeOK
  <2> QED  BY <1>1, <1>5, <2>2 DEF TypeOK, Places
<1>7. wire'[c] = [wire[c] EXCEPT ![n + 1] = Append(w, via[c])]
  BY <1>1, <1>4, <1>5 DEF TypeOK
<1>8. /\ Len(wire'[c]) = Len(wire[c]) /\ wire'[c][n + 1] = Append(w, via[c])
      /\ \A k \in 1..Len(wire[c]) : k # n + 1 => wire'[c][k] = wire[c][k]
  <2>1. wire[c] \in Seq(Seq(BroadcastTransport)) /\ Append(w, via[c]) \in Seq(BroadcastTransport)
    <3>1. wire[c] \in Seq(Seq(BroadcastTransport)) /\ via[c] \in BroadcastTransport
      BY <1>1 DEF TypeOK
    <3>2. w \in Seq(BroadcastTransport)
      BY <1>3, <1>4, <3>1, ElementOfSeq
    <3> QED  BY <3>1, <3>2, AppendProperties
  <2> QED  BY <1>3, <1>7, <2>1, ExceptSeq
<1>9. pc'[c] = "written" /\ late'[c] = IF gone[c] THEN 1 ELSE 0
  BY <1>1, <1>5 DEF TypeOK, CallerInv, Cancelled
<1>10. Shape(c)' /\ Cancelled(c)'
  BY <1>1, <1>3, <1>5, <1>8, <1>9 DEF CallerInv, Shape, Cancelled, Busy
<1>11. \A k \in 1..Len(out'[c]) : Settled(c, k)'
  <2>1. SUFFICES ASSUME NEW k \in 1..n PROVE Settled(c, k)'
    BY <1>2, <1>5
  <2>2. wire'[c][k] = wire[c][k] /\ k \in 1..Len(out[c])
    BY <1>2, <1>3, <1>8
  <2> QED  BY <1>1, <1>5, <2>2, SettledStays DEF CallerInv
<1>12. Serving(c, {<<>>}, Before)
  BY <1>1, <1>2, <1>3 DEF CallerInv, Current
<1>13. Serving(c, {<<Target(c).transport>>}, After)'
  <2>1. Own(c)' <=> Own(c)
    BY <1>5 DEF Own, Target, Pos
  <2>2. Fell(c)' <=> Fell(c)
    BY <1>5 DEF Fell, Target, Pos
  <2>3. wire'[c][Pos(c)'] = Append(w, via[c]) /\ Target(c)' = Target(c)
    BY <1>3, <1>5, <1>8 DEF Target, Pos
  <2>4. CASE Own(c) /\ w = <<>>
    BY <2>1, <2>3, <2>4 DEF Serving, Own
  <2>5. CASE Fell(c) /\ w \in Before
    <3>1. Append(w, via[c]) \in After
      <4>1. CASE w = <<>>
        BY <2>5, <4>1 DEF Fell, After
      <4>2. CASE w = <<"telnet">>
        BY <2>5, <4>2, TelnetThenDocker DEF Fell, After
      <4> QED  BY <2>5, <4>1, <4>2 DEF Before
    <3> QED  BY <2>2, <2>3, <2>5, <3>1 DEF Serving
  <2> QED  BY <1>3, <1>4, <1>12, <2>4, <2>5 DEF Serving
<1>14. Current(c)'
  BY <1>9, <1>13 DEF Current
<1>15. \A k \in 1..Len(wire'[c]) : k > Pos(c)' => wire'[c][k] = <<>>
  BY <1>1, <1>3, <1>5, <1>8 DEF CallerInv, Pos
<1> QED  BY <1>6, <1>10, <1>11, <1>14, <1>15 DEF CallerInv

(* The loop ends when every target is settled.                              *)
LEMMA FinishInv ==
  ASSUME IInv, NEW c \in Callers, Finish(c)
  PROVE  TypeOK' /\ CallerInv(c)'
<1>1. TypeOK /\ CallerInv(c) /\ Len(out[c]) = Len(targets[c]) /\ Len(out[c]) \in Nat
  BY DEF IInv, Finish, TypeOK
<1>2. /\ TypeOK' /\ pc[c] = "loop" /\ pc'[c] = "done" /\ reply'[c] = "accepted"
      /\ UNCHANGED <<req, targets, out, game, via, gone, wire, late>>
  BY <1>1 DEF TypeOK, Finish, Answer, Places, Replies
<1>3. Shape(c)' /\ Cancelled(c)'
  BY <1>1, <1>2 DEF CallerInv, Shape, Cancelled, Busy
<1>4. \A k \in 1..Len(out'[c]) : Settled(c, k)'
  BY <1>1, <1>2, SettledStays DEF CallerInv
<1> QED  BY <1>1, <1>2, <1>3, <1>4 DEF CallerInv, Pos

(* A client that goes away leaves at most the call then in flight.          *)
LEMMA CancelInv ==
  ASSUME IInv, NEW c \in Callers, Cancel(c)
  PROVE  TypeOK' /\ CallerInv(c)'
<1>1. TypeOK /\ CallerInv(c) /\ Busy(c) /\ ~gone[c]
  BY DEF IInv, Cancel
<1>2. /\ TypeOK' /\ gone'[c] = TRUE
      /\ UNCHANGED <<req, pc, targets, out, game, via, reply, wire, late>>
  BY <1>1 DEF TypeOK, Cancel
<1>3. Shape(c)' /\ Cancelled(c)'
  BY <1>1, <1>2 DEF CallerInv, Shape, Cancelled, Busy
<1>4. \A k \in 1..Len(out'[c]) : Settled(c, k)'
  BY <1>1, <1>2, SettledStays DEF CallerInv
<1>5. Current(c)' <=> Current(c)
  BY <1>2 DEF Current, Serving, Own, Fell, Target, Pos, OneWrite, GameAt
<1> QED  BY <1>1, <1>2, <1>3, <1>4, <1>5 DEF CallerInv, Pos

-----------------------------------------------------------------------------
(* The invariant is inductive, and implies the properties.                  *)

(* Every step of a caller preserves the invariant.                          *)
LEMMA StepIInv ==
  ASSUME IInv, NEW c \in Callers, Arrive(c) \/ Step(c) \/ Cancel(c)
  PROVE  IInv'
<1>1. TypeOK' /\ CallerInv(c)'
  BY ArriveInv, PrepareInv, DryRunInv, RefusedInv, PanicInv, CallInv, WriteInv,
     CallOkInv, CallFailsInv, FallbackInv, GiveUpInv, FinishInv, CancelInv
     DEF Step
<1>2. ASSUME NEW d \in Callers, d # c PROVE CallerInv(d)'
  BY <1>2, OthersUntouched, UntouchedInv DEF IInv
<1> QED  BY <1>1, <1>2 DEF IInv

(* Every step of the agent preserves the invariant.                         *)
LEMMA NextIInv == IInv /\ [Next]_vars => IInv'
<1> SUFFICES ASSUME IInv, [Next]_vars PROVE IInv'
  OBVIOUS
<1>1. CASE Next
  BY <1>1, StepIInv DEF Next
<1>2. CASE UNCHANGED vars
  <2>1. TypeOK'
    BY <1>2 DEF IInv, TypeOK, vars
  <2>2. ASSUME NEW c \in Callers PROVE CallerInv(c)'
    BY <1>2, UntouchedInv DEF IInv, Untouched, vars
  <2> QED  BY <2>1, <2>2 DEF IInv
<1> QED  BY <1>1, <1>2

(* IInv holds in every state: what a caller may be doing, and what its       *)
(* targets have seen so far, at each place of the loop.                      *)
THEOREM Inductive == Spec => []IInv
  BY InitIInv, NextIInv, PTL DEF Spec

(* Type correctness of the dispatch state.                                  *)
THEOREM TypeCorrect == Spec => []TypeOK
  BY Inductive, PTL DEF IInv

(* The three parts of a caller's targets: delivered, being served, to come. *)
LEMMA Parts ==
  ASSUME IInv, NEW c \in Callers, NEW k \in DOMAIN wire[c]
  PROVE  /\ CallerInv(c) /\ k \in 1..Len(wire[c]) /\ pc[c] # "idle" /\ pc[c] \in Places
         /\ \/ k \in 1..Len(out[c]) /\ Settled(c, k)
            \/ k = Pos(c) /\ Current(c)
            \/ k > Pos(c) /\ wire[c][k] = <<>>
<1>1. CallerInv(c) /\ TypeOK
  BY DEF IInv
<1>2. /\ k \in 1..Len(wire[c]) /\ Len(out[c]) \in Nat /\ Len(wire[c]) \in Nat
      /\ Len(wire[c]) = Len(targets[c])
  BY <1>1 DEF CallerInv, Shape, TypeOK
<1>3. pc[c] # "idle"
  BY <1>1, <1>2 DEF CallerInv, Shape
<1>4. CASE k <= Len(out[c])
  BY <1>1, <1>2, <1>3, <1>4 DEF CallerInv, TypeOK
<1>5. CASE k = Pos(c)
  BY <1>1, <1>2, <1>3, <1>5 DEF CallerInv, Pos, TypeOK
<1>6. CASE k > Pos(c)
  BY <1>1, <1>2, <1>3, <1>6 DEF CallerInv, TypeOK
<1> QED  BY <1>2, <1>4, <1>5, <1>6 DEF Pos

(* The target being served, at any place: nothing in a dry run, and never    *)
(* more than OneWrite allows.                                                *)
LEMMA CurrentOneWrite ==
  ASSUME NEW c \in Callers, CallerInv(c), Current(c), Len(out[c]) \in Nat,
         pc[c] \in Places, pc[c] # "idle"
  PROVE  OneWrite(c, Pos(c)) /\ (req[c].dry => wire[c][Pos(c)] = <<>>)
<1>1. CASE pc[c] = "done"
  BY <1>1 DEF Current
<1>2. CASE pc[c] = "loop"
  BY <1>2 DEF Current, OneWrite
<1>3. CASE pc[c] \in {"ready", "calling", "written", "failed"}
  <2>1. Serving(c, {<<>>, <<Target(c).transport>>}, Before \cup After)
    BY <1>3 DEF Current, Serving
  <2>2. GameAt(c, Pos(c)) = game[c]
    BY DEF GameAt, Pos
  <2>3. OneWrite(c, Pos(c))
    BY <2>1, <2>2 DEF Serving, Own, Fell, Target, OneWrite, Before, After
  <2>4. req[c].dry => pc[c] = "ready"
    BY <1>3 DEF CallerInv, Shape
  <2>5. req[c].dry => wire[c][Pos(c)] = <<>>
    BY <2>4 DEF Current, Serving, Fell
  <2> QED  BY <2>3, <2>5
<1> QED  BY <1>1, <1>2, <1>3 DEF Places

(* A dry run writes to no console and reports no delivery as sent.           *)
THEOREM DryRunIsSilent == Spec => []DryRunSilent
<1>1. IInv => DryRunSilent
  <2> SUFFICES ASSUME IInv, NEW c \in Callers, req[c].dry, pc[c] # "idle"
               PROVE  /\ \A k \in DOMAIN wire[c] : wire[c][k] = <<>>
                      /\ \A k \in DOMAIN out[c] : ~out[c][k].sent
    BY DEF DryRunSilent
  <2>1. CallerInv(c) /\ DOMAIN out[c] = 1..Len(out[c]) /\ Len(out[c]) \in Nat
    BY DEF IInv, TypeOK
  <2>2. ASSUME NEW k \in DOMAIN wire[c] PROVE wire[c][k] = <<>>
    BY <2>1, Parts, CurrentOneWrite DEF Settled
  <2>3. ASSUME NEW k \in DOMAIN out[c] PROVE ~out[c][k].sent
    BY <2>1 DEF CallerInv, Settled
  <2> QED  BY <2>2, <2>3
<1> QED  BY <1>1, Inductive, PTL

(* An accepted live request reached every target, over the transport it     *)
(* reports.                                                                  *)
THEOREM AcceptedIsDelivered == Spec => []AcceptedMeansDelivered
<1>1. IInv => AcceptedMeansDelivered
  <2> SUFFICES ASSUME IInv, NEW c \in Callers, Live(c), reply[c] = "accepted"
               PROVE  /\ Len(out[c]) = Len(targets[c])
                      /\ \A k \in DOMAIN targets[c] :
                           /\ out[c][k].ref = targets[c][k].ref
                           /\ wire[c][k] # <<>>
                           /\ out[c][k].transport = wire[c][k][Len(wire[c][k])]
    BY DEF AcceptedMeansDelivered
  <2>1. CallerInv(c) /\ DOMAIN targets[c] = 1..Len(targets[c])
    BY DEF IInv, TypeOK
  <2>2. Len(out[c]) = Len(targets[c])
    BY <2>1 DEF CallerInv, Shape
  <2> QED  BY <2>1, <2>2 DEF CallerInv, Settled, Live
<1> QED  BY <1>1, Inductive, PTL

(* The invariant bounds the writes of every target, whatever its part.      *)
LEMMA InvWritesOnce == IInv => OneWritePerTransport
<1> SUFFICES ASSUME IInv, NEW c \in Callers, NEW k \in DOMAIN wire[c]
             PROVE  OneWrite(c, k)
  BY DEF OneWritePerTransport
<1>1. Len(out[c]) \in Nat
  BY DEF IInv, TypeOK
<1>2. CASE wire[c][k] = <<>>
  BY <1>2 DEF OneWrite
<1>3. CASE k \in 1..Len(out[c]) /\ Settled(c, k)
  BY <1>2, <1>3 DEF Settled
<1> QED  BY <1>1, <1>2, <1>3, Parts, CurrentOneWrite

(* One write per target and transport, and Docker after telnet only where    *)
(* the fallback rules allow it.                                              *)
THEOREM WritesOnce == Spec => []OneWritePerTransport
  BY InvWritesOnce, Inductive, PTL

(* At most one command is written after the client has gone.                 *)
THEOREM CancelStops == Spec => []CancelStopsFanOut
<1>1. IInv => CancelStopsFanOut
  BY DEF IInv, CallerInv, Cancelled, CancelStopsFanOut
<1> QED  BY <1>1, Inductive, PTL

-----------------------------------------------------------------------------
(* Relays.  resolveBroadcastTargets filters a relay's targets by transport; *)
(* that filter is all the theorem assumes of target resolution.             *)

RelayInv ==
  \A c \in Callers : req[c].kind = "relay" =>
    /\ \A k \in 1..Len(targets[c]) : targets[c][k].transport = "rcon"
    /\ reply[c] # "aborted"

(* A relay calls no executor but RCON's, so if that one is not broken the    *)
(* relay never panics, and no step of another request touches its targets.   *)
LEMMA RelayStep ==
  ASSUME Wiring["rcon"] # "broken",
         \A q \in Requests : q.kind = "relay" =>
           \A k \in 1..Len(Resolve(q)) : Resolve(q)[k].transport = "rcon",
         IInv, RelayInv, [Next]_vars
  PROVE  RelayInv'
<1>1. CASE UNCHANGED vars
  BY <1>1 DEF vars, RelayInv
<1>2. CASE Next
  <2>1. PICK c \in Callers : Arrive(c) \/ Step(c) \/ Cancel(c)
    BY <1>2 DEF Next
  <2>2. TypeOK /\ CallerInv(c)
    BY DEF IInv
  <2> DEFINE Quiet(d) == /\ \A k \in 1..Len(targets[d]) : targets[d][k].transport = "rcon"
                         /\ reply[d] # "aborted"
  <2>3. ASSUME NEW d \in Callers, d # c, req'[d].kind = "relay" PROVE Quiet(d)'
    <3>1. Untouched(d)
      BY <2>1, <2>2, <2>3, OthersUntouched
    <3> QED  BY <2>3, <3>1 DEF Untouched, RelayInv
  <2>4. ASSUME req'[c].kind = "relay" PROVE Quiet(c)'
    <3>1. CASE Arrive(c)
      <4>1. PICK q \in Requests : Begin(c, q) /\ reply'[c] \in {"none", "rejected"}
        BY <2>2, <3>1 DEF Arrive, Refuse, Accept, Answer, Begin, TypeOK
      <4>2. req'[c] = q /\ targets'[c] = Resolve(q)
        BY <2>2, <4>1 DEF Begin, TypeOK
      <4> QED  BY <2>4, <4>1, <4>2
    <3>2. CASE Panic(c)
      <4>1. req[c].kind = "relay" /\ pc[c] = "ready" /\ Wiring[via[c]] = "broken"
        BY <2>4, <3>2 DEF Panic
      <4>2. Current(c) /\ Pos(c) \in 1..Len(targets[c])
        BY <2>2, <4>1 DEF CallerInv, Shape, Pos, TypeOK
      <4>3. Target(c).transport = "rcon"
        BY <4>1, <4>2 DEF RelayInv, Target
      <4> QED  BY <4>1, <4>2, <4>3 DEF Current, Serving, Own, Fell
    <3>3. CASE (Step(c) \/ Cancel(c)) /\ ~Panic(c)
      <4>1. UNCHANGED <<req, targets>> /\ reply'[c] \in {reply[c], "accepted", "rejected"}
        BY <2>2, <3>3 DEF TypeOK, Step, Prepare, DryRun, Refused, Call, Write, CallOk,
           CallFails, Fallback, GiveUp, Finish, Cancel, Deliver, Answer
      <4> QED  BY <2>4, <4>1 DEF RelayInv
    <3> QED  BY <2>1, <3>1, <3>2, <3>3
  <2> QED  BY <2>3, <2>4 DEF RelayInv
<1> QED  BY <1>1, <1>2

(* The same for any resolution that leads relays to RCON targets.           *)
LEMMA RelaysOfRCONTargets ==
  ASSUME Wiring["rcon"] # "broken",
         \A q \in Requests : q.kind = "relay" =>
           \A k \in 1..Len(Resolve(q)) : Resolve(q)[k].transport = "rcon"
  PROVE  Spec => []RelayUsesRCONOnly
<1>1. Init => RelayInv
  BY DEF Init, RelayInv, NoRequest
<1>2. IInv /\ RelayInv /\ [Next]_vars => RelayInv'
  BY RelayStep
<1>3. IInv /\ RelayInv => RelayUsesRCONOnly
  <2> SUFFICES ASSUME IInv, RelayInv, NEW c \in Callers, req[c].kind = "relay",
                      NEW k \in DOMAIN wire[c]
               PROVE  wire[c][k] \in {<<>>, <<"rcon">>}
    BY DEF RelayUsesRCONOnly, RelayInv
  <2>1. OneWrite(c, k)
    BY InvWritesOnce DEF OneWritePerTransport
  <2>2. k \in 1..Len(targets[c])
    BY Parts DEF CallerInv, Shape
  <2>3. targets[c][k].transport = "rcon"
    BY <2>2 DEF RelayInv
  <2> QED  BY <2>1, <2>3 DEF OneWrite
<1> QED  BY <1>1, <1>2, <1>3, Inductive, PTL DEF Spec

(* Whatever is configured and whatever becomes of the Docker client, a       *)
(* relayed chat message leaves the agent over RCON only and never meets a    *)
(* panic: e is the environment, and relays are resolved as Broadcast does.   *)
THEOREM RelayOnRCON ==
  ASSUME NEW e, Pairs(e, Settings), Wiring["rcon"] # "broken",
         \A q \in Requests : q.kind = "relay" =>
           /\ IsQuery(q) /\ q.transport = "rcon"
           /\ Resolve(q) = resolveBroadcastTargets(NewDockerCommander(FromEnv(e)), q)
  PROVE  Spec => []RelayUsesRCONOnly
<1>1. \A q \in Requests : q.kind = "relay" =>
        \A k \in 1..Len(Resolve(q)) : Resolve(q)[k].transport = "rcon"
  BY RCONRequestFindsRCON
<1> QED  BY <1>1, RelaysOfRCONTargets

-----------------------------------------------------------------------------
(* Dispatch implements FanOut: for every caller, each step of the loop is a *)
(* step of the fan-out over that caller's targets, or leaves it unchanged.  *)

(* An idle caller is an idle fan-out.                                       *)
LEMMA InitMaps == Init => \A c \in Callers : Request(c)!Init
<1> SUFFICES ASSUME Init, NEW c \in Callers PROVE Request(c)!Init
  OBVIOUS
<1>1. /\ pc[c] = "idle" /\ targets[c] = <<>> /\ out[c] = <<>> /\ wire[c] = <<>>
  BY DEF Init
<1>2. Reached(c) = {} /\ Len(targets[c]) = 0 /\ Len(out[c]) = 0
  BY <1>1 DEF Reached
<1>3. Live(c) = FALSE
  BY <1>1 DEF Live
<1>4. Verdict(c) = "idle"
  BY <1>1 DEF Verdict, Busy
<1> QED  BY <1>2, <1>3, <1>4 DEF Request!Init

(* What a caller's request shows of itself is the same before and after.    *)
LEMMA Stutter ==
  ASSUME NEW c \in Callers, Live(c)' <=> Live(c),
         targets'[c] = targets[c], out'[c] = out[c], wire'[c] = wire[c],
         Verdict(c)' = Verdict(c)
  PROVE  [Request(c)!Next]_(Request(c)!fanOut)
<1>1. Reached(c)' = Reached(c)
  BY DEF Reached
<1>2. Live(c)' = Live(c)
  BY DEF Live
<1> QED  BY <1>1, <1>2 DEF Request!fanOut

(* A caller no action touched stutters.                                     *)
LEMMA UntouchedMaps ==
  ASSUME NEW c \in Callers, Untouched(c)
  PROVE  [Request(c)!Next]_(Request(c)!fanOut)
<1>1. (Live(c)' <=> Live(c)) /\ Verdict(c)' = Verdict(c)
  BY DEF Untouched, Live, Verdict, Busy
<1> QED  BY <1>1, Stutter DEF Untouched

(* An arrival starts a fan-out, open or refused outright.                   *)
LEMMA ArriveMaps ==
  ASSUME TypeOK, NEW c \in Callers, Arrive(c)
  PROVE  Request(c)!Start
<1>1. PICK q \in Requests : Refuse(c, q) \/ Accept(c, q)
  BY DEF Arrive
<1>2. Begin(c, q)
  BY <1>1 DEF Refuse, Accept
<1>3. /\ req'[c] = q /\ targets'[c] = Resolve(q) /\ out'[c] = <<>>
      /\ wire'[c] = [k \in 1..Len(Resolve(q)) |-> <<>>]
  BY <1>2 DEF Begin, TypeOK
<1>4. \/ pc'[c] = "loop"
      \/ pc'[c] = "done" /\ reply'[c] = "rejected"
  BY <1>1 DEF Refuse, Accept, Answer, TypeOK
<1>5. Verdict(c) # "open" /\ Verdict(c)' \in {"open", "rejected"}
  BY <1>2, <1>4 DEF Begin, Verdict, Busy
<1>6. Len(targets[c])' \in Nat
  BY <1>3, RequestAssumption
<1>7. Reached(c)' = {} /\ Len(out[c])' = 0
  BY <1>3 DEF Reached
<1>8. Live(c)' \in BOOLEAN
  BY DEF Live
<1> QED  BY <1>5, <1>6, <1>7, <1>8 DEF Request!Start

(* The write reaches the item being served.                                 *)
LEMMA WriteMaps ==
  ASSUME IInv, NEW c \in Callers, Write(c)
  PROVE  Request(c)!Reach
<1>1. TypeOK /\ CallerInv(c) /\ pc[c] = "calling"
  BY DEF IInv, Write
<1>2. PICK p \in Nat : p = Pos(c)
  BY <1>1 DEF TypeOK, Pos
<1>3. /\ Len(out[c]) < Len(targets[c]) /\ ~req[c].dry /\ p = Len(out[c]) + 1
      /\ p \in 1..Len(wire[c]) /\ Len(wire[c]) \in Nat
  BY <1>1, <1>2 DEF CallerInv, Shape, TypeOK, Pos
<1>4. /\ UNCHANGED <<req, targets, out, reply>> /\ pc'[c] = "written"
      /\ wire'[c] = [wire[c] EXCEPT ![p] = Append(@, via[c])]
  BY <1>1, <1>2 DEF TypeOK, Write
<1>5. wire[c] \in Seq(Seq(BroadcastTransport)) /\ via[c] \in BroadcastTransport
  BY <1>1 DEF TypeOK
<1>6. /\ Append(wire[c][p], via[c]) \in Seq(BroadcastTransport)
      /\ Append(wire[c][p], via[c]) # <<>>
  <2>1. wire[c][p] \in Seq(BroadcastTransport)
    BY <1>3, <1>5, ElementOfSeq
  <2>2. \A s \in Seq(BroadcastTransport), e \in BroadcastTransport :
          Append(s, e) \in Seq(BroadcastTransport) /\ Append(s, e) # <<>>
    BY AppendProperties
  <2> QED  BY <1>5, <2>1, <2>2
<1>7. /\ DOMAIN wire'[c] = DOMAIN wire[c] /\ wire'[c][p] # <<>> /\ p \in DOMAIN wire[c]
      /\ \A k \in DOMAIN wire[c] : k # p => wire'[c][k] = wire[c][k]
  <2>1. DOMAIN wire[c] = 1..Len(wire[c]) /\ p \in DOMAIN wire[c]
    BY <1>3, <1>5
  <2> QED  BY <1>4, <1>6, <2>1
<1>8. Reached(c)' = Reached(c) \cup {p}
  BY <1>7 DEF Reached
<1>9. Live(c) = TRUE /\ Live(c)' = TRUE
  BY <1>1, <1>3, <1>4 DEF Live
<1>10. Verdict(c) = "open" /\ Verdict(c)' = "open"
  BY <1>1, <1>4 DEF Verdict, Busy
<1> QED  BY <1>3, <1>4, <1>8, <1>9, <1>10 DEF Request!Reach

(* A delivery completes the item, which a live request has reached.         *)
LEMMA DeliverMaps ==
  ASSUME IInv, NEW c \in Callers, DryRun(c) \/ CallOk(c)
  PROVE  Request(c)!Complete
<1>1. TypeOK /\ CallerInv(c) /\ pc[c] \in {"ready", "written"}
  BY DEF IInv, DryRun, CallOk
<1>2. PICK p \in Nat : p = Pos(c)
  BY <1>1 DEF TypeOK, Pos
<1>3. /\ Len(out[c]) < Len(targets[c]) /\ p = Len(out[c]) + 1
      /\ p \in DOMAIN wire[c] /\ Current(c)
  BY <1>1, <1>2 DEF CallerInv, Shape, TypeOK, Pos
<1>4. PICK d : out'[c] = Append(out[c], d)
  BY <1>1 DEF TypeOK, DryRun, CallOk, Deliver
<1>5. UNCHANGED <<req, targets, wire, reply>> /\ pc'[c] = "loop"
  BY <1>1 DEF TypeOK, DryRun, CallOk, Deliver
<1>6. Len(out[c])' = Len(out[c]) + 1
  BY <1>1, <1>4 DEF TypeOK
<1>7. Live(c) => p \in Reached(c)
  <2>1. CASE DryRun(c)
    BY <2>1 DEF Live, DryRun
  <2>2. ASSUME pc[c] = "written" PROVE wire[c][p] # <<>>
    <3>1. Serving(c, {<<Target(c).transport>>}, After)
      BY <1>3, <2>2 DEF Current
    <3>2. \/ wire[c][p] = <<Target(c).transport>>
          \/ wire[c][p] = <<"docker">> \/ wire[c][p] = <<"telnet", "docker">>
      BY <1>2, <3>1 DEF Serving, After
    <3>3. <<Target(c).transport>> # <<>>
      OBVIOUS
    <3>4. <<"docker">> # <<>> /\ <<"telnet", "docker">> # <<>>
      OBVIOUS
    <3> QED  BY <3>2, <3>3, <3>4
  <2>3. CASE CallOk(c)
    BY <1>3, <2>2, <2>3 DEF Reached, CallOk
  <2> QED  BY <2>1, <2>3 DEF Live
<1>8. Live(c)' = Live(c) /\ Reached(c)' = Reached(c)
  BY <1>1, <1>5 DEF Live, Reached
<1>9. Verdict(c) = "open" /\ Verdict(c)' = "open"
  BY <1>1, <1>5 DEF Verdict, Busy
<1>10. /\ p \in (Len(out[c]) + 1)..Len(targets[c]) /\ Len(out[c])' = p
       /\ (Len(out[c]) + 1)..p = {p}
  BY <1>1, <1>3, <1>6 DEF TypeOK
<1> QED  BY <1>5, <1>7, <1>8, <1>9, <1>10 DEF Request!Complete

(* Every answer of the loop closes the fan-out.                             *)
LEMMA AnswerMaps ==
  ASSUME TypeOK, NEW c \in Callers, Refused(c) \/ Panic(c) \/ GiveUp(c) \/ Finish(c)
  PROVE  Request(c)!Next
<1>1. /\ UNCHANGED <<req, targets, out, wire>> /\ pc'[c] = "done"
      /\ pc[c] \in {"ready", "failed", "loop"}
  BY DEF TypeOK, Refused, Panic, GiveUp, Finish, Answer
<1>2. Live(c)' = Live(c) /\ Reached(c)' = Reached(c) /\ Verdict(c) = "open"
  BY <1>1 DEF Live, Reached, Verdict, Busy
<1>3. CASE Finish(c)
  <2>1. Verdict(c)' = "accepted" /\ Len(out[c]) = Len(targets[c])
    BY <1>1, <1>3 DEF TypeOK, Finish, Answer, Verdict, Busy
  <2> QED  BY <1>1, <1>2, <2>1 DEF Request!Next, Request!Accept
<1>4. CASE Refused(c) \/ Panic(c) \/ GiveUp(c)
  <2>1. Verdict(c)' = "rejected"
    BY <1>1, <1>4 DEF TypeOK, Refused, Panic, GiveUp, Answer, Verdict, Busy
  <2> QED  BY <1>1, <1>2, <2>1 DEF Request!Next, Request!Reject
<1> QED  BY <1>3, <1>4

(* The steps inside a delivery that write nothing stutter.                  *)
LEMMA SilentMaps ==
  ASSUME TypeOK, NEW c \in Callers,
         Prepare(c) \/ Call(c) \/ CallFails(c) \/ Fallback(c) \/ Cancel(c)
  PROVE  [Request(c)!Next]_(Request(c)!fanOut)
<1>1. UNCHANGED <<req, targets, out, wire, reply>>
  BY DEF Prepare, Call, CallFails, Fallback, Cancel
<1>2. Busy(c) /\ Busy(c)'
  BY DEF TypeOK, Prepare, Call, CallFails, Fallback, Cancel, Busy
<1>3. (Live(c)' <=> Live(c)) /\ Verdict(c)' = Verdict(c)
  BY <1>1, <1>2 DEF Live, Verdict, Busy
<1> QED  BY <1>1, <1>3, Stutter

(* Every step of the agent is, for each caller, a fan-out step or a stutter.*)
LEMMA NextMaps ==
  ASSUME IInv, [Next]_vars, NEW d \in Callers
  PROVE  [Request(d)!Next]_(Request(d)!fanOut)
<1>1. CASE UNCHANGED vars
  BY <1>1, UntouchedMaps DEF vars, Untouched
<1>2. CASE Next
  <2>1. PICK c \in Callers : Arrive(c) \/ Step(c) \/ Cancel(c)
    BY <1>2 DEF Next
  <2>2. TypeOK
    BY DEF IInv
  <2>3. CASE d # c
    BY <2>1, <2>2, <2>3, OthersUntouched, UntouchedMaps
  <2>4. CASE d = c
    <3>1. CASE Arrive(c)
      BY <2>2, <2>4, <3>1, ArriveMaps DEF Request!Next
    <3>2. CASE Write(c)
      BY <2>4, <3>2, WriteMaps DEF Request!Next
    <3>3. CASE DryRun(c) \/ CallOk(c)
      BY <2>4, <3>3, DeliverMaps DEF Request!Next
    <3>4. CASE Refused(c) \/ Panic(c) \/ GiveUp(c) \/ Finish(c)
      BY <2>2, <2>4, <3>4, AnswerMaps
    <3>5. CASE Prepare(c) \/ Call(c) \/ CallFails(c) \/ Fallback(c) \/ Cancel(c)
      BY <2>2, <2>4, <3>5, SilentMaps
    <3> QED  BY <2>1, <3>1, <3>2, <3>3, <3>4, <3>5 DEF Step
  <2> QED  BY <2>3, <2>4
<1> QED  BY <1>1, <1>2

(* Every caller's request is a FanOut, whatever the requests, the targets   *)
(* and the wiring of the executors.                                         *)
THEOREM Refines == Spec => ImplementsFanOut
<1>1. IInv /\ [Next]_vars =>
        [\A c \in Callers : [Request(c)!Next]_(Request(c)!fanOut)]_vars
  BY NextMaps
<1> QED  BY <1>1, InitMaps, Inductive, PTL DEF Spec, ImplementsFanOut

=============================================================================
