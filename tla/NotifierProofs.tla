--------------------------- MODULE NotifierProofs ---------------------------
(* Theorems about Notifier, for any number of callers, any requests and any *)
(* default channels.                                                        *)
EXTENDS Notifier, ListFacts

-----------------------------------------------------------------------------
(* The inductive invariant                                                  *)

Channels(c) == channelIDs(req[c])

(* The channels of a request are a list without repetition, of channels     *)
(* that the request names, or the configuration if it names none.           *)
LEMMA ChannelFacts ==
  ASSUME NEW q \in Requests \cup {NoRequest}
  PROVE  LET named == ToSet(FlattenSeq(q.channels)) \ {Blank}
             ids == channelIDs(q)
         IN  /\ ids \in Seq(STRING) /\ IsInjective(ids)
             /\ \A k \in DOMAIN ids :
                  ids[k] \in IF named = {} THEN ToSet(FlattenSeq(DefaultChannels)) ELSE named
<1> DEFINE own == normalizeChannelIDs(q.channels)
           configured == normalizeChannelIDs(DefaultChannels)
<1>1. q.channels \in Seq(Seq(STRING))
  <2>1. CASE q \in Requests
    BY <2>1, RequestAssumption
  <2>2. CASE q = NoRequest
    <3>1. q.channels = <<>>
      BY <2>2 DEF NoRequest
    <3>2. <<>> \in Seq(Seq(STRING))
      OBVIOUS
    <3> QED  BY <3>1, <3>2
  <2> QED  BY <2>1, <2>2
<1>2. /\ own \in Seq(STRING) /\ IsInjective(own)
      /\ ToSet(own) = ToSet(FlattenSeq(q.channels)) \ {Blank}
  BY <1>1, DistinctPartsFacts DEF normalizeChannelIDs
<1>3. /\ configured \in Seq(STRING) /\ IsInjective(configured)
      /\ ToSet(configured) = ToSet(FlattenSeq(DefaultChannels)) \ {Blank}
  BY DefaultsAssumption, DistinctPartsFacts DEF normalizeChannelIDs
<1>4. channelIDs(q) = IF own = <<>> THEN configured ELSE own
  BY DEF channelIDs
<1> HIDE DEF own, configured
<1>5. own = <<>> <=> ToSet(own) = {}
  <2>1. own = <<>> => ToSet(own) = {}
    BY DEF ToSet
  <2>2. own # <<>> => 1 \in DOMAIN own
    BY <1>2, EmptySeq
  <2> QED  BY <2>1, <2>2 DEF ToSet
<1>6. /\ \A k \in DOMAIN own : own[k] \in ToSet(own)
      /\ \A k \in DOMAIN configured : configured[k] \in ToSet(configured)
  BY DEF ToSet
<1>7. CASE own = <<>>
  BY <1>2, <1>3, <1>4, <1>5, <1>6, <1>7
<1>8. CASE own # <<>>
  BY <1>2, <1>3, <1>4, <1>5, <1>6, <1>8
<1> QED  BY <1>7, <1>8

LEMMA ChannelLists ==
  \A q \in Requests \cup {NoRequest} : channelIDs(q) \in Seq(STRING)
BY ChannelFacts

(* The channels reported so far are the first ones of the request.          *)
Prefix(c) ==
  /\ Len(delivered[c]) <= Len(Channels(c))
  /\ \A i \in 1..Len(delivered[c]) : delivered[c][i] = Channels(c)[i]

(* What was posted is what was reported, and at most the channel after.     *)
Posts(c) ==
  /\ pc[c] \in {"idle", "report"} => posted[c] = <<>> /\ delivered[c] = <<>>
  /\ DryRun(req[c]) => posted[c] = <<>>
  /\ pc[c] \in {"loop", "sending"} /\ ~DryRun(req[c]) => posted[c] = delivered[c]
  /\ pc[c] = "posted" => posted[c] = Append(delivered[c], Channel(c))
  /\ pc[c] \in {"sending", "posted"} =>
       ~DryRun(req[c]) /\ Len(delivered[c]) < Len(Channels(c))
  /\ pc[c] = "report" => DryRun(req[c])
  /\ pc[c] = "loop" /\ DryRun(req[c]) => Len(delivered[c]) = Len(Channels(c))
  /\ Busy(c) => Channels(c) # <<>>

(* A caller is answered once it has finished.                               *)
Answers(c) ==
  /\ pc[c] # "done" => reply[c] = "none"
  /\ pc[c] = "done" => reply[c] # "none"
  /\ reply[c] = "accepted" =>
       /\ delivered[c] = Channels(c)
       /\ posted[c] = IF DryRun(req[c]) THEN <<>> ELSE delivered[c]

(* A caller whose client is there has posted nothing late; one whose client *)
(* has gone does not get past the check before the next channel.            *)
Lateness(c) ==
  /\ late[c] <= 1
  /\ gone[c] = FALSE \/ pc[c] = "sending" => late[c] = 0

CallerInv(c) == Prefix(c) /\ Posts(c) /\ Answers(c) /\ Lateness(c)

IInv == TypeOK /\ \A c \in Callers : CallerInv(c)

Untouched(c) ==
  /\ req'[c] = req[c] /\ pc'[c] = pc[c] /\ delivered'[c] = delivered[c] /\ gone'[c] = gone[c]
  /\ reply'[c] = reply[c] /\ posted'[c] = posted[c] /\ late'[c] = late[c]

-----------------------------------------------------------------------------
(* Every step keeps it                                                      *)

(* The requests of the callers, and with them their channels, are known.    *)
LEMMA Listed ==
  ASSUME TypeOK, NEW c \in Callers
  PROVE  /\ Channels(c) \in Seq(STRING) /\ Len(Channels(c)) \in Nat
         /\ delivered[c] \in Seq(STRING) /\ Len(delivered[c]) \in Nat
         /\ posted[c] \in Seq(STRING)
         /\ Len(delivered[c]) < Len(Channels(c)) => Channel(c) \in STRING
  BY ChannelLists, ElementOfSeq DEF TypeOK, Channels, Channel

LEMMA InitIInv == Init => IInv
<1> SUFFICES ASSUME Init PROVE IInv
  OBVIOUS
<1>1. TypeOK
  <2>1. \A c \in Callers : Len(delivered[c]) <= Len(channelIDs(req[c]))
    <3>1. ASSUME NEW c \in Callers PROVE Len(delivered[c]) <= Len(channelIDs(req[c]))
      <4>1. delivered[c] = <<>> /\ req[c] = NoRequest
        BY DEF Init
      <4>2. channelIDs(NoRequest) \in Seq(STRING)
        BY ChannelLists
      <4>3. Len(channelIDs(NoRequest)) \in Nat /\ Len(<<>>) = 0
        BY <4>2
      <4> QED  BY <4>1, <4>3
    <3> QED  BY <3>1
  <2> QED  BY <2>1 DEF Init, TypeOK
<1>2. ASSUME NEW c \in Callers PROVE CallerInv(c)
  <2>1. /\ req[c] = NoRequest /\ pc[c] = "idle" /\ delivered[c] = <<>> /\ gone[c] = FALSE
        /\ reply[c] = "none" /\ posted[c] = <<>> /\ late[c] = 0
    BY DEF Init
  <2>2. ~Busy(c)
    BY <2>1 DEF Busy
  <2>3. Len(delivered[c]) = 0 /\ 1..0 = {} /\ Len(Channels(c)) \in Nat
    BY <1>1, <2>1, Listed
  <2>4. Prefix(c)
    BY <2>3 DEF Prefix
  <2>5. Posts(c) /\ Answers(c) /\ Lateness(c)
    BY <2>1, <2>2 DEF Posts, Answers, Lateness
  <2> QED  BY <2>4, <2>5 DEF CallerInv
<1> QED  BY <1>1, <1>2 DEF IInv

(* A caller no action touched keeps what held of it.                        *)
LEMMA UntouchedInv ==
  ASSUME NEW c \in Callers, CallerInv(c), Untouched(c)
  PROVE  CallerInv(c)'
<1>1. Prefix(c)'
  BY DEF CallerInv, Untouched, Prefix, Channels
<1>2. Posts(c)' /\ Answers(c)' /\ Lateness(c)'
  BY DEF CallerInv, Untouched, Posts, Answers, Lateness, Channels, Channel, Busy
<1> QED  BY <1>1, <1>2 DEF CallerInv

(* An action concerns one caller.                                           *)
LEMMA OthersUntouched ==
  ASSUME TypeOK, NEW c \in Callers, NEW d \in Callers, d # c,
         (\E q \in Requests : Trigger(c, q)) \/ Step(c) \/ Cancel(c)
  PROVE  Untouched(d)
<1>1. CASE \E q \in Requests : Trigger(c, q)
  BY <1>1 DEF TypeOK, Trigger, Answer, Untouched
<1>2. CASE Report(c) \/ Check(c) \/ Post(c)
  BY <1>2 DEF TypeOK, Report, Check, Post, Answer, Untouched
<1>3. CASE SendOk(c) \/ SendFails(c) \/ Finish(c) \/ Cancel(c)
  BY <1>3 DEF TypeOK, SendOk, SendFails, Finish, Cancel, Answer, Untouched
<1> QED  BY <1>1, <1>2, <1>3 DEF Step

(* A request arrives.                                                       *)
LEMMA TriggerInv ==
  ASSUME IInv, NEW c \in Callers, NEW q \in Requests, Trigger(c, q)
  PROVE  TypeOK' /\ CallerInv(c)'
<1>1. TypeOK /\ channelIDs(q) \in Seq(STRING) /\ Len(channelIDs(q)) \in Nat
  BY ChannelLists DEF IInv
<1>2. /\ req'[c] = q /\ delivered'[c] = <<>> /\ gone'[c] = FALSE /\ posted'[c] = <<>> /\ late'[c] = 0
      /\ \/ pc'[c] = "done" /\ reply'[c] = "rejected"
         \/ /\ pc'[c] = IF DryRun(q) THEN "report" ELSE "loop"
            /\ reply'[c] = "none" /\ channelIDs(q) # <<>>
  BY <1>1 DEF Trigger, Answer, Invalid, TypeOK
<1>3. Len(delivered'[c]) = 0 /\ 1..0 = {}
  BY <1>2
<1>4. TypeOK'
  <2>1. /\ req' \in [Callers -> Requests \cup {NoRequest}] /\ gone' \in [Callers -> BOOLEAN]
        /\ delivered' \in [Callers -> Seq(STRING)] /\ posted' \in [Callers -> Seq(STRING)]
        /\ late' \in [Callers -> Nat]
    BY <1>1 DEF Trigger, TypeOK
  <2>2. /\ pc' \in [Callers -> {"idle", "report", "loop", "sending", "posted", "done"}]
        /\ reply' \in [Callers -> {"none", "accepted", "rejected", "timeout"}]
    BY <1>1 DEF Trigger, Answer, TypeOK
  <2>3. ASSUME NEW d \in Callers PROVE Len(delivered'[d]) <= Len(channelIDs(req'[d]))
    BY <1>1, <1>2, <1>3 DEF Trigger, TypeOK
  <2> QED  BY <2>1, <2>2, <2>3 DEF TypeOK
<1>5. Prefix(c)'
  BY <1>1, <1>2, <1>3 DEF Prefix, Channels
<1>6. Posts(c)'
  BY <1>2 DEF Posts, Channels, Busy
<1>7. Answers(c)' /\ Lateness(c)'
  BY <1>2 DEF Answers, Lateness
<1> QED  BY <1>4, <1>5, <1>6, <1>7 DEF CallerInv

(* A dry run reports all its channels at once.                              *)
LEMMA ReportInv ==
  ASSUME IInv, NEW c \in Callers, Report(c)
  PROVE  TypeOK' /\ CallerInv(c)'
<1>1. TypeOK /\ CallerInv(c) /\ Channels(c) \in Seq(STRING) /\ Len(Channels(c)) \in Nat
  BY Listed DEF IInv
<1>2. /\ req' = req /\ gone' = gone /\ reply' = reply /\ posted' = posted /\ late' = late
      /\ delivered'[c] = Channels(c) /\ pc[c] = "report" /\ pc'[c] = "loop"
  BY <1>1 DEF Report, TypeOK, Channels
<1>3. TypeOK'
  <2>1. delivered' \in [Callers -> Seq(STRING)]
    BY <1>1 DEF Report, TypeOK, Channels
  <2>2. \A d \in Callers : Len(delivered'[d]) <= Len(channelIDs(req'[d]))
    BY <1>1 DEF Report, TypeOK, Channels
  <2>3. pc' \in [Callers -> {"idle", "report", "loop", "sending", "posted", "done"}]
    BY <1>1 DEF Report, TypeOK
  <2> QED  BY <1>1, <1>2, <2>1, <2>2, <2>3 DEF TypeOK
<1>4. DryRun(req[c]) /\ posted[c] = <<>> /\ Channels(c) # <<>> /\ reply[c] = "none"
      /\ Lateness(c)
  BY <1>1, <1>2 DEF CallerInv, Posts, Answers, Busy
<1>5. Prefix(c)'
  BY <1>1, <1>2 DEF Prefix, Channels
<1>6. Posts(c)' /\ Answers(c)' /\ Lateness(c)'
  BY <1>1, <1>2, <1>4 DEF Posts, Answers, Lateness, Channels, Busy
<1> QED  BY <1>3, <1>5, <1>6 DEF CallerInv

(* Steps that leave the channels posted and reported alone.                 *)
LEMMA QuietInv ==
  ASSUME IInv, NEW c \in Callers, Check(c) \/ SendFails(c) \/ Finish(c) \/ Cancel(c)
  PROVE  TypeOK' /\ CallerInv(c)'
<1>1. TypeOK /\ CallerInv(c) /\ Channels(c) \in Seq(STRING) /\ delivered[c] \in Seq(STRING)
      /\ Len(Channels(c)) \in Nat /\ Len(delivered[c]) \in Nat
  BY Listed DEF IInv
<1>2. req' = req /\ delivered' = delivered /\ posted' = posted /\ late' = late
  BY DEF Check, SendFails, Finish, Cancel
<1>3. TypeOK'
  <2>1. /\ pc' \in [Callers -> {"idle", "report", "loop", "sending", "posted", "done"}]
        /\ reply' \in [Callers -> {"none", "accepted", "rejected", "timeout"}]
        /\ gone' \in [Callers -> BOOLEAN]
    BY <1>1 DEF Check, SendFails, Finish, Cancel, Answer, TypeOK
  <2> QED  BY <1>1, <1>2, <2>1 DEF TypeOK
<1>4. Prefix(c)'
  BY <1>1, <1>2 DEF CallerInv, Prefix, Channels
<1>5. CASE Check(c)
  <2>1. /\ pc[c] = "loop" /\ gone' = gone /\ Len(delivered[c]) < Len(Channels(c))
        /\ \/ pc'[c] = "done" /\ reply'[c] = "timeout"
           \/ pc'[c] = "sending" /\ reply'[c] = reply[c] /\ gone[c] = FALSE
    <3>1. pc[c] = "loop" /\ gone' = gone /\ Len(delivered[c]) < Len(Channels(c))
      BY <1>5 DEF Check, Channels
    <3>2. CASE gone[c]
      BY <1>1, <1>5, <3>1, <3>2 DEF Check, Answer, TypeOK
    <3>3. CASE ~gone[c]
      BY <1>1, <1>5, <3>1, <3>3 DEF Check, TypeOK
    <3> QED  BY <3>2, <3>3
  <2>2. Posts(c)'
    BY <1>1, <1>2, <2>1 DEF CallerInv, Posts, Channels, Busy
  <2>3. Answers(c)' /\ Lateness(c)'
    BY <1>1, <1>2, <2>1 DEF CallerInv, Answers, Lateness
  <2> QED  BY <1>3, <1>4, <2>2, <2>3 DEF CallerInv
<1>6. CASE SendFails(c)
  <2>1. pc'[c] = "done" /\ reply'[c] \in {"rejected", "timeout"} /\ gone' = gone
    BY <1>1, <1>6 DEF SendFails, Answer, TypeOK
  <2>2. Posts(c)' /\ Answers(c)' /\ Lateness(c)'
    BY <1>1, <1>2, <2>1 DEF CallerInv, Posts, Answers, Lateness, Channels, Busy
  <2> QED  BY <1>3, <1>4, <2>2 DEF CallerInv
<1>7. CASE Finish(c)
  <2>1. /\ pc[c] = "loop" /\ pc'[c] = "done" /\ reply'[c] = "accepted" /\ gone' = gone
        /\ Len(delivered[c]) = Len(Channels(c))
    BY <1>1, <1>7 DEF Finish, Answer, TypeOK, Channels
  <2>2. delivered[c] = Channels(c)
    <3>1. \A i \in 1..Len(delivered[c]) : delivered[c][i] = Channels(c)[i]
      BY <1>1 DEF CallerInv, Prefix
    <3> QED  BY <1>1, <2>1, <3>1, SeqEqual
  <2>3. posted[c] = IF DryRun(req[c]) THEN <<>> ELSE delivered[c]
    BY <1>1, <2>1 DEF CallerInv, Posts
  <2>4. Posts(c)'
    BY <1>1, <1>2, <2>1 DEF CallerInv, Posts, Channels, Busy
  <2>5. Answers(c)' /\ Lateness(c)'
    BY <1>1, <1>2, <2>1, <2>2, <2>3 DEF CallerInv, Answers, Lateness, Channels
  <2> QED  BY <1>3, <1>4, <2>4, <2>5 DEF CallerInv
<1>8. CASE Cancel(c)
  <2>1. pc' = pc /\ reply' = reply /\ gone'[c] = TRUE /\ gone[c] = FALSE
    BY <1>1, <1>8 DEF Cancel, TypeOK
  <2>2. Posts(c)' /\ Answers(c)' /\ Lateness(c)'
    BY <1>1, <1>2, <2>1 DEF CallerInv, Posts, Answers, Lateness, Channels, Channel, Busy
  <2> QED  BY <1>3, <1>4, <2>2 DEF CallerInv
<1> QED  BY <1>5, <1>6, <1>7, <1>8

(* The message appears in the channel being served.                         *)
LEMMA PostInv ==
  ASSUME IInv, NEW c \in Callers, Post(c)
  PROVE  TypeOK' /\ CallerInv(c)'
<1>1. TypeOK /\ CallerInv(c) /\ late[c] \in Nat /\ gone[c] \in BOOLEAN
  BY DEF IInv, TypeOK
<1>2. /\ req' = req /\ delivered' = delivered /\ gone' = gone /\ reply' = reply
      /\ pc[c] = "sending" /\ pc'[c] = "posted" /\ posted'[c] = Append(posted[c], Channel(c))
      /\ late'[c] = IF gone[c] THEN late[c] + 1 ELSE late[c]
  BY <1>1 DEF Post, TypeOK
<1>3. /\ ~DryRun(req[c]) /\ posted[c] = delivered[c] /\ Len(delivered[c]) < Len(Channels(c))
      /\ late[c] = 0 /\ reply[c] = "none" /\ Channels(c) # <<>>
  BY <1>1, <1>2 DEF CallerInv, Posts, Answers, Lateness, Busy
<1>4. TypeOK'
  <2>1. Append(posted[c], Channel(c)) \in Seq(STRING)
    BY <1>1, <1>3, Listed, AppendProperties
  <2>2. posted' \in [Callers -> Seq(STRING)]
    BY <1>1, <2>1 DEF Post, TypeOK
  <2>3. late' \in [Callers -> Nat]
    BY <1>1 DEF Post, TypeOK
  <2>4. pc' \in [Callers -> {"idle", "report", "loop", "sending", "posted", "done"}]
    BY <1>1 DEF Post, TypeOK
  <2> QED  BY <1>1, <1>2, <2>2, <2>3, <2>4 DEF TypeOK
<1>5. Prefix(c)'
  BY <1>1, <1>2 DEF CallerInv, Prefix, Channels
<1>6. Posts(c)' /\ Answers(c)'
  BY <1>1, <1>2, <1>3 DEF Posts, Answers, Channels, Channel, Busy
<1>7. Lateness(c)'
  <2>1. late'[c] \in {0, 1} /\ (gone[c] = FALSE => late'[c] = 0)
    BY <1>1, <1>2, <1>3
  <2> QED  BY <1>2, <2>1 DEF Lateness
<1> QED  BY <1>4, <1>5, <1>6, <1>7 DEF CallerInv

(* The call for a channel returns without an error.                         *)
LEMMA SendOkInv ==
  ASSUME IInv, NEW c \in Callers, SendOk(c)
  PROVE  TypeOK' /\ CallerInv(c)'
<1> DEFINE n == Len(delivered[c])
<1>1. TypeOK /\ CallerInv(c) /\ delivered[c] \in Seq(STRING) /\ n \in Nat
      /\ Channels(c) \in Seq(STRING) /\ Len(Channels(c)) \in Nat
  BY Listed DEF IInv
<1>2. /\ req' = req /\ gone' = gone /\ reply' = reply /\ posted' = posted /\ late' = late
      /\ pc[c] = "posted" /\ pc'[c] = "loop" /\ delivered'[c] = Append(delivered[c], Channel(c))
  BY <1>1 DEF SendOk, TypeOK
<1>3. /\ ~DryRun(req[c]) /\ posted[c] = Append(delivered[c], Channel(c)) /\ n < Len(Channels(c))
      /\ reply[c] = "none" /\ Channels(c) # <<>> /\ Channel(c) \in STRING
      /\ Channel(c) = Channels(c)[n + 1]
  BY <1>1, <1>2, Listed DEF CallerInv, Posts, Answers, Busy, Channels, Channel
<1>4. /\ delivered'[c] \in Seq(STRING) /\ Len(delivered'[c]) = n + 1
      /\ delivered'[c][n + 1] = Channels(c)[n + 1]
      /\ \A i \in 1..n : delivered'[c][i] = delivered[c][i]
  BY <1>1, <1>2, <1>3, AppendProperties
<1>5. TypeOK'
  <2>1. delivered' \in [Callers -> Seq(STRING)]
    BY <1>1, <1>2, <1>4 DEF SendOk, TypeOK
  <2>2. ASSUME NEW d \in Callers PROVE Len(delivered'[d]) <= Len(channelIDs(req'[d]))
    <3>1. CASE d = c
      BY <1>1, <1>2, <1>3, <1>4, <3>1 DEF Channels
    <3>2. CASE d # c
      BY <1>1, <1>2, <3>2 DEF SendOk, TypeOK
    <3> QED  BY <3>1, <3>2
  <2>3. pc' \in [Callers -> {"idle", "report", "loop", "sending", "posted", "done"}]
    BY <1>1 DEF SendOk, TypeOK
  <2> QED  BY <1>1, <1>2, <2>1, <2>2, <2>3 DEF TypeOK
<1>6. Prefix(c)'
  <2>1. \A i \in 1..(n + 1) : i \in 1..n \/ i = n + 1
    BY <1>1
  <2>2. \A i \in 1..(n + 1) : delivered'[c][i] = Channels(c)[i]
    BY <1>1, <1>4, <2>1 DEF CallerInv, Prefix
  <2>3. n + 1 <= Len(Channels(c))
    BY <1>1, <1>3
  <2> QED  BY <1>2, <1>4, <2>2, <2>3 DEF Prefix, Channels
<1>7. Posts(c)' /\ Answers(c)' /\ Lateness(c)'
  BY <1>1, <1>2, <1>3 DEF CallerInv, Posts, Answers, Lateness, Channels, Busy
<1> QED  BY <1>5, <1>6, <1>7 DEF CallerInv

LEMMA NextIInv == IInv /\ [Next]_vars => IInv'
<1> SUFFICES ASSUME IInv, [Next]_vars PROVE IInv'
  OBVIOUS
<1>1. TypeOK /\ \A c \in Callers : CallerInv(c)
  BY DEF IInv
<1>2. CASE UNCHANGED vars
  <2>1. TypeOK'
    BY <1>1, <1>2 DEF vars, TypeOK
  <2>2. \A c \in Callers : Untouched(c)
    BY <1>2 DEF vars, Untouched
  <2> QED  BY <1>1, <2>1, <2>2, UntouchedInv DEF IInv
<1>3. CASE Next
  <2>1. PICK c \in Callers : (\E q \in Requests : Trigger(c, q)) \/ Step(c) \/ Cancel(c)
    BY <1>3 DEF Next
  <2>2. TypeOK' /\ CallerInv(c)'
    BY <2>1, TriggerInv, ReportInv, QuietInv, PostInv, SendOkInv DEF Step
  <2>3. ASSUME NEW d \in Callers PROVE CallerInv(d)'
    BY <1>1, <2>1, <2>2, OthersUntouched, UntouchedInv
  <2> QED  BY <2>2, <2>3 DEF IInv
<1> QED  BY <1>2, <1>3

(* IInv is an invariant of the notifier.                                    *)
THEOREM Inductive == Spec => []IInv
  BY InitIInv, NextIInv, PTL DEF Spec

-----------------------------------------------------------------------------
(* What follows                                                             *)

(* The notifier's state is well typed.                                      *)
THEOREM TypeCorrect == Spec => []TypeOK
<1>1. IInv => TypeOK
  BY DEF IInv
<1> QED  BY <1>1, Inductive, PTL

(* An accepted request lists all its channels, and the message was posted   *)
(* in exactly those, or nowhere in a dry run.                               *)
THEOREM AcceptedIsPosted == Spec => []AcceptedMeansPosted
<1>1. IInv => AcceptedMeansPosted
  BY DEF IInv, CallerInv, Answers, AcceptedMeansPosted, Channels
<1> QED  BY <1>1, Inductive, PTL

(* A message appears in at most one channel after its client has gone.      *)
THEOREM GoingStopsPosts == Spec => []CancelStopsPosting
<1>1. IInv => CancelStopsPosting
  BY DEF IInv, CallerInv, Lateness, CancelStopsPosting
<1> QED  BY <1>1, Inductive, PTL

(* What was posted is what the list of channels begins with, also when a    *)
(* request has failed.                                                      *)
InOrder(c) ==
  /\ Len(posted[c]) <= Len(Channels(c))
  /\ \A i \in 1..Len(posted[c]) : posted[c][i] = Channels(c)[i]

LEMMA PostInOrder ==
  ASSUME IInv, NEW c \in Callers, Post(c)
  PROVE  InOrder(c)'
<1>1. TypeOK /\ CallerInv(c)
  BY DEF IInv
<1>2. pc[c] = "sending" /\ req' = req /\ posted'[c] = Append(posted[c], Channel(c))
  BY <1>1 DEF Post, TypeOK
<1>3. /\ posted[c] = delivered[c] /\ Len(delivered[c]) < Len(Channels(c))
      /\ \A i \in 1..Len(delivered[c]) : delivered[c][i] = Channels(c)[i]
  BY <1>1, <1>2 DEF CallerInv, Posts, Prefix
<1>4. /\ Channel(c) \in STRING /\ posted[c] \in Seq(STRING) /\ Len(Channels(c)) \in Nat
      /\ Channel(c) = Channels(c)[Len(posted[c]) + 1]
  BY <1>1, <1>3, Listed DEF Channel, Channels
<1> DEFINE n == Len(posted[c])
<1>5. /\ n \in Nat /\ Len(posted'[c]) = n + 1 /\ posted'[c][n + 1] = Channels(c)[n + 1]
      /\ \A i \in 1..n : posted'[c][i] = Channels(c)[i]
  BY <1>2, <1>3, <1>4, AppendProperties
<1>6. Channels(c)' = Channels(c)
  BY <1>2 DEF Channels
<1>7. \A i \in 1..(n + 1) : i \in 1..n \/ i = n + 1
  BY <1>5
<1> QED  BY <1>3, <1>4, <1>5, <1>6, <1>7 DEF InOrder

LEMMA NextInOrder ==
  ASSUME IInv, IInv', [Next]_vars, NEW d \in Callers, InOrder(d)
  PROVE  InOrder(d)'
<1>1. ASSUME UNCHANGED <<req, posted>> PROVE InOrder(d)'
  BY <1>1 DEF InOrder, Channels
<1>2. ASSUME Untouched(d) PROVE InOrder(d)'
  BY <1>2 DEF InOrder, Channels, Untouched
<1>3. CASE UNCHANGED vars
  BY <1>1, <1>3 DEF vars
<1>4. CASE Next
  <2>1. PICK c \in Callers : (\E q \in Requests : Trigger(c, q)) \/ Step(c) \/ Cancel(c)
    BY <1>4 DEF Next
  <2>2. TypeOK /\ TypeOK'
    BY DEF IInv
  <2>3. CASE d # c
    BY <1>2, <2>1, <2>2, <2>3, OthersUntouched
  <2>4. CASE d = c /\ \E q \in Requests : Trigger(c, q)
    <3>1. posted' = [posted EXCEPT ![d] = <<>>]
      BY <2>4 DEF Trigger
    <3>2. posted'[d] = <<>>
      BY <2>2, <3>1 DEF TypeOK
    <3>3. req'[d] \in Requests \cup {NoRequest}
      BY <2>2 DEF TypeOK
    <3>4. channelIDs(req'[d]) \in Seq(STRING)
      BY <3>3, ChannelLists
    <3>5. Len(posted'[d]) = 0 /\ 1..0 = {} /\ Len(channelIDs(req'[d])) \in Nat
      BY <3>2, <3>4
    <3> QED  BY <3>5 DEF InOrder, Channels
  <2>5. CASE d = c /\ Post(c)
    BY <2>5, PostInOrder
  <2>6. CASE Report(c) \/ Check(c) \/ SendOk(c) \/ SendFails(c) \/ Finish(c) \/ Cancel(c)
    BY <1>1, <2>6 DEF Report, Check, SendOk, SendFails, Finish, Cancel
  <2> QED  BY <2>1, <2>3, <2>4, <2>5, <2>6 DEF Step
<1> QED  BY <1>3, <1>4

LEMMA InOrderIsOnce ==
  ASSUME TypeOK, \A c \in Callers : InOrder(c)
  PROVE  EachChannelOnce
<1> SUFFICES
      ASSUME NEW c \in Callers
      PROVE  LET named == ToSet(FlattenSeq(req[c].channels)) \ {Blank}
             IN  /\ IsInjective(posted[c])
                 /\ \A k \in DOMAIN posted[c] :
                      posted[c][k] \in IF named = {} THEN ToSet(FlattenSeq(DefaultChannels))
                                       ELSE named
  BY DEF EachChannelOnce
<1>1. /\ DOMAIN posted[c] = 1..Len(posted[c]) /\ Len(posted[c]) \in Nat
      /\ Channels(c) \in Seq(STRING) /\ Len(Channels(c)) \in Nat
  BY Listed
<1>2. \A k \in DOMAIN posted[c] : k \in DOMAIN Channels(c) /\ posted[c][k] = Channels(c)[k]
  BY <1>1 DEF InOrder
<1>3. req[c] \in Requests \cup {NoRequest}
  BY DEF TypeOK
<1> DEFINE source == IF ToSet(FlattenSeq(req[c].channels)) \ {Blank} = {}
                     THEN ToSet(FlattenSeq(DefaultChannels))
                     ELSE ToSet(FlattenSeq(req[c].channels)) \ {Blank}
<1>4. IsInjective(Channels(c)) /\ \A k \in DOMAIN Channels(c) : Channels(c)[k] \in source
  BY <1>3, ChannelFacts DEF Channels
<1>5. IsInjective(posted[c])
  BY <1>2, <1>4 DEF IsInjective
<1>6. \A k \in DOMAIN posted[c] : posted[c][k] \in source
  <2> HIDE DEF source
  <2> QED  BY <1>2, <1>4
<1> QED  BY <1>5, <1>6

(* However a request names its channels, and however it ends, none of them   *)
(* gets the message twice and no other channel gets it.                     *)
THEOREM PostedOnce == Spec => []EachChannelOnce
<1> DEFINE AllInOrder == \A c \in Callers : InOrder(c)
<1>1. Init => AllInOrder
  <2> SUFFICES ASSUME Init, NEW c \in Callers PROVE InOrder(c)
    OBVIOUS
  <2>1. TypeOK /\ posted[c] = <<>>
    BY InitIInv DEF IInv, Init
  <2>2. Len(posted[c]) = 0 /\ 1..0 = {} /\ Len(Channels(c)) \in Nat
    BY <2>1, Listed
  <2> QED  BY <2>2 DEF InOrder
<1>2. IInv /\ IInv' /\ AllInOrder /\ [Next]_vars => AllInOrder'
  BY NextInOrder
<1>3. IInv /\ AllInOrder => EachChannelOnce
  BY InOrderIsOnce DEF IInv
<1> HIDE DEF AllInOrder
<1> QED  BY <1>1, <1>2, <1>3, Inductive, PTL DEF Spec

-----------------------------------------------------------------------------
(* Notifier implements FanOut                                               *)

(* An idle caller is an idle fan-out.                                       *)
LEMMA InitMaps == Init => \A c \in Callers : Request(c)!Init
<1> SUFFICES ASSUME Init, NEW c \in Callers PROVE Request(c)!Init
  OBVIOUS
<1>1. pc[c] = "idle" /\ delivered[c] = <<>> /\ posted[c] = <<>>
  BY DEF Init
<1>2. Len(delivered[c]) = 0 /\ DOMAIN posted[c] = {}
  BY <1>1
<1>3. Live(c) = FALSE
  BY <1>1 DEF Live
<1> QED  BY <1>1, <1>2, <1>3 DEF Request!Init, Busy

(* The steps of one caller, one by one.                                     *)
LEMMA StepMaps ==
  ASSUME IInv, NEW c \in Callers,
         (\E q \in Requests : Trigger(c, q)) \/ Step(c) \/ Cancel(c)
  PROVE  [Request(c)!Next]_(Request(c)!fanOut)
<1> DEFINE n == Len(delivered[c])
<1>1. TypeOK /\ CallerInv(c) /\ delivered[c] \in Seq(STRING) /\ n \in Nat
      /\ Channels(c) \in Seq(STRING) /\ Len(Channels(c)) \in Nat /\ DOMAIN delivered[c] = 1..n
  BY Listed DEF IInv
<1>2. ASSUME NEW q \in Requests, Trigger(c, q) PROVE Request(c)!Start
  <2>1. /\ req'[c] = q /\ delivered'[c] = <<>> /\ posted'[c] = <<>> /\ ~Busy(c)
        /\ \/ pc'[c] = "done" /\ reply'[c] = "rejected"
           \/ pc'[c] \in {"report", "loop"}
    BY <1>1, <1>2 DEF Trigger, Answer, TypeOK
  <2>2. Len(channelIDs(q)) \in Nat /\ Len(delivered'[c]) = 0 /\ DOMAIN posted'[c] = {}
    BY <2>1, ChannelLists
  <2> QED  BY <2>1, <2>2 DEF Request!Start, Live, Busy
<1>3. CASE Report(c)
  <2>1. /\ req' = req /\ reply' = reply /\ posted' = posted /\ pc[c] = "report" /\ pc'[c] = "loop"
        /\ delivered'[c] = Channels(c)
    BY <1>1, <1>3 DEF Report, TypeOK, Channels
  <2>2. DryRun(req[c]) /\ n = 0 /\ Len(Channels(c)) \in (n + 1)..Len(Channels(c))
    <3>1. DryRun(req[c]) /\ delivered[c] = <<>> /\ Channels(c) # <<>>
      BY <1>1, <2>1 DEF CallerInv, Posts, Busy
    <3>2. Len(Channels(c)) # 0 /\ n = 0
      BY <1>1, <3>1, EmptySeq
    <3> QED  BY <1>1, <3>1, <3>2
  <2> QED  BY <2>1, <2>2 DEF Request!Next, Request!Complete, Live, Busy, Channels
<1>4. CASE Check(c) \/ Cancel(c)
  <2>1. /\ req' = req /\ delivered' = delivered /\ posted' = posted /\ Busy(c)
        /\ \/ Busy(c)' /\ pc[c] # "idle" /\ pc'[c] # "idle"
           \/ pc'[c] = "done" /\ reply'[c] = "timeout"
    BY <1>1, <1>4 DEF Check, Cancel, Answer, TypeOK, Busy
  <2> QED  BY <2>1 DEF Request!Next, Request!Reject, Request!fanOut, Live, Busy
<1>5. CASE Post(c)
  <2>1. /\ req' = req /\ delivered' = delivered /\ pc[c] = "sending" /\ pc'[c] = "posted"
        /\ posted'[c] = Append(posted[c], Channel(c))
    BY <1>1, <1>5 DEF Post, TypeOK
  <2>2. ~DryRun(req[c]) /\ posted[c] = delivered[c] /\ n < Len(Channels(c))
    BY <1>1, <2>1 DEF CallerInv, Posts
  <2>3. DOMAIN posted'[c] = DOMAIN posted[c] \cup {n + 1}
    <3>1. Append(delivered[c], Channel(c)) \in Seq(STRING)
          /\ Len(Append(delivered[c], Channel(c))) = n + 1
      BY <1>1, <2>2, Listed, AppendProperties
    <3>2. DOMAIN Append(delivered[c], Channel(c)) = 1..(n + 1)
      BY <3>1
    <3>3. 1..(n + 1) = 1..n \cup {n + 1}
      BY <1>1
    <3> QED  BY <1>1, <2>1, <2>2, <3>2, <3>3
  <2> QED  BY <2>1, <2>2, <2>3 DEF Request!Next, Request!Reach, Live, Busy, Channels
<1>6. CASE SendOk(c)
  <2>1. /\ req' = req /\ posted' = posted /\ pc[c] = "posted" /\ pc'[c] = "loop"
        /\ delivered'[c] = Append(delivered[c], Channel(c))
    BY <1>1, <1>6 DEF SendOk, TypeOK
  <2>2. ~DryRun(req[c]) /\ posted[c] = Append(delivered[c], Channel(c)) /\ n < Len(Channels(c))
    BY <1>1, <2>1 DEF CallerInv, Posts
  <2>3. /\ Append(delivered[c], Channel(c)) \in Seq(STRING)
        /\ Len(Append(delivered[c], Channel(c))) = n + 1
    BY <1>1, <2>2, Listed, AppendProperties
  <2>4. Len(delivered'[c]) = n + 1 /\ n + 1 \in (n + 1)..Len(Channels(c))
        /\ (n + 1)..(n + 1) \subseteq DOMAIN posted[c]
    BY <1>1, <2>1, <2>2, <2>3
  <2> QED  BY <2>1, <2>4 DEF Request!Next, Request!Complete, Live, Busy, Channels
<1>7. CASE SendFails(c)
  <2>1. /\ req' = req /\ posted' = posted /\ delivered' = delivered
        /\ pc[c] \in {"sending", "posted"} /\ pc'[c] = "done" /\ reply'[c] # "accepted"
    BY <1>1, <1>7 DEF SendFails, Answer, TypeOK
  <2> QED  BY <2>1 DEF Request!Next, Request!Reject, Live, Busy
<1>8. CASE Finish(c)
  <2>1. /\ req' = req /\ posted' = posted /\ delivered' = delivered
        /\ pc[c] = "loop" /\ pc'[c] = "done" /\ reply'[c] = "accepted"
        /\ n = Len(channelIDs(req[c]))
    BY <1>1, <1>8 DEF Finish, Answer, TypeOK
  <2> QED  BY <2>1 DEF Request!Next, Request!Accept, Live, Busy
<1> QED  BY <1>2, <1>3, <1>4, <1>5, <1>6, <1>7, <1>8 DEF Step, Request!Next

LEMMA NextMaps ==
  ASSUME IInv, [Next]_vars, NEW d \in Callers
  PROVE  [Request(d)!Next]_(Request(d)!fanOut)
<1>1. Untouched(d) => [Request(d)!Next]_(Request(d)!fanOut)
  BY DEF Untouched, Request!fanOut, Live, Busy
<1>2. CASE UNCHANGED vars
  BY <1>1, <1>2 DEF vars, Untouched
<1>3. CASE Next
  <2>1. PICK c \in Callers : (\E q \in Requests : Trigger(c, q)) \/ Step(c) \/ Cancel(c)
    BY <1>3 DEF Next
  <2> QED  BY <1>1, <2>1, StepMaps, OthersUntouched DEF IInv
<1> QED  BY <1>2, <1>3

(* Every notification request is a FanOut over its channels.                *)
THEOREM Refines == Spec => ImplementsFanOut
<1>1. IInv /\ [Next]_vars =>
        [\A c \in Callers : [Request(c)!Next]_(Request(c)!fanOut)]_vars
  BY NextMaps
<1> QED  BY <1>1, InitMaps, Inductive, PTL DEF Spec, ImplementsFanOut

=============================================================================
