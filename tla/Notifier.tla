------------------------------ MODULE Notifier ------------------------------
(* Notifier.Trigger (internal/service/notifier.go) behind its two HTTP      *)
(* handlers (internal/httpapi/server.go): one message to several Discord    *)
(* channels, one after the other.                                           *)
(*                                                                          *)
(* A caller is the goroutine of an HTTP request.  Its client may go away at *)
(* any moment; Trigger looks at the context before every channel, but the   *)
(* Discord API call itself does not take it.                                *)
EXTENDS Config

CONSTANTS
  Callers,           \* goroutines serving requests
  Requests,          \* what clients may send
  DefaultChannels    \* parts of DISCORD_DEFAULT_CHANNEL_ID(S)

(* A request: the message, the values of channel_id and channel_ids split   *)
(* into parts, dry_run of the body and dry_run of the query.                *)
ASSUME RequestAssumption ==
  \A q \in Requests : /\ q.message \in STRING
                      /\ q.channels \in Seq(Seq(STRING))
                      /\ q.dryBody \in BOOLEAN
                      /\ q.dryQuery \in {"", "true", "false"}

ASSUME DefaultsAssumption == DefaultChannels \in Seq(Seq(STRING))

VARIABLES
  req,          \* caller -> the request it serves
  pc,           \* caller -> where in Trigger it is
  delivered,    \* caller -> channels reported as delivered
  gone,         \* caller -> its context is cancelled
  reply,        \* caller -> the answer
  posted,       \* caller -> channels the message appeared in, in order
  late          \* caller -> posts after its context was cancelled

vars == <<req, pc, delivered, gone, reply, posted, late>>

NoRequest == [message |-> Blank, channels |-> <<>>, dryBody |-> FALSE, dryQuery |-> ""]

repeatedChannelIDs(values) == EveryPart(values)

normalizeChannelIDs(values) == DistinctParts(values)

(* The channels of a request: its own, or the configured ones.              *)
channelIDs(q) ==
  LET own == normalizeChannelIDs(q.channels)
  IN  IF own = <<>> THEN normalizeChannelIDs(DefaultChannels) ELSE own

(* A dry_run in the query replaces the one in the body.                     *)
DryRun(q) == IF q.dryQuery = "" THEN q.dryBody ELSE q.dryQuery = "true"

Busy(c) == pc[c] \notin {"idle", "done"}
Channel(c) == channelIDs(req[c])[Len(delivered[c]) + 1]

Init ==
  /\ req = [c \in Callers |-> NoRequest]
  /\ pc = [c \in Callers |-> "idle"]
  /\ delivered = [c \in Callers |-> <<>>]
  /\ gone = [c \in Callers |-> FALSE]
  /\ reply = [c \in Callers |-> "none"]
  /\ posted = [c \in Callers |-> <<>>]
  /\ late = [c \in Callers |-> 0]

Invalid(q) == q.message = Blank \/ channelIDs(q) = <<>>

Answer(c, r) ==
  /\ reply' = [reply EXCEPT ![c] = r]
  /\ pc' = [pc EXCEPT ![c] = "done"]

(* The list of delivered channels survives from the request before.         *)
TriggerReusing(c, q) ==
  /\ ~Busy(c)
  /\ req' = [req EXCEPT ![c] = q]
  /\ gone' = [gone EXCEPT ![c] = FALSE]
  /\ posted' = [posted EXCEPT ![c] = <<>>]
  /\ late' = [late EXCEPT ![c] = 0]
  /\ IF Invalid(q) THEN Answer(c, "rejected")
     ELSE /\ reply' = [reply EXCEPT ![c] = "none"]
          /\ pc' = [pc EXCEPT ![c] = IF DryRun(q) THEN "report" ELSE "loop"]
  /\ UNCHANGED delivered

(* The checks Trigger begins with. *)
Trigger(c, q) ==
  /\ ~Busy(c)
  /\ req' = [req EXCEPT ![c] = q]
  /\ delivered' = [delivered EXCEPT ![c] = <<>>]
  /\ gone' = [gone EXCEPT ![c] = FALSE]
  /\ posted' = [posted EXCEPT ![c] = <<>>]
  /\ late' = [late EXCEPT ![c] = 0]
  /\ IF Invalid(q) THEN Answer(c, "rejected")
     ELSE /\ reply' = [reply EXCEPT ![c] = "none"]
          /\ pc' = [pc EXCEPT ![c] = IF DryRun(q) THEN "report" ELSE "loop"]

Report(c) ==
  /\ pc[c] = "report"
  /\ delivered' = [delivered EXCEPT ![c] = channelIDs(req[c])]
  /\ pc' = [pc EXCEPT ![c] = "loop"]
  /\ UNCHANGED <<req, gone, reply, posted, late>>

(* No ctx.Err() before the next channel.                                    *)
CheckNothing(c) ==
  /\ pc[c] = "loop"
  /\ Len(delivered[c]) < Len(channelIDs(req[c]))
  /\ pc' = [pc EXCEPT ![c] = "sending"]
  /\ UNCHANGED <<req, delivered, gone, reply, posted, late>>

(* ctx.Err() before the next channel; its error is answered with 408.       *)
Check(c) ==
  /\ pc[c] = "loop"
  /\ Len(delivered[c]) < Len(channelIDs(req[c]))
  /\ IF gone[c] THEN Answer(c, "timeout")
     ELSE /\ pc' = [pc EXCEPT ![c] = "sending"]
          /\ UNCHANGED reply
  /\ UNCHANGED <<req, delivered, gone, posted, late>>

Post(c) ==
  /\ pc[c] = "sending"
  /\ posted' = [posted EXCEPT ![c] = Append(@, Channel(c))]
  /\ late' = [late EXCEPT ![c] = IF gone[c] THEN @ + 1 ELSE @]
  /\ pc' = [pc EXCEPT ![c] = "posted"]
  /\ UNCHANGED <<req, delivered, gone, reply>>

SendOk(c) ==
  /\ pc[c] = "posted"
  /\ delivered' = [delivered EXCEPT ![c] = Append(@, Channel(c))]
  /\ pc' = [pc EXCEPT ![c] = "loop"]
  /\ UNCHANGED <<req, gone, reply, posted, late>>

(* A channel that fails is counted and the loop goes on.                    *)
SkipFailed(c) ==
  /\ pc[c] \in {"sending", "posted"}
  /\ delivered' = [delivered EXCEPT ![c] = Append(@, Channel(c))]
  /\ pc' = [pc EXCEPT ![c] = "loop"]
  /\ UNCHANGED <<req, gone, reply, posted, late>>

(* A post that failed is tried again.                                       *)
RetryFailed(c) ==
  /\ pc[c] = "sending"
  /\ pc' = [pc EXCEPT ![c] = "loop"]
  /\ UNCHANGED <<req, delivered, gone, reply, posted, late>>

(* SendMessage failed, before the message was posted or after: the request  *)
(* ends with an empty result.  An expired time limit of the HTTP client is  *)
(* context.DeadlineExceeded to errors.Is, and is answered with 408 as well. *)
SendFails(c) ==
  /\ pc[c] \in {"sending", "posted"}
  /\ \E r \in {"rejected", "timeout"} : Answer(c, r)
  /\ UNCHANGED <<req, delivered, gone, posted, late>>

Finish(c) ==
  /\ pc[c] = "loop"
  /\ Len(delivered[c]) = Len(channelIDs(req[c]))
  /\ Answer(c, "accepted")
  /\ UNCHANGED <<req, delivered, gone, posted, late>>

Cancel(c) ==
  /\ Busy(c)
  /\ ~gone[c]
  /\ gone' = [gone EXCEPT ![c] = TRUE]
  /\ UNCHANGED <<req, pc, delivered, reply, posted, late>>

Step(c) == Report(c) \/ Check(c) \/ Post(c) \/ SendOk(c) \/ SendFails(c) \/ Finish(c)

Next == \E c \in Callers : (\E q \in Requests : Trigger(c, q)) \/ Step(c) \/ Cancel(c)

Spec == Init /\ [][Next]_vars

(* A goroutine keeps running and the calls of the Discord API return: the   *)
(* HTTP client of the Discord library has a time limit.  The library also   *)
(* waits and repeats a post that Discord answers with 429, with no limit of  *)
(* its own, so this takes a Discord that stops limiting at some point.       *)
FairSpec == Spec /\ \A c \in Callers : WF_vars(Step(c))

-----------------------------------------------------------------------------
(* Properties                                                               *)

TypeOK ==
  /\ req \in [Callers -> Requests \cup {NoRequest}]
  /\ pc \in [Callers -> {"idle", "report", "loop", "sending", "posted", "done"}]
  /\ delivered \in [Callers -> Seq(STRING)]
  /\ gone \in [Callers -> BOOLEAN]
  /\ reply \in [Callers -> {"none", "accepted", "rejected", "timeout"}]
  /\ posted \in [Callers -> Seq(STRING)]
  /\ late \in [Callers -> Nat]
  /\ \A c \in Callers : Len(delivered[c]) <= Len(channelIDs(req[c]))

Live(c) == pc[c] # "idle" /\ ~DryRun(req[c])

(* A channel named in channel_id, in channel_ids and again with spaces gets  *)
(* the message once, and only the channels the request asked for get it.     *)
EachChannelOnce ==
  \A c \in Callers :
    /\ IsInjective(posted[c])
    /\ \A k \in DOMAIN posted[c] :
         LET named == ToSet(FlattenSeq(req[c].channels)) \ {Blank}
         IN  posted[c][k] \in IF named = {} THEN ToSet(FlattenSeq(DefaultChannels))
                              ELSE named

(* 202 tells the truth: the channels listed are those the message was posted *)
(* in, all of them, or none was posted and the request was a dry run.        *)
AcceptedMeansPosted ==
  \A c \in Callers : reply[c] = "accepted" =>
    /\ delivered[c] = channelIDs(req[c])
    /\ posted[c] = IF DryRun(req[c]) THEN <<>> ELSE delivered[c]

(* A client that has gone costs at most the post already under way: the loop *)
(* asks the context before every channel.                                    *)
CancelStopsPosting == \A c \in Callers : late[c] <= 1

(* Every request is answered, also when channels fail and clients go away.   *)
EveryRequestAnswered == \A c \in Callers : Busy(c) ~> pc[c] = "done"

(* The request of one caller, seen as a fan-out over its channels.           *)
Request(c) ==
  INSTANCE FanOut WITH
    live <- Live(c), size <- IF pc[c] = "idle" THEN 0 ELSE Len(channelIDs(req[c])),
    done <- Len(delivered[c]),
    reached <- DOMAIN posted[c],
    verdict <- CASE pc[c] = "idle" -> "idle"
                 [] Busy(c) -> "open"
                 [] OTHER -> IF reply[c] = "accepted" THEN "accepted" ELSE "rejected"

(* Every request behaves as FanOut promises: channels are served in order,   *)
(* and after the first failure nothing more is posted.                       *)
ImplementsFanOut ==
  /\ \A c \in Callers : Request(c)!Init
  /\ [][\A c \in Callers : [Request(c)!Next]_(Request(c)!fanOut)]_vars

=============================================================================
