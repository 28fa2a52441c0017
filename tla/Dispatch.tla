------------------------------ MODULE Dispatch ------------------------------
(* DockerCommander.Send and DockerCommander.Broadcast                       *)
(* (internal/service/broadcast.go): the loop that takes one request to each *)
(* of its targets in turn, over RCON, telnet or the Docker API, and the     *)
(* telnet -> Docker fallback inside it.                                     *)
(*                                                                          *)
(* A caller is one goroutine: an HTTP handler serving a command or a        *)
(* broadcast, or a Discord handler relaying a chat message.  Between two    *)
(* steps of a caller the other callers run, the HTTP client may go away     *)
(* (its context is cancelled), and the remote console may take the command, *)
(* answer, or fail before or after taking it.                               *)
(*                                                                          *)
(* Target resolution, game matching and the Pelican lookup are parameters:  *)
(* Targets, GameMatch and Pelican model them.                               *)
EXTENDS Common

CONSTANTS
  Callers,              \* goroutines serving requests
  Requests,             \* the requests clients may send
  Resolve(_),           \* request -> its targets, transport filter applied
  Games,                \* game names, Blank among them
  ResolvedGames,        \* those the game resolver may answer
  HasResolver,          \* gameResolver # nil
  TemplateGame(_),      \* game name -> Game of the template chosen for it
  FallbackGame(_),      \* shouldFallbackToDocker
  ConsoleRefs,          \* DOMAIN defaultConsoleByRef
  Wiring                \* transport -> the executor behind it: see below

Kinds == {"command", "broadcast", "relay"}

(* "none": a nil interface, refused with "... is not configured".  "broken":*)
(* an interface holding a nil *Client, what main.go hands over when the     *)
(* Docker client could not be built; calling it panics.                     *)
Wirings == {"ready", "none", "broken"}

ASSUME RequestAssumption ==
  \A q \in Requests : /\ q.kind \in Kinds
                      /\ q.dry \in BOOLEAN
                      /\ Resolve(q) \in Seq(BroadcastTarget(Games))

ASSUME GameAssumption ==
  /\ Blank \in Games
  /\ ResolvedGames \subseteq Games
  /\ HasResolver \in BOOLEAN
  /\ \A g \in Games : TemplateGame(g) \in Games

ASSUME WiringAssumption == Wiring \in [BroadcastTransport -> Wirings]

VARIABLES
  req,      \* caller -> the request it serves
  pc,       \* caller -> where in the loop it is
  targets,  \* caller -> targets, fixed before the loop starts
  out,      \* caller -> deliveries
  game,     \* caller -> resolvedGame of the target being served
  via,      \* caller -> transport of the executor called, or about to be
  gone,     \* caller -> its context is cancelled
  reply,    \* caller -> what the request was answered
  wire,     \* caller -> target -> transports its command was written on
  late      \* caller -> commands written after its context was cancelled

vars == <<req, pc, targets, out, game, via, gone, reply, wire, late>>

NoRequest == [kind |-> "none"]

Places == {"idle", "loop", "ready", "calling", "written", "failed", "done"}
Replies == {"none", "accepted", "rejected", "aborted"}

Busy(c) == pc[c] \notin {"idle", "done"}

Pos(c) == Len(out[c]) + 1            \* index of the target being served
Target(c) == targets[c][Pos(c)]

-----------------------------------------------------------------------------

Init ==
  /\ req = [c \in Callers |-> NoRequest]
  /\ pc = [c \in Callers |-> "idle"]
  /\ targets = [c \in Callers |-> <<>>]
  /\ out = [c \in Callers |-> <<>>]
  /\ game = [c \in Callers |-> Blank]
  /\ via = [c \in Callers |-> "docker"]
  /\ gone = [c \in Callers |-> FALSE]
  /\ reply = [c \in Callers |-> "none"]
  /\ wire = [c \in Callers |-> <<>>]
  /\ late = [c \in Callers |-> 0]

(* The early returns of Send and Broadcast. *)
Invalid(q) ==
  \/ Resolve(q) = <<>>
  \/ q.kind = "command" /\ q.command = Blank
  \/ q.kind # "command" /\ q.message = Blank

Answer(c, r) ==
  /\ reply' = [reply EXCEPT ![c] = r]
  /\ pc' = [pc EXCEPT ![c] = "done"]

Begin(c, q) ==
  /\ ~Busy(c)
  /\ req' = [req EXCEPT ![c] = q]
  /\ targets' = [targets EXCEPT ![c] = Resolve(q)]
  /\ out' = [out EXCEPT ![c] = <<>>]
  /\ game' = [game EXCEPT ![c] = Blank]
  /\ via' = [via EXCEPT ![c] = "docker"]
  /\ gone' = [gone EXCEPT ![c] = FALSE]
  /\ wire' = [wire EXCEPT ![c] = [k \in 1..Len(Resolve(q)) |-> <<>>]]
  /\ late' = [late EXCEPT ![c] = 0]

Refuse(c, q) ==
  /\ Invalid(q)
  /\ Begin(c, q)
  /\ Answer(c, "rejected")

Accept(c, q) ==
  /\ ~Invalid(q)
  /\ Begin(c, q)
  /\ reply' = [reply EXCEPT ![c] = "none"]
  /\ pc' = [pc EXCEPT ![c] = "loop"]

(* What ResolveGame may leave in target.Game: a target that names no game   *)
(* asks the resolver, whose errors and blank answers are ignored.           *)
GameAnswers(q, t) ==
  IF q.kind = "command" THEN {Blank}
  ELSE {t.game} \cup (IF t.game = Blank /\ HasResolver THEN ResolvedGames ELSE {})

(* The game buildBroadcastCommand reports along with the command.           *)
ReportedGame(q, g) ==
  IF q.kind = "command" \/ q.command # Blank THEN g ELSE TemplateGame(g)

Prepare(c) ==
  /\ pc[c] = "loop"
  /\ Len(out[c]) < Len(targets[c])
  /\ \E g \in GameAnswers(req[c], Target(c)) :
       game' = [game EXCEPT ![c] = ReportedGame(req[c], g)]
  /\ via' = [via EXCEPT ![c] = Target(c).transport]
  /\ pc' = [pc EXCEPT ![c] = "ready"]
  /\ UNCHANGED <<req, targets, out, gone, reply, wire, late>>

(* The delivery names the target's transport, not the one that carried the  *)
(* command.                                                                 *)
DeliverAsAsked(c, sent) ==
  /\ out' = [out EXCEPT ![c] =
       Append(@, [ref |-> Target(c).ref, transport |-> Target(c).transport,
                  game |-> game[c], sent |-> sent])]
  /\ pc' = [pc EXCEPT ![c] = "loop"]
  /\ UNCHANGED <<req, targets, game, via, gone, reply, wire, late>>

(* The delivery of a dry run is left without its transport.                 *)
DeliverUnset(c, sent) ==
  /\ out' = [out EXCEPT ![c] =
       Append(@, [ref |-> Target(c).ref, transport |-> IF sent THEN via[c] ELSE Blank,
                  game |-> game[c], sent |-> sent])]
  /\ pc' = [pc EXCEPT ![c] = "loop"]
  /\ UNCHANGED <<req, targets, game, via, gone, reply, wire, late>>

Deliver(c, sent) ==
  /\ out' = [out EXCEPT ![c] =
       Append(@, [ref |-> Target(c).ref, transport |-> via[c],
                  game |-> game[c], sent |-> sent])]
  /\ pc' = [pc EXCEPT ![c] = "loop"]
  /\ UNCHANGED <<req, targets, game, via, gone, reply, wire, late>>

DryRun(c) ==
  /\ pc[c] = "ready"
  /\ req[c].dry
  /\ Deliver(c, FALSE)

-----------------------------------------------------------------------------
(* deliverCommand                                                           *)

MissingCredentials(t) == t.addr = Blank \/ t.pass = Blank

(* No executor, or no address or password for it: an error before any call. *)
Undeliverable(c) ==
  \/ Wiring[via[c]] = "none"
  \/ via[c] # "docker" /\ MissingCredentials(Target(c))

Refused(c) ==
  /\ pc[c] = "ready"
  /\ ~req[c].dry
  /\ Undeliverable(c)
  /\ Answer(c, "rejected")
  /\ UNCHANGED <<req, targets, out, game, via, gone, wire, late>>

Panic(c) ==
  /\ pc[c] = "ready"
  /\ ~req[c].dry
  /\ ~Undeliverable(c)
  /\ Wiring[via[c]] = "broken"
  /\ Answer(c, "aborted")
  /\ UNCHANGED <<req, targets, out, game, via, gone, wire, late>>

(* The dry-run branch of the loop lacks its continue.                       *)
CallInDryRun(c) ==
  /\ pc[c] = "ready"
  /\ ~Undeliverable(c)
  /\ Wiring[via[c]] = "ready"
  /\ pc' = [pc EXCEPT ![c] = IF gone[c] THEN "failed" ELSE "calling"]
  /\ UNCHANGED <<req, targets, out, game, via, gone, reply, wire, late>>

(* The clients dial under a context of their own.                           *)
CallUncancelled(c) ==
  /\ pc[c] = "ready"
  /\ ~req[c].dry
  /\ ~Undeliverable(c)
  /\ Wiring[via[c]] = "ready"
  /\ pc' = [pc EXCEPT ![c] = "calling"]
  /\ UNCHANGED <<req, targets, out, game, via, gone, reply, wire, late>>

(* Execute or SendCommand is called.  Each of the three clients looks at    *)
(* the context before it connects, so a context cancelled by then fails the *)
(* call; one cancelled later may or may not stop the write.                 *)
Call(c) ==
  /\ pc[c] = "ready"
  /\ ~req[c].dry
  /\ ~Undeliverable(c)
  /\ Wiring[via[c]] = "ready"
  /\ pc' = [pc EXCEPT ![c] = IF gone[c] THEN "failed" ELSE "calling"]
  /\ UNCHANGED <<req, targets, out, game, via, gone, reply, wire, late>>

Write(c) ==
  /\ pc[c] = "calling"
  /\ pc' = [pc EXCEPT ![c] = "written"]
  /\ wire' = [wire EXCEPT ![c][Pos(c)] = Append(@, via[c])]
  /\ late' = [late EXCEPT ![c] = IF gone[c] THEN @ + 1 ELSE @]
  /\ UNCHANGED <<req, targets, out, game, via, gone, reply>>

CallOk(c) ==
  /\ pc[c] = "written"
  /\ Deliver(c, TRUE)

(* The dial, the log-in or the write failed; or the command was written and *)
(* reading its output failed.                                               *)
CallFails(c) ==
  /\ pc[c] \in {"calling", "written"}
  /\ pc' = [pc EXCEPT ![c] = "failed"]
  /\ UNCHANGED <<req, targets, out, game, via, gone, reply, wire, late>>

(* The allowlist of games is not asked.                                     *)
AnyGameMayFallBack(c) ==
  /\ via[c] = "telnet"
  /\ req[c].kind # "command"
  /\ Target(c).ref \in ConsoleRefs

(* A failed RCON call falls back as well.                                   *)
AnyConsoleMayFallBack(c) ==
  /\ via[c] # "docker"
  /\ req[c].kind # "command"
  /\ FallbackGame(game[c])
  /\ Target(c).ref \in ConsoleRefs

MayFallBack(c) ==
  /\ via[c] = "telnet"
  /\ req[c].kind # "command"
  /\ FallbackGame(game[c])
  /\ Target(c).ref \in ConsoleRefs

(* The retry goes back to telnet.                                           *)
RetryTelnet(c) ==
  /\ pc[c] = "failed"
  /\ MayFallBack(c)
  /\ pc' = [pc EXCEPT ![c] = "ready"]
  /\ UNCHANGED <<req, targets, out, game, via, gone, reply, wire, late>>

Fallback(c) ==
  /\ pc[c] = "failed"
  /\ MayFallBack(c)
  /\ via' = [via EXCEPT ![c] = "docker"]
  /\ pc' = [pc EXCEPT ![c] = "ready"]
  /\ UNCHANGED <<req, targets, out, game, gone, reply, wire, late>>

(* A failed target is noted and the loop goes on.                           *)
SkipFailed(c) ==
  /\ pc[c] = "failed"
  /\ ~MayFallBack(c)
  /\ Deliver(c, FALSE)

(* The first target that fails ends the request: Send and Broadcast return  *)
(* an empty result and the error.                                           *)
GiveUp(c) ==
  /\ pc[c] = "failed"
  /\ ~MayFallBack(c)
  /\ Answer(c, "rejected")
  /\ UNCHANGED <<req, targets, out, game, via, gone, wire, late>>

Finish(c) ==
  /\ pc[c] = "loop"
  /\ Len(out[c]) = Len(targets[c])
  /\ Answer(c, "accepted")
  /\ UNCHANGED <<req, targets, out, game, via, gone, wire, late>>

(* The HTTP client disconnects.  A relay runs under context.Background().   *)
Cancel(c) ==
  /\ Busy(c)
  /\ req[c].kind # "relay"
  /\ ~gone[c]
  /\ gone' = [gone EXCEPT ![c] = TRUE]
  /\ UNCHANGED <<req, pc, targets, out, game, via, reply, wire, late>>

-----------------------------------------------------------------------------

Step(c) ==
  \/ Prepare(c) \/ DryRun(c) \/ Refused(c) \/ Panic(c) \/ Call(c) \/ Write(c)
  \/ CallOk(c) \/ CallFails(c) \/ Fallback(c) \/ GiveUp(c) \/ Finish(c)

Arrive(c) == \E q \in Requests : Refuse(c, q) \/ Accept(c, q)

Next == \E c \in Callers : Arrive(c) \/ Step(c) \/ Cancel(c)

Spec == Init /\ [][Next]_vars

(* A goroutine keeps running, and a call of an executor returns: dials,     *)
(* log-ins and every single read have deadlines.  The read loops of the     *)
(* RCON and telnet clients have no deadline over all reads, so this takes a *)
(* remote console that stops sending at some point.                         *)
FairSpec == Spec /\ \A c \in Callers : WF_vars(Step(c))

-----------------------------------------------------------------------------
(* Properties                                                               *)

TypeOK ==
  /\ req \in [Callers -> Requests \cup {NoRequest}]
  /\ pc \in [Callers -> Places]
  /\ targets \in [Callers -> Seq(BroadcastTarget(Games))]
  /\ out \in [Callers -> Seq(BroadcastDelivery(Games))]
  /\ game \in [Callers -> Games]
  /\ via \in [Callers -> BroadcastTransport]
  /\ gone \in [Callers -> BOOLEAN]
  /\ reply \in [Callers -> Replies]
  /\ wire \in [Callers -> Seq(Seq(BroadcastTransport))]
  /\ late \in [Callers -> Nat]

Live(c) == pc[c] # "idle" /\ ~req[c].dry

(* A dry run only reports: whatever its targets, fallback rules and          *)
(* cancellations, no command of it is ever written to a console, and its     *)
(* deliveries are marked as not sent.                                        *)
DryRunSilent ==
  \A c \in Callers : pc[c] # "idle" /\ req[c].dry =>
    /\ \A k \in DOMAIN wire[c] : wire[c][k] = <<>>
    /\ \A k \in DOMAIN out[c] : ~out[c][k].sent

(* An accepted live request tells the truth: there is one delivery per        *)
(* target, in target order, each command was written to that target, and the *)
(* transport reported is the one that carried the last write, also when the   *)
(* telnet console failed and Docker took over.                                *)
AcceptedMeansDelivered ==
  \A c \in Callers : Live(c) /\ reply[c] = "accepted" =>
    /\ Len(out[c]) = Len(targets[c])
    /\ \A k \in DOMAIN targets[c] :
         /\ out[c][k].ref = targets[c][k].ref
         /\ wire[c][k] # <<>>
         /\ out[c][k].transport = wire[c][k][Len(wire[c][k])]

(* What a target of a caller may have seen: nothing, or its command once on  *)
(* its own transport, or the Docker fallback with or without a telnet write. *)
GameAt(c, k) == IF k <= Len(out[c]) THEN out[c][k].game ELSE game[c]

OneWrite(c, k) ==
  LET t == targets[c][k]
  IN  \/ wire[c][k] \in {<<>>, <<t.transport>>}
      \/ /\ wire[c][k] \in {<<"docker">>, <<"telnet", "docker">>}
         /\ t.transport = "telnet"
         /\ t.ref \in ConsoleRefs
         /\ FallbackGame(GameAt(c, k))
         /\ req[c].kind # "command"

(* No target sees a command more than once per transport, nor on a transport *)
(* other than its own, with one exception: a broadcast to a telnet target    *)
(* with a default console, for a game the fallback rules allow, may continue *)
(* over Docker.  Raw commands never fall back.                               *)
OneWritePerTransport ==
  \A c \in Callers : \A k \in DOMAIN wire[c] : OneWrite(c, k)

(* Once the client has gone, at most the call then in flight still writes:   *)
(* the loop itself never looks at the context, but the next call fails       *)
(* before it connects, and so does the Docker fallback after a telnet call.  *)
CancelStopsFanOut == \A c \in Callers : late[c] <= 1

(* A chat message relayed from Discord leaves the agent over RCON only: it   *)
(* never reaches Docker or telnet, and so can never meet the Docker client   *)
(* that was not built, whose panic nothing recovers in a Discord handler.    *)
RelayUsesRCONOnly ==
  \A c \in Callers : req[c].kind = "relay" =>
    /\ reply[c] # "aborted"
    /\ \A k \in DOMAIN wire[c] : wire[c][k] \in {<<>>, <<"rcon">>}

(* The handler's promise towards its client (ErrorResponse, or a result):    *)
(* a request is never dropped without an answer.                             *)
NeverAborted == \A c \in Callers : reply[c] # "aborted"

(* A broadcast does not repeat a message: the fallback sends to Docker what  *)
(* telnet failed to deliver, so no target has the command written twice.     *)
NoTargetWrittenTwice ==
  \A c \in Callers : \A k \in DOMAIN wire[c] : Len(wire[c][k]) <= 1

(* Every request comes to an end, however calls fail and clients go away: it  *)
(* is answered, and the one way to end without an answer is the panic on an   *)
(* executor that was not built (main.go:57-67 leaves a nil client behind).    *)
EveryRequestEnds ==
  \A c \in Callers :
    Busy(c) ~> /\ pc[c] = "done"
               /\ \/ reply[c] \in {"accepted", "rejected"}
                  \/ reply[c] = "aborted" /\ Wiring[via[c]] = "broken"

(* The request of one caller, seen as a fan-out over its targets.            *)
Reached(c) == {k \in DOMAIN wire[c] : wire[c][k] # <<>>}

Verdict(c) ==
  CASE pc[c] = "idle" -> "idle"
    [] Busy(c) -> "open"
    [] OTHER -> IF reply[c] = "accepted" THEN "accepted" ELSE "rejected"

Request(c) ==
  INSTANCE FanOut WITH
    live <- Live(c), size <- Len(targets[c]), done <- Len(out[c]),
    reached <- Reached(c), verdict <- Verdict(c)

(* Every caller's request behaves as FanOut promises: \A c : Request(c)!Spec, *)
(* with the quantifier moved inside the box, which is the form TLC takes.    *)
ImplementsFanOut ==
  /\ \A c \in Callers : Request(c)!Init
  /\ [][\A c \in Callers : [Request(c)!Next]_(Request(c)!fanOut)]_vars

=============================================================================
