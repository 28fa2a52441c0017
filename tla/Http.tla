-------------------------------- MODULE Http --------------------------------
(* The HTTP handlers (internal/httpapi/server.go) inside the life cycle of  *)
(* the process: a request is read, logged, routed, decoded, served by the   *)
(* notifier or the console commander, and answered.                         *)
(*                                                                          *)
(* net/http, which is external, learns that a client has gone by reading    *)
(* the connection, and it reads on only once the body was read to its end.  *)
EXTENDS Lifecycle, Sequences

CONSTANT Inputs(_)   \* request -> what its client may send

ASSUME InputAssumption ==
  \A r \in Requests : Inputs(r) \subseteq
    [route : {"notify", "console", "healthz", "swagger", "other"}, allowed : BOOLEAN,
     json : BOOLEAN, tail : BOOLEAN]

Statuses == {200, 202, 301, 400, 404, 405, 408}

VARIABLES
  input,       \* request -> what was sent
  phase,       \* request -> "none", "body", "route", "decode", "serve" or "over"
  statuses,    \* request -> the answers written
  gone,        \* request -> its client has disconnected
  eof,         \* request -> its body was read to the end
  cancelled    \* request -> its context is cancelled

process == <<main, signalled, errCh, listening, session, docker>>
exchange == <<input, phase, statuses, gone, eof, cancelled>>
httpVars == <<vars, exchange>>

NoInput == [route |-> "none", allowed |-> FALSE, json |-> FALSE, tail |-> FALSE]

HttpInit ==
  /\ Init
  /\ input = [r \in Requests |-> NoInput]
  /\ phase = [r \in Requests |-> "none"]
  /\ statuses = [r \in Requests |-> <<>>]
  /\ gone = [r \in Requests |-> FALSE]
  /\ eof = [r \in Requests |-> FALSE]
  /\ cancelled = [r \in Requests |-> FALSE]

(* route: a path of the program or "other"; allowed: the method its route   *)
(* takes; json: the body starts with what the route decodes; tail: more of  *)
(* the body follows it.                                                     *)
Accept(r, q) ==
  /\ Begin(r)
  /\ input' = [input EXCEPT ![r] = q]
  /\ phase' = [phase EXCEPT ![r] = "body"]
  /\ UNCHANGED <<statuses, gone, eof, cancelled>>

At(r, p) == Alive /\ phase[r] = p

Move(r, p) ==
  /\ phase' = [phase EXCEPT ![r] = p]
  /\ UNCHANGED <<vars, input, statuses, gone, cancelled>>

(* writeJSON, or an answer of the library; either is the handler's last act. *)
writeJSON(r, status) ==
  /\ End(r)
  /\ phase' = [phase EXCEPT ![r] = "over"]
  /\ statuses' = [statuses EXCEPT ![r] = Append(@, status)]
  /\ UNCHANGED <<input, gone, eof, cancelled>>

(* The body is left to the decoder, which stops after the first value.      *)
decodeFromConnection(r) ==
  /\ At(r, "body")
  /\ Move(r, "route")
  /\ eof' = [eof EXCEPT ![r] = ~input[r].tail]

requestLogger(r) ==
  /\ At(r, "body")
  /\ Move(r, "route")
  /\ eof' = [eof EXCEPT ![r] = TRUE]

BodyError(r) == At(r, "body") /\ writeJSON(r, 400)

(* The pages under /swagger/ are the library's: served, redirected to, or    *)
(* not found.  ServeMux may redirect a path it does not know, too.           *)
Routes(r) ==
  /\ At(r, "route")
  /\ CASE input[r].route = "other" -> \E status \in {301, 404} : writeJSON(r, status)
       [] input[r].route # "other" /\ ~input[r].allowed -> writeJSON(r, 405)
       [] input[r].route = "healthz" /\ input[r].allowed -> writeJSON(r, 200)
       [] input[r].route = "swagger" /\ input[r].allowed ->
            \E status \in {200, 301, 404} : writeJSON(r, status)
       [] OTHER -> Move(r, "decode") /\ UNCHANGED eof

(* No return after the answer.                                              *)
decodeAndGoOn(r) ==
  /\ At(r, "decode")
  /\ statuses' = [statuses EXCEPT ![r] = IF input[r].json THEN @ ELSE Append(@, 400)]
  /\ phase' = [phase EXCEPT ![r] = "serve"]
  /\ UNCHANGED <<vars, input, gone, eof, cancelled>>

Decode(r) ==
  /\ At(r, "decode")
  /\ IF input[r].json THEN Move(r, "serve") /\ UNCHANGED eof ELSE writeJSON(r, 400)

(* Trigger, Send or Broadcast returned.  408: a cancelled context, or a     *)
(* time limit of the client that failed.                                    *)
Served(r) == At(r, "serve") /\ \E status \in {202, 400, 408} : writeJSON(r, status)

(* The commander called the Docker client that was not built; net/http      *)
(* recovers and closes the connection.                                      *)
Panic(r) ==
  /\ At(r, "serve") /\ input[r].route = "console" /\ docker = "absent"
  /\ End(r)
  /\ phase' = [phase EXCEPT ![r] = "over"]
  /\ UNCHANGED <<input, statuses, gone, eof, cancelled>>

Disconnect(r) ==
  /\ Alive /\ Busy(r)
  /\ gone' = [gone EXCEPT ![r] = TRUE]
  /\ UNCHANGED <<vars, input, phase, statuses, eof, cancelled>>

Notice(r) ==
  /\ Alive /\ Busy(r) /\ gone[r] /\ eof[r]
  /\ cancelled' = [cancelled EXCEPT ![r] = TRUE]
  /\ UNCHANGED <<vars, input, phase, statuses, gone, eof>>

Handler(r) ==
  \/ \E q \in Inputs(r) : Accept(r, q)
  \/ requestLogger(r) \/ BodyError(r) \/ Routes(r) \/ Decode(r) \/ Served(r) \/ Panic(r)
  \/ Disconnect(r) \/ Notice(r)

Around ==
  /\ \/ \E m \in Relays : Begin(m) \/ End(m)
     \/ Signal \/ ServeFails \/ ServerClosed \/ Main
  /\ UNCHANGED exchange

(* Nothing of the exchanges survives the process.                           *)
RestartAll ==
  /\ Restart
  /\ input' = [r \in Requests |-> NoInput]
  /\ phase' = [r \in Requests |-> "none"]
  /\ statuses' = [r \in Requests |-> <<>>]
  /\ gone' = [r \in Requests |-> FALSE]
  /\ eof' = [r \in Requests |-> FALSE]
  /\ cancelled' = [r \in Requests |-> FALSE]

HttpNext == (\E r \in Requests : Handler(r)) \/ Around \/ RestartAll

(* main keeps running and net/http keeps reading the connection; neither a  *)
(* client nor a service owes anything.                                      *)
HttpSpec ==
  /\ HttpInit /\ [][HttpNext]_httpVars
  /\ WF_httpVars(Main /\ UNCHANGED exchange)
  /\ \A r \in Requests : WF_httpVars(Notice(r))

-----------------------------------------------------------------------------
(* Properties                                                               *)

HttpTypeOK ==
  /\ TypeOK
  /\ \A r \in Requests : input[r] \in Inputs(r) \cup {NoInput}
  /\ phase \in [Requests -> {"none", "body", "route", "decode", "serve", "over"}]
  /\ statuses \in [Requests -> Seq(Statuses)]
  /\ gone \in [Requests -> BOOLEAN]
  /\ eof \in [Requests -> BOOLEAN]
  /\ cancelled \in [Requests -> BOOLEAN]
  /\ \A r \in Requests : Busy(r) => phase[r] \notin {"none", "over"}

(* The one way to end without an answer: the console needed the Docker       *)
(* client that was not built, and net/http caught the panic.                 *)
Panicked(r) == statuses[r] = <<>> /\ docker = "absent" /\ input[r].route = "console"

(* An orderly exit, exit code 0, has answered every HTTP request it accepted, *)
(* but for one that ended in the panic above: none was cut, none was left    *)
(* without its answer.  What it may cut in the middle are relays, which      *)
(* nobody waits for; a request that is cut shows as a failed exit.           *)
OrderlyExitAnswersAll ==
  main = "exited" =>
    \A r \in Requests :
      \/ work[r] = "none"
      \/ work[r] = "done" /\ (Len(statuses[r]) = 1 \/ Panicked(r))

(* A handler writes one answer and then returns, on every way through it: a  *)
(* request under way has none yet, one that is over has exactly one, unless  *)
(* it panicked, and 202 is only said of a request that was routed and        *)
(* decoded.                                                                  *)
AnsweredOnce ==
  \A r \in Requests :
    /\ work[r] # "done" => statuses[r] = <<>>
    /\ work[r] = "done" => Len(statuses[r]) = 1 \/ Panicked(r)
    /\ statuses[r] = <<202>> =>
         input[r].allowed /\ input[r].json /\ input[r].route \in {"notify", "console"}

(* A client that goes away while its request is served is noticed: the body  *)
(* was read to its end before, whatever follows the JSON value, so that the  *)
(* context is cancelled and the fan-out over the targets can stop.           *)
DisconnectNoticed ==
  \A r \in Requests :
    gone[r] /\ phase[r] = "serve" ~> cancelled[r] \/ phase[r] # "serve" \/ ~Alive

=============================================================================
