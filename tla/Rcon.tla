-------------------------------- MODULE Rcon ---------------------------------
(* Client.Execute (internal/rconcontrol/client.go): one command over a      *)
(* Source RCON connection, and the game server at the other end.            *)
(*                                                                          *)
(* Every call has a connection of its own, so one caller shows all.  wire   *)
(* holds the packets that have arrived and were not read; a packet cut by   *)
(* the deadline has not arrived.  The server answers a command in numbered  *)
(* chunks, may announce a chunk by a packet of type 4 as Rust does, and may  *)
(* push one log line with an id of its own.                                 *)
EXTENDS Consoles

Refused == -1       \* the id of a refusal, and of some chunks of Rust servers
Log == 0            \* a body that is no chunk

VARIABLES
  pc,       \* where in Execute the call is
  checked,  \* ctx.Err() was looked at before the next packet
  gone,     \* the context is cancelled
  output,   \* bodies read
  readAny,  \* a packet with the id of the command was read
  result,   \* "none", then "ok" or "error"
  wire,     \* packets that arrived at the client
  srv,      \* the server, as in NewServer
  barred,   \* history: gone when the call began
  writes    \* history: how often the command was written

vars == <<pc, checked, gone, output, readAny, result, wire, srv, barred, writes>>

Packet(type, id, body) == [type |-> type, id |-> id, body |-> body]

(* What it made of the log-in; whether it has closed the connection; the    *)
(* chunks sent; whether one was announced and is due; whether it has pushed  *)
(* its log line.                                                            *)
NewServer == [login |-> "none", closed |-> FALSE, sent |-> 0,
              announced |-> FALSE, pushed |-> FALSE]

Busy == pc \notin {"idle", "done"}

Init ==
  /\ pc = "idle" /\ checked = FALSE /\ gone = FALSE /\ output = <<>> /\ readAny = FALSE
  /\ result = "none" /\ wire = <<>> /\ srv = NewServer /\ barred = FALSE /\ writes = 0

Return(r) == pc' = "done" /\ result' = r
Goto(p) == pc' = p /\ UNCHANGED result

Connect(context, cancelled, refused) ==
  /\ ~Busy
  /\ checked' = FALSE /\ output' = <<>> /\ readAny' = FALSE
  /\ wire' = <<>> /\ srv' = NewServer /\ writes' = 0
  /\ gone' = context /\ barred' = cancelled
  /\ IF refused THEN Return("error") ELSE pc' = "dial" /\ result' = "none"

(* A new call; a blank or overlong command is not valid.                    *)
Execute(cancelled, valid) == Connect(cancelled, cancelled, cancelled \/ ~valid)

Dial ==
  /\ pc = "dial"
  /\ Goto("login")
  /\ UNCHANGED <<checked, gone, output, readAny, wire, srv, barred, writes>>

(* The dial, a write or a read fails, the latter other than by its deadline *)
(* or the end of the connection.                                            *)
Fails ==
  /\ pc = "dial" \/ (Busy /\ checked)
  /\ Return("error")
  /\ UNCHANGED <<checked, gone, output, readAny, wire, srv, barred, writes>>

(* The head of writePacket and readPacket.                                  *)
CheckContext ==
  /\ Busy /\ pc # "dial" /\ ~checked
  /\ IF gone THEN Return("error") ELSE UNCHANGED <<pc, result>>
  /\ checked' = ~gone
  /\ UNCHANGED <<gone, output, readAny, wire, srv, barred, writes>>

(* The log-in, or the command once the log-in was granted.                  *)
writePacket ==
  /\ pc \in {"login", "exec"} /\ checked
  /\ Goto(IF pc = "login" THEN "reply" ELSE "read")
  /\ srv' = IF pc = "login" THEN [srv EXCEPT !.login = "asked"] ELSE srv
  /\ writes' = IF pc = "exec" THEN writes + 1 ELSE writes
  /\ checked' = FALSE
  /\ UNCHANGED <<gone, output, readAny, wire, barred>>

(* The id of the answer is not looked at.                                   *)
AnyAuthResponse(p) == p.type = "auth"

AuthResponse(p) == p.type = "auth" /\ p.id # Refused /\ p.id = AuthID

Receive ==
  /\ checked /\ wire # <<>>
  /\ wire' = Tail(wire) /\ checked' = FALSE
  /\ UNCHANGED <<gone, srv, barred, writes>>

(* One value packet may come before the answer to the log-in.               *)
authenticate ==
  /\ pc \in {"reply", "reply2"}
  /\ Receive
  /\ IF pc = "reply" /\ Head(wire).type = "value" THEN Goto("reply2")
     ELSE IF AuthResponse(Head(wire)) THEN Goto("exec") ELSE Return("error")
  /\ UNCHANGED <<output, readAny>>

(* Every packet is taken for a part of the answer.                          *)
TakeAny(p, id) ==
  output' = Append(output, p.body) /\ readAny' = TRUE /\ Goto("read")

(* A packet of the answer, or one with another id, which ends it.           *)
Take(p, id) ==
  IF id = ExecID
  THEN output' = Append(output, p.body) /\ readAny' = TRUE /\ Goto("read")
  ELSE UNCHANGED <<output, readAny>> /\ Return(IF readAny THEN "ok" ELSE "error")

(* The packet after one of type 4 is read like any other.                   *)
executeStrictly ==
  /\ pc \in {"read", "follow"}
  /\ Receive
  /\ IF pc = "read" /\ Head(wire).type = "four"
     THEN Goto("follow") /\ UNCHANGED <<output, readAny>>
     ELSE Take(Head(wire), Head(wire).id)

(* A packet of type 4 is skipped; the one after it may carry the id -1.     *)
executeCommand ==
  /\ pc \in {"read", "follow"}
  /\ Receive
  /\ IF pc = "read" /\ Head(wire).type = "four"
     THEN Goto("follow") /\ UNCHANGED <<output, readAny>>
     ELSE Take(Head(wire), IF pc = "follow" /\ Head(wire).id = Refused THEN ExecID
                           ELSE Head(wire).id)

(* The deadline passed or the connection ended: the end of the answer, or   *)
(* an error if the log-in was not answered yet.                             *)
EndOfResponse ==
  /\ pc \in {"reply", "reply2", "read", "follow"} /\ checked /\ wire = <<>>
  /\ Return(IF pc \in {"read", "follow"} THEN "ok" ELSE "error")
  /\ UNCHANGED <<checked, gone, output, readAny, wire, srv, barred, writes>>

Cancel ==
  /\ Busy /\ ~gone
  /\ gone' = TRUE
  /\ UNCHANGED <<pc, checked, output, readAny, result, wire, srv, barred, writes>>

Send(packets, server) ==
  /\ Busy /\ ~srv.closed
  /\ wire' = wire \o packets /\ srv' = server
  /\ UNCHANGED <<pc, checked, gone, output, readAny, result, barred, writes>>

(* The answer to a log-in may come after a value packet, carry a foreign id *)
(* or, from a server of another kind, be of another type.                   *)
Judge(granted, pre, type, id) ==
  /\ srv.login = "asked" /\ (id = Refused <=> ~granted)
  /\ Send(pre \o <<Packet(type, id, Log)>>,
          [srv EXCEPT !.login = IF granted THEN "granted" ELSE "refused"])

Answering == srv.login = "granted" /\ writes > 0 /\ srv.sent < MaxChunks

Announce ==
  /\ Answering /\ ~srv.announced
  /\ Send(<<Packet("four", ExecID, Log)>>, [srv EXCEPT !.announced = TRUE])

SendChunk(id) ==
  /\ Answering /\ (id = Refused => srv.announced)
  /\ Send(<<Packet("value", id, srv.sent + 1)>>,
          [srv EXCEPT !.sent = @ + 1, !.announced = FALSE])

PushLog ==
  /\ srv.login = "granted" /\ ~srv.pushed /\ ~srv.announced
  /\ Send(<<Packet("value", Foreign, Log)>>, [srv EXCEPT !.pushed = TRUE])

Close == srv.login # "none" /\ Send(<<>>, [srv EXCEPT !.closed = TRUE])

Server ==
  \/ \E granted \in BOOLEAN, pre \in {<<>>, <<Packet("value", AuthID, Log)>>},
       type \in {"auth", "value"}, id \in {AuthID, Foreign, Refused} :
       Judge(granted, pre, type, id)
  \/ Announce \/ PushLog \/ Close
  \/ \E id \in {ExecID, Refused} : SendChunk(id)

Step == Dial \/ CheckContext \/ writePacket \/ authenticate \/ executeCommand \/ EndOfResponse

Next == (\E cancelled, valid \in BOOLEAN : Execute(cancelled, valid))
        \/ Step \/ Fails \/ Cancel \/ Server

Spec == Init /\ [][Next]_vars

(* Dials, writes and reads end, at their deadline if nothing else happens.  *)
FairSpec == Spec /\ WF_vars(Step)

-----------------------------------------------------------------------------
(* Properties                                                               *)

Packets == [type : {"auth", "value", "four"}, id : {AuthID, ExecID, Foreign, Refused},
            body : 0..MaxChunks]

TypeOK ==
  /\ pc \in {"idle", "dial", "login", "reply", "reply2", "exec", "read", "follow", "done"}
  /\ {checked, gone, readAny, barred, srv.closed, srv.announced, srv.pushed} \subseteq BOOLEAN
  /\ output \in Seq(1..MaxChunks) /\ wire \in Seq(Packets)
  /\ result \in {"none", "ok", "error"}
  /\ srv.login \in {"none", "asked", "granted", "refused"}
  /\ srv.sent \in 0..MaxChunks
  /\ writes \in 0..1

(* A command is only ever written to a server that has granted the log-in:   *)
(* a refusal, an answer of another kind or none at all ends the call first.  *)
AuthenticatedFirst == writes > 0 => srv.login = "granted"

(* What a successful call returns is the reply: chunks in order, none lost,  *)
(* none twice and nothing else in between, Rust's packets of type 4 and the  *)
(* ids after them notwithstanding.  Only a packet of the server's own or     *)
(* the deadline cuts it short, the latter after all that has arrived.        *)
OutputIsReply ==
  result = "ok" =>
    /\ output = [i \in 1..Len(output) |-> i]
    /\ IF srv.pushed THEN Len(output) <= srv.sent ELSE Len(output) = srv.sent

(* A call returns, provided that the server stops sending at some time: the  *)
(* loop over the packets has no deadline of its own.                         *)
CallReturns == Busy ~> pc = "done"

Call == INSTANCE ConsoleCall WITH
          verdict <- IF pc = "idle" THEN "idle" ELSE IF Busy THEN "open" ELSE result

(* The client keeps what the dispatcher relies on.                           *)
ImplementsConsoleCall == Call!Spec

=============================================================================
