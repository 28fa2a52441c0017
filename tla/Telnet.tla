------------------------------- MODULE Telnet --------------------------------
(* Client.Execute (internal/telnetcontrol/client.go): one command over a    *)
(* telnet connection of its own, and the game server at the other end.      *)
(*                                                                          *)
(* wire holds what has arrived and was not read: chatter (greeting, answer  *)
(* to the password, log lines), which the server may send for ever, and the *)
(* numbered chunks of the reply.  The client cannot tell them apart.        *)
EXTENDS Consoles

Chatter == 0

VARIABLES
  pc,       \* where in Execute the call is
  checked,  \* ctx.Err() was looked at before the next read
  gone,     \* the context is cancelled
  output,   \* what was read
  result,   \* "none", then "ok" or "error"
  wire,     \* what arrived at the client
  srv,      \* server: chunks sent; quiet, or closed besides, it sends no more
  barred,   \* history: gone when the call began
  writes    \* history: how often the command was written

vars == <<pc, checked, gone, output, result, wire, srv, barred, writes>>

NewServer == [sent |-> 0, quiet |-> FALSE, closed |-> FALSE]

Busy == pc \notin {"idle", "done"}

Init ==
  /\ pc = "idle" /\ checked = FALSE /\ gone = FALSE /\ output = <<>> /\ result = "none"
  /\ wire = <<>> /\ srv = NewServer /\ barred = FALSE /\ writes = 0

Return(r) == pc' = "done" /\ result' = r
Goto(p) == pc' = p /\ UNCHANGED result

Connect(context, cancelled, refused) ==
  /\ ~Busy
  /\ checked' = FALSE /\ output' = <<>> /\ wire' = <<>> /\ srv' = NewServer /\ writes' = 0
  /\ gone' = context /\ barred' = cancelled
  /\ IF refused THEN Return("error") ELSE pc' = "dial" /\ result' = "none"

Execute(cancelled) == Connect(cancelled, cancelled, cancelled)

Dial ==
  /\ pc = "dial"
  /\ Goto("greeting")
  /\ UNCHANGED <<checked, gone, output, wire, srv, barred, writes>>

(* The dial, a write or a read fails, the latter other than by its deadline *)
(* or the end of the connection, or there is no command to send.            *)
Fails ==
  /\ Busy /\ (pc = "read" => checked)
  /\ Return("error")
  /\ UNCHANGED <<checked, gone, output, wire, srv, barred, writes>>

(* A drain left running in the background.                                  *)
StillDraining == Busy /\ pc # "dial"

Draining == pc \in {"greeting", "answer"}

Drain ==
  /\ Draining /\ wire # <<>>
  /\ wire' = Tail(wire)
  /\ UNCHANGED <<pc, checked, gone, output, result, srv, barred, writes>>

(* Every line sets the deadline anew: the drain ends in silence only.       *)
drainUntilSilent ==
  /\ pc \in {"greeting", "answer"} /\ wire = <<>>
  /\ Goto(IF pc = "greeting" THEN "password" ELSE "command")
  /\ UNCHANGED <<checked, gone, output, wire, srv, barred, writes>>

(* The 250 milliseconds are over, or the connection has ended.              *)
drainTelnetGreeting ==
  /\ pc \in {"greeting", "answer"}
  /\ Goto(IF pc = "greeting" THEN "password" ELSE "command")
  /\ UNCHANGED <<checked, gone, output, wire, srv, barred, writes>>

(* What the server says to the password is drained, not looked at.          *)
SendPassword(blank) ==
  /\ pc = "password"
  /\ Goto(IF blank THEN "command" ELSE "answer")
  /\ UNCHANGED <<checked, gone, output, wire, srv, barred, writes>>

SendCommand ==
  /\ pc = "command"
  /\ Goto("read")
  /\ writes' = writes + 1
  /\ UNCHANGED <<checked, gone, output, wire, srv, barred>>

CheckContext ==
  /\ pc = "read" /\ ~checked
  /\ IF gone THEN Return("error") ELSE UNCHANGED <<pc, result>>
  /\ checked' = ~gone
  /\ UNCHANGED <<gone, output, wire, srv, barred, writes>>

(* What is read; chatter among it is not kept in the model.                 *)
ReadOutput ==
  /\ pc = "read" /\ checked /\ wire # <<>>
  /\ output' = IF Head(wire) = Chatter THEN output ELSE Append(output, Head(wire))
  /\ wire' = Tail(wire) /\ checked' = FALSE
  /\ UNCHANGED <<pc, gone, result, srv, barred, writes>>

(* Two seconds without anything to read, or the connection ended.           *)
EndOfOutput ==
  /\ pc = "read" /\ checked /\ wire = <<>>
  /\ Return("ok")
  /\ UNCHANGED <<checked, gone, output, wire, srv, barred, writes>>

Cancel ==
  /\ Busy /\ ~gone
  /\ gone' = TRUE
  /\ UNCHANGED <<pc, checked, output, result, wire, srv, barred, writes>>

Send(lines, server) ==
  /\ Busy /\ pc # "dial" /\ ~srv.quiet
  /\ Len(wire) + Len(lines) <= MaxWire
  /\ wire' = wire \o lines /\ srv' = server
  /\ UNCHANGED <<pc, checked, gone, output, result, barred, writes>>

Server ==
  \/ Send(<<Chatter>>, srv)
  \/ /\ writes > 0 /\ srv.sent < MaxChunks
     /\ Send(<<srv.sent + 1>>, [srv EXCEPT !.sent = @ + 1])
  \/ \E closes \in BOOLEAN : Send(<<>>, [srv EXCEPT !.quiet = TRUE, !.closed = closes])

Step ==
  \/ Dial \/ Drain \/ (\E blank \in BOOLEAN : SendPassword(blank)) \/ SendCommand
  \/ CheckContext \/ ReadOutput \/ EndOfOutput

Next == (\E cancelled \in BOOLEAN : Execute(cancelled))
        \/ Step \/ drainTelnetGreeting \/ Fails \/ Cancel \/ Server

Spec == Init /\ [][Next]_vars

(* Dials, writes and reads end, and the deadline of a drain passes whatever *)
(* arrives meanwhile.                                                       *)
FairSpec == Spec /\ WF_vars(Step) /\ WF_vars(drainTelnetGreeting)

-----------------------------------------------------------------------------
(* Properties                                                               *)

TypeOK ==
  /\ pc \in {"idle", "dial", "greeting", "password", "answer", "command", "read", "done"}
  /\ {checked, gone, barred, srv.quiet, srv.closed} \subseteq BOOLEAN
  /\ output \in Seq(1..MaxChunks)
  /\ result \in {"none", "ok", "error"}
  /\ wire \in Seq(0..MaxChunks) /\ Len(wire) <= MaxWire
  /\ srv.sent \in 0..MaxChunks
  /\ writes \in 0..1

(* The drains before the command never swallow a part of its reply: leaving  *)
(* the server's chatter aside, a successful call returns the whole reply     *)
(* that arrived, in order.                                                   *)
ReplyNotDrained == result = "ok" => output = [i \in 1..srv.sent |-> i]

(* A server that never stops talking cannot hold up the command: the drain   *)
(* of the greeting and that of the password's answer end.                    *)
DrainsEnd == pc \in {"greeting", "answer"} ~> pc \notin {"greeting", "answer"}

(* It can hold the call itself, every read renews the deadline, but no       *)
(* longer than it talks: a call whose server has fallen silent returns.      *)
SilenceEndsCall == Busy /\ srv.quiet ~> ~Busy

Call == INSTANCE ConsoleCall WITH
          verdict <- IF pc = "idle" THEN "idle" ELSE IF Busy THEN "open" ELSE result

(* The client keeps what the dispatcher relies on.                           *)
ImplementsConsoleCall == Call!Spec

=============================================================================
