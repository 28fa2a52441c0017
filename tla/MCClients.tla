------------------------------ MODULE MCClients ------------------------------
(* Rcon, Telnet and Attach in one run for TLC: the agent talks to a console *)
(* over the transport chosen at the start.  What the three models call by   *)
(* the same name is one variable, a function of the caller for Attach.      *)
EXTENDS Consoles

VARIABLES
  transport, pc, gone, output, result, barred, writes,    \* of every client
  checked, wire, srv, readAny,                            \* of Rcon and Telnet
  running, attached, stdin, answered                      \* of Attach

connection == <<checked, wire, srv>>
container == <<running, attached, stdin, answered>>
vars == <<transport, pc, gone, output, result, barred, writes, connection, readAny, container>>

R == INSTANCE Rcon
T == INSTANCE Telnet
A == INSTANCE Attach

NoContainer == running = FALSE /\ attached = {} /\ stdin = <<>> /\ answered = {}

Init ==
  \/ transport = "rcon" /\ R!Init /\ NoContainer
  \/ transport = "telnet" /\ T!Init /\ readAny = FALSE /\ NoContainer
  \/ transport = "docker" /\ A!Init /\ checked = FALSE /\ wire = <<>> /\ srv = {} /\ readAny = FALSE

Over(t, Action) ==
  /\ transport = t
  /\ Action
  /\ UNCHANGED transport
  /\ t # "docker" => UNCHANGED container
  /\ t = "docker" => UNCHANGED connection
  /\ t # "rcon" => UNCHANGED readAny

Next == Over("rcon", R!Next) \/ Over("telnet", T!Next) \/ Over("docker", A!Next)

Spec == Init /\ [][Next]_vars

(* The fairness of the three models.                                        *)
FairSpec ==
  /\ Spec
  /\ WF_vars(Over("rcon", R!Step))
  /\ WF_vars(Over("telnet", T!Step)) /\ WF_vars(Over("telnet", T!drainTelnetGreeting))
  /\ \A c \in Callers : WF_vars(Over("docker", A!Step(c)))

-----------------------------------------------------------------------------
(* The properties of the three models, under their names there.             *)

(* The three type invariants.                                               *)
TypeOK ==
  CASE transport = "rcon" -> R!TypeOK
    [] transport = "telnet" -> T!TypeOK
    [] transport = "docker" -> A!TypeOK

(* No command before an RCON server has granted the log-in.                 *)
AuthenticatedFirst == transport = "rcon" => R!AuthenticatedFirst

(* The output of an RCON call is the reply of the server.                   *)
OutputIsReply == transport = "rcon" => R!OutputIsReply

(* No part of a telnet reply is lost to the drains before it.               *)
ReplyNotDrained == transport = "telnet" => T!ReplyNotDrained

(* A Docker call sees the console's answer to its own command.              *)
OwnReplySeen == transport = "docker" => A!OwnReplySeen

(* Whatever the transport, a call is what ConsoleCall says it is.           *)
ImplementsConsoleCall ==
  /\ CASE transport = "rcon" -> R!Call!Init
       [] transport = "telnet" -> T!Call!Init
       [] transport = "docker" -> \A c \in Callers : A!Call(c)!Init
  /\ [][CASE transport = "rcon" -> [R!Call!Next]_(R!Call!consoleCall)
          [] transport = "telnet" -> [T!Call!Next]_(T!Call!consoleCall)
          [] transport = "docker" ->
               \A c \in Callers : [A!Call(c)!Next]_(A!Call(c)!consoleCall)]_vars

(* Calls return: over telnet once the server has fallen silent, over RCON   *)
(* once it stops sending, over Docker however long the container talks.     *)
(* Nor can a telnet server hold up the command itself by talking.           *)
CallReturns ==
  /\ transport = "rcon" /\ R!Busy ~> transport = "rcon" /\ pc = "done"
  /\ transport = "telnet" /\ pc \in {"greeting", "answer"}
       ~> transport = "telnet" /\ pc \notin {"greeting", "answer"}
  /\ transport = "telnet" /\ T!Busy /\ srv.quiet ~> transport = "telnet" /\ ~T!Busy
  /\ \A c \in Callers :
       transport = "docker" /\ A!Busy(c) ~> transport = "docker" /\ pc[c] = "done"

=============================================================================
