------------------------------- MODULE Attach --------------------------------
(* Client.SendCommand (internal/dockercontrol/client.go): commands written  *)
(* to the standard input of a container, whose output is one stream that    *)
(* every attachment sees from the moment it was made.                       *)
(*                                                                          *)
(* A line of the console is the caller whose command it answers, or Noise.  *)
EXTENDS Consoles, SequencesExt

VARIABLES
  pc,          \* caller -> where in SendCommand it is
  gone,        \* caller -> its context is cancelled
  output,      \* caller -> lines its attachment has received
  result,      \* caller -> "none", then "ok" or "error"
  running,     \* the container runs
  attached,    \* callers with an open attachment
  stdin,       \* commands the container has not read yet
  barred,      \* history: caller -> gone when its call began
  writes,      \* history: caller -> how often its command was written
  answered     \* history: callers answered while their call was open

container == <<running, stdin>>
vars == <<pc, gone, output, result, container, attached, barred, writes, answered>>

Busy(c) == pc[c] \notin {"idle", "done"}

Init ==
  /\ pc = [c \in Callers |-> "idle"]
  /\ gone = [c \in Callers |-> FALSE]
  /\ output = [c \in Callers |-> <<>>]
  /\ result = [c \in Callers |-> "none"]
  /\ running \in BOOLEAN
  /\ attached = {}
  /\ stdin = <<>>
  /\ barred = [c \in Callers |-> FALSE]
  /\ writes = [c \in Callers |-> 0]
  /\ answered = {}

(* Return closes the attachment.                                            *)
Return(c, r) ==
  /\ pc' = [pc EXCEPT ![c] = "done"]
  /\ result' = [result EXCEPT ![c] = r]
  /\ attached' = attached \ {c}

Goto(c, p) == pc' = [pc EXCEPT ![c] = p] /\ UNCHANGED result

(* A call begins; a blank container or command is not valid.  A caller      *)
(* waits until its last command was read, so that lines tell calls apart.   *)
Begin(c, context, cancelled, valid) ==
  /\ ~Busy(c) /\ ~Contains(stdin, c)
  /\ gone' = [gone EXCEPT ![c] = context]
  /\ barred' = [barred EXCEPT ![c] = cancelled]
  /\ output' = [output EXCEPT ![c] = <<>>]
  /\ writes' = [writes EXCEPT ![c] = 0]
  /\ answered' = answered \ {c}
  /\ pc' = [pc EXCEPT ![c] = IF valid THEN "inspect" ELSE "done"]
  /\ result' = [result EXCEPT ![c] = IF valid THEN "none" ELSE "error"]
  /\ UNCHANGED <<container, attached>>

(* The daemon is called under a context of its own.                         *)
SendDetached(c, cancelled, valid) == Begin(c, FALSE, cancelled, valid)

SendCommand(c, cancelled, valid) == Begin(c, cancelled, cancelled, valid)

(* ContainerInspect, which fails for a cancelled context.                   *)
ContainerInspect(c) ==
  /\ pc[c] = "inspect"
  /\ IF running /\ ~gone[c] THEN Goto(c, "attach") /\ UNCHANGED attached
     ELSE Return(c, "error")
  /\ UNCHANGED <<gone, output, container, barred, writes, answered>>

(* The container may have stopped since, the client may have gone.          *)
ContainerAttach(c) ==
  /\ pc[c] = "attach"
  /\ IF running /\ ~gone[c] THEN Goto(c, "write") /\ attached' = attached \cup {c}
     ELSE Return(c, "error")
  /\ UNCHANGED <<gone, output, container, barred, writes, answered>>

(* A request to the daemon, the write or the read fails.                    *)
Fails(c) ==
  /\ Busy(c)
  /\ Return(c, "error")
  /\ UNCHANGED <<gone, output, container, barred, writes, answered>>

(* A command written to an attachment that was cut is lost.                 *)
WriteString(c) ==
  /\ pc[c] = "write"
  /\ Goto(c, "written")
  /\ stdin' = IF c \in attached THEN Append(stdin, c) ELSE stdin
  /\ writes' = [writes EXCEPT ![c] = @ + 1]
  /\ UNCHANGED <<gone, output, running, attached, barred, answered>>

setDeadline(c) ==
  /\ pc[c] = "written"
  /\ Goto(c, "collect")
  /\ UNCHANGED <<gone, output, container, attached, barred, writes, answered>>

(* The second is over, or the stream has ended.                             *)
collectAttachOutput(c) ==
  /\ pc[c] = "collect"
  /\ Return(c, "ok")
  /\ UNCHANGED <<gone, output, container, barred, writes, answered>>

Cancel(c) ==
  /\ Busy(c) /\ ~gone[c]
  /\ gone' = [gone EXCEPT ![c] = TRUE]
  /\ UNCHANGED <<pc, output, result, container, attached, barred, writes, answered>>

(* The output is read over a second attachment, made for collecting.        *)
HearingWhenCollecting == {c \in attached : pc[c] = "collect"}

(* The attachments a line goes to.                                          *)
Hearing == attached

Emit(line) ==
  /\ running
  /\ \A c \in Hearing : Len(output[c]) < MaxOutput
  /\ output' = [c \in Callers |-> IF c \in Hearing THEN Append(output[c], line) ELSE output[c]]
  /\ UNCHANGED <<pc, gone, result, running, attached, barred, writes>>

Chat == Emit(Noise) /\ UNCHANGED <<stdin, answered>>

Reply ==
  /\ stdin # <<>>
  /\ Emit(Head(stdin))
  /\ stdin' = Tail(stdin)
  /\ answered' = IF Busy(Head(stdin)) THEN answered \cup {Head(stdin)} ELSE answered

(* A container that stops cuts its attachments and forgets its input.       *)
StopOrStart ==
  /\ running' = ~running
  /\ stdin' = <<>>
  /\ attached' = {}
  /\ UNCHANGED <<pc, gone, output, result, barred, writes, answered>>

Step(c) ==
  \/ ContainerInspect(c) \/ ContainerAttach(c) \/ WriteString(c)
  \/ setDeadline(c) \/ collectAttachOutput(c)

Next ==
  \/ \E c \in Callers : \/ \E cancelled, valid \in BOOLEAN : SendCommand(c, cancelled, valid)
                        \/ Step(c) \/ Fails(c) \/ Cancel(c)
  \/ Chat \/ Reply \/ StopOrStart

Spec == Init /\ [][Next]_vars

(* The daemon answers and takes what is written; reading has a deadline.    *)
FairSpec == Spec /\ \A c \in Callers : WF_vars(Step(c))

-----------------------------------------------------------------------------
(* Properties                                                               *)

TypeOK ==
  /\ pc \in [Callers -> {"idle", "inspect", "attach", "write", "written", "collect", "done"}]
  /\ {gone, barred} \subseteq [Callers -> BOOLEAN]
  /\ \A c \in Callers : output[c] \in Seq(Callers \cup {Noise}) /\ Len(output[c]) <= MaxOutput
  /\ result \in [Callers -> {"none", "ok", "error"}]
  /\ running \in BOOLEAN
  /\ attached \subseteq {c \in Callers : Busy(c)}
  /\ stdin \in Seq(Callers) /\ IsInjective(stdin)
  /\ writes \in [Callers -> 0..1]
  /\ answered \subseteq Callers

(* A successful call has the console's answer to its own command in its      *)
(* output if the console gave it before the deadline, however soon after the *)
(* write that was and whatever other attachments and restarts do; lines of   *)
(* other calls may be there too.                                             *)
OwnReplySeen ==
  \A c \in answered : result[c] = "ok" => Contains(output[c], c)

(* A container that talks without end does not hold a call.                  *)
CallReturns == \A c \in Callers : Busy(c) ~> pc[c] = "done"

Call(c) ==
  INSTANCE ConsoleCall WITH
    verdict <- IF pc[c] = "idle" THEN "idle" ELSE IF Busy(c) THEN "open" ELSE result[c],
    barred <- barred[c], writes <- writes[c]

(* Every caller's client keeps what the dispatcher relies on.                *)
ImplementsConsoleCall ==
  /\ \A c \in Callers : Call(c)!Init
  /\ [][\A c \in Callers : [Call(c)!Next]_(Call(c)!consoleCall)]_vars

=============================================================================
