----------------------------- MODULE ConsoleCall -----------------------------
(* What the dispatcher relies on when it calls a console client, whatever   *)
(* the protocol: the interface rconcontrol.Executor, telnetcontrol.Executor *)
(* and dockercontrol.Commander share.  A call writes its command at most    *)
(* once, succeeds only after it has, and writes nothing at all when its     *)
(* context was cancelled before it began.  Rcon, Telnet and Attach          *)
(* implement this.                                                          *)
EXTENDS Naturals

VARIABLES
  verdict,   \* "idle", "open" during a call, then "ok" or "error"
  barred,    \* the context was cancelled when the call began
  writes     \* how often its command was written

consoleCall == <<verdict, barred, writes>>

Init ==
  /\ verdict = "idle"
  /\ barred = FALSE
  /\ writes = 0

(* A call begins; it may be refused outright.                               *)
Start ==
  /\ verdict # "open"
  /\ verdict' \in {"open", "error"}
  /\ barred' \in BOOLEAN
  /\ writes' = 0

Write ==
  /\ verdict = "open"
  /\ ~barred
  /\ writes = 0
  /\ writes' = 1
  /\ UNCHANGED <<verdict, barred>>

Succeed ==
  /\ verdict = "open"
  /\ writes = 1
  /\ verdict' = "ok"
  /\ UNCHANGED <<barred, writes>>

(* A call may fail before its command was written and after.                *)
Fail ==
  /\ verdict = "open"
  /\ verdict' = "error"
  /\ UNCHANGED <<barred, writes>>

Next == Start \/ Write \/ Succeed \/ Fail

Spec == Init /\ [][Next]_consoleCall

=============================================================================
