------------------------------ MODULE Lifecycle ------------------------------
(* main (cmd/notification-agent/main.go) from the moment everything is      *)
(* wired: HTTP handlers and relays at work, a signal or a failing server,   *)
(* the graceful shutdown with its limit, the deferred closes, the exit.     *)
(*                                                                          *)
(* Handlers may hang: nothing says that an HTTP request or a relay ends.    *)
CONSTANTS
  Requests,    \* HTTP requests
  Relays       \* chat messages being relayed

ASSUME LifecycleAssumption == Requests \cap Relays = {}

Work == Requests \cup Relays

VARIABLES
  main,        \* where main is: "select", "shutdown", "closing", "exited", "fatal"
  signalled,   \* the signal context is done
  errCh,       \* "empty", "nil" or "error"
  listening,   \* the HTTP server accepts requests
  session,     \* the Discord session is open
  docker,      \* Docker client: "open", "closed", or "absent" if not built
  work         \* "none", "busy", "done", or "cut" by the end of the process

vars == <<main, signalled, errCh, listening, session, docker, work>>

Init ==
  /\ main = "select"
  /\ signalled = FALSE
  /\ errCh = "empty"
  /\ listening = TRUE
  /\ session = TRUE
  /\ docker \in {"open", "absent"}
  /\ work = [w \in Work |-> "none"]

Alive == main \notin {"exited", "fatal"}
Busy(w) == work[w] = "busy"

(* The HTTP server accepts a connection, which Shutdown waits for from then *)
(* on; the Discord session starts a handler.                                *)
Begin(w) ==
  /\ Alive /\ work[w] = "none"
  /\ IF w \in Requests THEN listening ELSE session
  /\ work' = [work EXCEPT ![w] = "busy"]
  /\ UNCHANGED <<main, signalled, errCh, listening, session, docker>>

End(w) ==
  /\ Alive /\ Busy(w)
  /\ work' = [work EXCEPT ![w] = "done"]
  /\ UNCHANGED <<main, signalled, errCh, listening, session, docker>>

(* Also a second signal, which changes nothing until stop is called.        *)
Signal ==
  /\ Alive
  /\ signalled' = TRUE
  /\ UNCHANGED <<main, errCh, listening, session, docker, work>>

ServeFails ==
  /\ Alive /\ listening
  /\ listening' = FALSE
  /\ errCh' = "error"
  /\ UNCHANGED <<main, signalled, session, docker, work>>

(* The serving goroutine ends after Shutdown has closed the listener.       *)
ServerClosed ==
  /\ main \in {"shutdown", "closing"} /\ ~listening /\ errCh = "empty"
  /\ errCh' = "nil"
  /\ UNCHANGED <<main, signalled, listening, session, docker, work>>

Exit(how) ==
  /\ main' = how
  /\ work' = [w \in Work |-> IF Busy(w) THEN "cut" ELSE work[w]]

(* The Discord session is closed when the signal arrives.                   *)
CloseThenShutdown ==
  /\ main = "select" /\ signalled
  /\ main' = "shutdown"
  /\ listening' = FALSE
  /\ session' = FALSE
  /\ UNCHANGED <<signalled, errCh, docker, work>>

Shutdown ==
  /\ main = "select" /\ signalled
  /\ main' = "shutdown"
  /\ listening' = FALSE
  /\ UNCHANGED <<signalled, errCh, session, docker, work>>

(* log.Fatalf: no deferred call runs.                                       *)
ServeError ==
  /\ main = "select" /\ errCh = "error"
  /\ Exit("fatal")
  /\ UNCHANGED <<signalled, errCh, listening, session, docker>>

(* Handlers still at work are ended by force.                               *)
EndHandlers ==
  /\ main = "shutdown"
  /\ main' = "closing"
  /\ work' = [w \in Work |-> IF w \in Requests /\ Busy(w) THEN "cut" ELSE work[w]]
  /\ UNCHANGED <<signalled, errCh, listening, session, docker>>

(* Shutdown returns nil when no HTTP handler is at work.                    *)
ShutdownDone ==
  /\ main = "shutdown" /\ ~\E r \in Requests : Busy(r)
  /\ main' = "closing"
  /\ UNCHANGED <<signalled, errCh, listening, session, docker, work>>

(* Without limit: idle for as long as a handler is busy.                    *)
WaitOn ==
  /\ main = "shutdown" /\ ~\E w \in Work : Busy(w)
  /\ Exit("fatal")
  /\ UNCHANGED <<signalled, errCh, listening, session, docker>>

(* Ten seconds are over.                                                    *)
ShutdownTimeout ==
  /\ main = "shutdown"
  /\ Exit("fatal")
  /\ UNCHANGED <<signalled, errCh, listening, session, docker>>

(* Deferred calls, last first: the Docker client, then the session.         *)
CloseDocker ==
  /\ main = "closing" /\ docker = "open"
  /\ docker' = "closed"
  /\ UNCHANGED <<main, signalled, errCh, listening, session, work>>

CloseSession ==
  /\ main = "closing" /\ docker # "open" /\ session
  /\ session' = FALSE
  /\ UNCHANGED <<main, signalled, errCh, listening, docker, work>>

Return ==
  /\ main = "closing" /\ docker # "open" /\ ~session
  /\ Exit("exited")
  /\ UNCHANGED <<signalled, errCh, listening, session, docker>>

(* The container is started again.                                          *)
Restart ==
  /\ ~Alive
  /\ main' = "select" /\ signalled' = FALSE /\ errCh' = "empty"
  /\ listening' = TRUE /\ session' = TRUE /\ docker' \in {"open", "absent"}
  /\ work' = [w \in Work |-> "none"]

Main == Shutdown \/ ServeError \/ ShutdownDone \/ ShutdownTimeout
        \/ CloseDocker \/ CloseSession \/ Return

Next ==
  \/ \E w \in Work : Begin(w) \/ End(w)
  \/ Signal \/ ServeFails \/ ServerClosed \/ Main \/ Restart

Spec == Init /\ [][Next]_vars

-----------------------------------------------------------------------------
(* Properties                                                               *)

TypeOK ==
  /\ main \in {"select", "shutdown", "closing", "exited", "fatal"}
  /\ {signalled, listening, session} \subseteq BOOLEAN
  /\ errCh \in {"empty", "nil", "error"}
  /\ docker \in {"open", "closed", "absent"}
  /\ work \in [Work -> {"none", "busy", "done", "cut"}]
  /\ Alive => \A w \in Work : work[w] # "cut"

(* As long as an HTTP handler is at work, the clients it posts and attaches  *)
(* with are open: they are closed after the last one has finished.           *)
ClientsOpenWhileServing ==
  Alive /\ (\E r \in Requests : Busy(r)) => session /\ docker # "closed"

(* A signal ends the process, whether or not its handlers ever finish, and   *)
(* whether or not the server failed at the same moment.                      *)
SignalLeadsToExit == signalled ~> ~Alive

=============================================================================
