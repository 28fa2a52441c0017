----------------------------- MODULE HttpProofs -----------------------------
(* Theorems about Lifecycle and Http, for any number of requests and relays *)
(* and anything the clients may send.                                       *)
EXTENDS Http, TLAPS

-----------------------------------------------------------------------------
(* The life cycle                                                           *)

(* An orderly exit finds no HTTP request in the middle of its work.          *)
CutsNothing == main = "exited" => \A r \in Requests : work[r] \in {"none", "done"}

(* The clients are closed, and the exit is orderly, only after the listener *)
(* was closed and the last HTTP handler has ended.                          *)
LifeInv ==
  /\ TypeOK
  /\ main \in {"select", "shutdown"} => session /\ docker # "closed"
  /\ main \in {"shutdown", "closing", "exited"} => ~listening
  /\ main = "closing" => \A r \in Requests : ~Busy(r)
  /\ CutsNothing

(* The invariant holds when main starts to wait.                            *)
LEMMA LifeInit == Init => LifeInv
  BY DEF Init, LifeInv, TypeOK, CutsNothing, Alive

(* The handlers' own steps.                                                 *)
LEMMA WorkStep ==
  ASSUME LifeInv, NEW w \in Work, Begin(w) \/ End(w)
  PROVE  LifeInv'
<1>1. /\ main' = main /\ signalled' = signalled /\ errCh' = errCh /\ listening' = listening
      /\ session' = session /\ docker' = docker
  BY DEF Begin, End
<1>2. main \notin {"exited", "fatal"}
  BY DEF Begin, End, Alive
<1>3. TypeOK'
  BY <1>1 DEF LifeInv, TypeOK, Begin, End, Alive
<1>4. main = "closing" => \A r \in Requests : ~Busy(r)'
  <2> SUFFICES ASSUME main = "closing", NEW r \in Requests PROVE work'[r] # "busy"
    BY DEF Busy
  <2>1. ~listening /\ work[r] # "busy"
    BY DEF LifeInv, Busy
  <2> QED  BY <2>1 DEF Begin, End, LifeInv, TypeOK, Work
<1> QED  BY <1>1, <1>2, <1>3, <1>4 DEF LifeInv, CutsNothing

(* The steps of the signal and of the serving goroutine.                    *)
LEMMA ServerStep ==
  ASSUME LifeInv, Signal \/ ServeFails \/ ServerClosed
  PROVE  LifeInv'
<1>1. main' = main /\ session' = session /\ docker' = docker /\ work' = work
  BY DEF Signal, ServeFails, ServerClosed
<1>2. /\ listening' \in BOOLEAN /\ (listening' => listening)
      /\ signalled' \in BOOLEAN /\ errCh' \in {"empty", "nil", "error"}
  <2>1. signalled \in BOOLEAN /\ listening \in BOOLEAN /\ errCh \in {"empty", "nil", "error"}
    BY DEF LifeInv, TypeOK
  <2>2. CASE Signal
    BY <2>1, <2>2 DEF Signal
  <2>3. CASE ServeFails
    BY <2>1, <2>3 DEF ServeFails
  <2>4. CASE ServerClosed
    BY <2>1, <2>4 DEF ServerClosed
  <2> QED  BY <2>2, <2>3, <2>4
<1>3. TypeOK'
  BY <1>1, <1>2 DEF LifeInv, TypeOK, Alive
<1>4. main' \in {"shutdown", "closing", "exited"} => ~listening'
  BY <1>1, <1>2 DEF LifeInv
<1>5. main' = "closing" => \A r \in Requests : ~Busy(r)'
  BY <1>1 DEF LifeInv, Busy
<1>6. CutsNothing' /\ (main' \in {"select", "shutdown"} => session' /\ docker' # "closed")
  BY <1>1 DEF LifeInv, CutsNothing
<1> QED  BY <1>3, <1>4, <1>5, <1>6 DEF LifeInv

(* The steps of main.                                                       *)
LEMMA MainStep ==
  ASSUME LifeInv, Main
  PROVE  LifeInv'
<1>1. CASE Shutdown
  BY <1>1 DEF Shutdown, LifeInv, TypeOK, CutsNothing, Alive
<1>2. CASE ServeError
  BY <1>2 DEF ServeError, Exit, LifeInv, TypeOK, CutsNothing, Alive, Busy
<1>3. CASE ShutdownDone
  BY <1>3 DEF ShutdownDone, LifeInv, TypeOK, CutsNothing, Alive, Busy
<1>4. CASE ShutdownTimeout
  BY <1>4 DEF ShutdownTimeout, Exit, LifeInv, TypeOK, CutsNothing, Alive, Busy
<1>5. CASE CloseDocker
  BY <1>5 DEF CloseDocker, LifeInv, TypeOK, CutsNothing, Alive, Busy
<1>6. CASE CloseSession
  BY <1>6 DEF CloseSession, LifeInv, TypeOK, CutsNothing, Alive, Busy
<1>7. CASE Return
  <2>1. TypeOK'
    BY <1>7 DEF Return, Exit, LifeInv, TypeOK, Alive, Busy
  <2>2. ASSUME NEW r \in Requests PROVE work'[r] \in {"none", "done"}
    <3>1. work[r] \in {"none", "done"}
      BY <1>7 DEF Return, LifeInv, TypeOK, Alive, Busy, Work
    <3> QED  BY <1>7, <3>1 DEF Return, Exit, Busy, Work
  <2> QED  BY <1>7, <2>1, <2>2 DEF Return, Exit, LifeInv, CutsNothing
<1> QED  BY <1>1, <1>2, <1>3, <1>4, <1>5, <1>6, <1>7 DEF Main

(* Every step of the life cycle keeps the invariant.                        *)
LEMMA LifeNext == LifeInv /\ [Next]_vars => LifeInv'
<1> SUFFICES ASSUME LifeInv, [Next]_vars PROVE LifeInv'
  OBVIOUS
<1>1. CASE UNCHANGED vars
  BY <1>1 DEF vars, LifeInv, TypeOK, CutsNothing, Alive, Busy
<1>2. CASE Restart
  BY <1>2 DEF Restart, LifeInv, TypeOK, CutsNothing, Alive
<1> QED  BY <1>1, <1>2, WorkStep, ServerStep, MainStep DEF Next

(* LifeInv is an invariant of the life cycle.                               *)
THEOREM LifeInductive == Spec => []LifeInv
  BY LifeInit, LifeNext, PTL DEF Spec

(* Nothing is closed under an HTTP handler, and an orderly exit cuts no      *)
(* request.                                                                 *)
LEMMA LifeSafe == LifeInv => TypeOK /\ ClientsOpenWhileServing /\ CutsNothing
  BY DEF LifeInv, TypeOK, ClientsOpenWhileServing, Alive

-----------------------------------------------------------------------------
(* The handlers within it                                                   *)

(* A request that is decoded or served was sent to a route that does so.    *)
Routed(r) ==
  /\ phase[r] \in {"decode", "serve"} =>
       input[r].allowed /\ input[r].route \in {"notify", "console"}
  /\ phase[r] = "serve" => input[r].json

(* AnsweredOnce for one request.                                            *)
Answered(r) ==
  /\ work[r] # "done" => statuses[r] = <<>>
  /\ work[r] = "done" => Len(statuses[r]) = 1 \/ Panicked(r)
  /\ statuses[r] = <<202>> =>
       input[r].allowed /\ input[r].json /\ input[r].route \in {"notify", "console"}

HttpInv ==
  /\ LifeInv
  /\ HttpTypeOK
  /\ \A r \in Requests : Routed(r) /\ Answered(r)

(* The invariant holds before the first request.                            *)
LEMMA HttpInitInv == HttpInit => HttpInv
<1> SUFFICES ASSUME HttpInit PROVE HttpInv
  OBVIOUS
<1>1. LifeInv
  BY LifeInit DEF HttpInit
<1>2. \A r \in Requests : work[r] = "none"
  BY DEF HttpInit, Init, Work
<1> QED  BY <1>1, <1>2 DEF HttpInit, HttpInv, HttpTypeOK, Routed, Answered, LifeInv, Busy

(* What handlers do is a step of the life cycle: they only begin and end.   *)
LEMMA HttpStepIsLifeStep == [HttpNext]_httpVars => [Next]_vars
<1> SUFFICES ASSUME [HttpNext]_httpVars PROVE [Next]_vars
  OBVIOUS
<1>1. CASE UNCHANGED httpVars
  BY <1>1 DEF httpVars
<1>2. ASSUME NEW r \in Requests, Handler(r) PROVE [Next]_vars
  <2>1. Begin(r) \/ End(r) \/ UNCHANGED vars
    BY <1>2 DEF Handler, Accept, requestLogger, BodyError, Routes, Decode, Served, Panic,
                Disconnect, Notice, Move, writeJSON
  <2> QED  BY <2>1 DEF Next, Work
<1>3. CASE Around
  BY <1>3 DEF Around, Next, Work
<1>4. CASE RestartAll
  BY <1>4 DEF RestartAll, Next
<1> QED  BY <1>1, <1>2, <1>3, <1>4 DEF HttpNext

(* A step of the handler of r: the other requests are as they were.         *)
LEMMA OthersAnswered ==
  ASSUME HttpInv, LifeInv', NEW r \in Requests, docker' = docker,
         \A q \in Requests \ {r} :
           /\ work'[q] = work[q] /\ input'[q] = input[q]
           /\ phase'[q] = phase[q] /\ statuses'[q] = statuses[q],
         HttpTypeOK', Routed(r)', Answered(r)'
  PROVE  HttpInv'
<1>1. ASSUME NEW q \in Requests, q # r PROVE Routed(q)' /\ Answered(q)'
  BY <1>1 DEF HttpInv, Routed, Answered, Panicked
<1> QED  BY <1>1 DEF HttpInv

(* A handler that writes its answer returns with it, and with no other.     *)
LEMMA AnswerStep ==
  ASSUME HttpInv, LifeInv', NEW r \in Requests, NEW status \in Statuses, writeJSON(r, status),
         status = 202 => phase[r] = "serve"
  PROVE  HttpInv'
<1>1. /\ work' = [work EXCEPT ![r] = "done"] /\ docker' = docker
      /\ phase' = [phase EXCEPT ![r] = "over"]
      /\ statuses' = [statuses EXCEPT ![r] = Append(@, status)]
      /\ input' = input /\ gone' = gone /\ eof' = eof /\ cancelled' = cancelled
      /\ work[r] = "busy"
  BY DEF writeJSON, End, Busy
<1>2. work[r] # "done" /\ statuses[r] = <<>>
  BY <1>1 DEF HttpInv, Answered
<1>3. work'[r] = "done" /\ phase'[r] = "over" /\ statuses'[r] = <<status>>
  BY <1>1, <1>2 DEF HttpInv, HttpTypeOK, LifeInv, TypeOK, Work
<1>4. HttpTypeOK'
  <2>1. statuses' \in [Requests -> Seq(Statuses)]
    BY <1>1, <1>2 DEF HttpInv, HttpTypeOK
  <2>2. \A q \in Requests : Busy(q)' => phase'[q] \notin {"none", "over"}
    BY <1>1, <1>3 DEF HttpInv, HttpTypeOK, LifeInv, TypeOK, Work, Busy
  <2> QED  BY <1>1, <2>1, <2>2 DEF HttpInv, HttpTypeOK, LifeInv
<1>5. Routed(r)' /\ Answered(r)'
  <2>1. statuses'[r] = <<202>> => status = 202
    BY <1>3
  <2>2. Len(statuses'[r]) = 1
    BY <1>3
  <2> QED  BY <1>1, <1>3, <2>1, <2>2 DEF Routed, Answered, HttpInv
<1>6. \A q \in Requests \ {r} :
        work'[q] = work[q] /\ input'[q] = input[q] /\ phase'[q] = phase[q] /\ statuses'[q] = statuses[q]
  BY <1>1 DEF HttpInv, HttpTypeOK, LifeInv, TypeOK, Work
<1> QED  BY <1>1, <1>4, <1>5, <1>6, OthersAnswered

(* A handler goes on, with what its client sent as it was.                  *)
LEMMA MoveStep ==
  ASSUME HttpInv, LifeInv', NEW r \in Requests, NEW p \in {"route", "decode", "serve"},
         Move(r, p), eof' \in [Requests -> BOOLEAN],
         p \in {"decode", "serve"} =>
           input[r].allowed /\ input[r].route \in {"notify", "console"},
         p = "serve" => input[r].json
  PROVE  HttpInv'
<1>1. /\ main' = main /\ work' = work /\ docker' = docker /\ input' = input
      /\ statuses' = statuses /\ gone' = gone /\ cancelled' = cancelled
      /\ phase' = [phase EXCEPT ![r] = p]
  BY DEF Move, vars
<1>2. HttpTypeOK'
  BY <1>1 DEF HttpInv, HttpTypeOK, LifeInv, Busy
<1>3. Routed(r)' /\ Answered(r)'
  BY <1>1 DEF HttpInv, HttpTypeOK, Routed, Answered, Panicked
<1>4. \A q \in Requests \ {r} : phase'[q] = phase[q]
  BY <1>1 DEF HttpInv, HttpTypeOK
<1> QED  BY <1>1, <1>2, <1>3, <1>4, OthersAnswered

(* A step of a handler, of its client or of its connection.                 *)
LEMMA HandlerStep ==
  ASSUME HttpInv, LifeInv', NEW r \in Requests, Handler(r)
  PROVE  HttpInv'
<1>1. ASSUME NEW q \in Inputs(r), Accept(r, q) PROVE HttpInv'
  <2>1. /\ work' = [work EXCEPT ![r] = "busy"] /\ docker' = docker /\ work[r] = "none"
        /\ input' = [input EXCEPT ![r] = q] /\ phase' = [phase EXCEPT ![r] = "body"]
        /\ statuses' = statuses /\ gone' = gone /\ eof' = eof /\ cancelled' = cancelled
    BY <1>1 DEF Accept, Begin
  <2>2. HttpTypeOK'
    BY <2>1 DEF HttpInv, HttpTypeOK, LifeInv, TypeOK, Work, Busy
  <2>3. work'[r] = "busy" /\ phase'[r] = "body" /\ statuses'[r] = <<>>
    BY <2>1 DEF HttpInv, HttpTypeOK, LifeInv, TypeOK, Work, Answered
  <2>4. Routed(r)' /\ Answered(r)'
    BY <2>3 DEF Routed, Answered
  <2>5. \A s \in Requests \ {r} :
          work'[s] = work[s] /\ input'[s] = input[s] /\ phase'[s] = phase[s] /\ statuses'[s] = statuses[s]
    BY <2>1 DEF HttpInv, HttpTypeOK, LifeInv, TypeOK, Work
  <2> QED  BY <2>1, <2>2, <2>4, <2>5, OthersAnswered
<1>2. CASE requestLogger(r)
  <2>1. Move(r, "route") /\ eof' \in [Requests -> BOOLEAN]
    BY <1>2 DEF requestLogger, HttpInv, HttpTypeOK
  <2> QED  BY <2>1, MoveStep
<1>3. CASE BodyError(r)
  BY <1>3, AnswerStep DEF BodyError, Statuses
<1>4. CASE Routes(r)
  <2>1. \/ input[r].route \in {"notify", "console", "healthz", "swagger", "other"}
        \/ input[r].route # "other" /\ ~input[r].allowed
    <3>1. CASE input[r] = NoInput
      <4>1. input[r].route = "none" /\ input[r].allowed = FALSE
        BY <3>1 DEF NoInput
      <4> QED  BY <1>4, <4>1
    <3>2. CASE input[r] \in Inputs(r)
      BY <3>2, InputAssumption
    <3> QED  BY <3>1, <3>2 DEF HttpInv, HttpTypeOK
  <2>2. CASE input[r].route = "other"
    BY <1>4, <2>2, AnswerStep DEF Routes, Statuses
  <2>3. CASE input[r].route # "other" /\ ~input[r].allowed
    BY <1>4, <2>3, AnswerStep DEF Routes, Statuses
  <2>4. CASE input[r].route = "healthz" /\ input[r].allowed
    BY <1>4, <2>4, AnswerStep DEF Routes, Statuses
  <2>6. CASE input[r].route = "swagger" /\ input[r].allowed
    BY <1>4, <2>6, AnswerStep DEF Routes, Statuses
  <2>5. CASE input[r].route \in {"notify", "console"} /\ input[r].allowed
    <3>1. Move(r, "decode") /\ eof' = eof
      BY <1>4, <2>5 DEF Routes
    <3> QED  BY <2>5, <3>1, MoveStep DEF HttpInv, HttpTypeOK
  <2> QED  BY <2>1, <2>2, <2>3, <2>4, <2>5, <2>6
<1>5. CASE Decode(r)
  <2>1. input[r].allowed /\ input[r].route \in {"notify", "console"}
    BY <1>5 DEF Decode, At, HttpInv, Routed
  <2>2. CASE input[r].json
    BY <1>5, <2>1, <2>2, MoveStep DEF Decode, HttpInv, HttpTypeOK
  <2>3. CASE ~input[r].json
    BY <1>5, <2>3, AnswerStep DEF Decode, Statuses
  <2> QED  BY <2>2, <2>3
<1>6. CASE Served(r)
  BY <1>6, AnswerStep DEF Served, At, Statuses
<1>7. CASE Panic(r)
  <2>1. /\ work' = [work EXCEPT ![r] = "done"] /\ docker' = docker /\ docker = "absent"
        /\ phase' = [phase EXCEPT ![r] = "over"] /\ input' = input /\ statuses' = statuses
        /\ gone' = gone /\ eof' = eof /\ cancelled' = cancelled
        /\ work[r] = "busy" /\ input[r].route = "console"
    BY <1>7 DEF Panic, End, Busy
  <2>2. HttpTypeOK'
    BY <2>1 DEF HttpInv, HttpTypeOK, LifeInv, TypeOK, Work, Busy
  <2>3. statuses'[r] = <<>> /\ phase'[r] = "over"
    BY <2>1 DEF HttpInv, HttpTypeOK, Answered
  <2>4. Routed(r)' /\ Answered(r)'
    <3>1. <<>> # <<202>>
      OBVIOUS
    <3> QED  BY <2>1, <2>3, <3>1 DEF Routed, Answered, Panicked
  <2>5. \A s \in Requests \ {r} : work'[s] = work[s] /\ phase'[s] = phase[s]
    BY <2>1 DEF HttpInv, HttpTypeOK, LifeInv, TypeOK, Work
  <2> QED  BY <2>1, <2>2, <2>4, <2>5, OthersAnswered
<1>8. CASE Disconnect(r) \/ Notice(r)
  <2>1. /\ main' = main /\ work' = work /\ docker' = docker /\ input' = input
        /\ phase' = phase /\ statuses' = statuses /\ eof' = eof
    BY <1>8 DEF Disconnect, Notice, vars
  <2>2. HttpTypeOK'
    BY <1>8, <2>1 DEF Disconnect, Notice, HttpInv, HttpTypeOK, LifeInv, Busy
  <2> QED  BY <2>1, <2>2 DEF HttpInv, Routed, Answered, Panicked
<1> QED  BY <1>1, <1>2, <1>3, <1>4, <1>5, <1>6, <1>7, <1>8 DEF Handler

(* main's steps: they may cut a request, which is then without an answer.   *)
LEMMA AroundStep ==
  ASSUME HttpInv, LifeInv', Around
  PROVE  HttpInv'
<1>1. /\ input' = input /\ phase' = phase /\ statuses' = statuses
      /\ gone' = gone /\ eof' = eof /\ cancelled' = cancelled
  BY DEF Around, exchange
<1>2. docker = "absent" => docker' = "absent"
  BY DEF Around, Begin, End, Signal, ServeFails, ServerClosed, Main, Shutdown, ServeError,
         ShutdownDone, ShutdownTimeout, CloseDocker, CloseSession, Return
<1>3. ASSUME NEW r \in Requests
      PROVE  work'[r] = work[r] \/ (work[r] = "busy" /\ work'[r] = "cut")
  <2>1. CASE work' = work
    BY <2>1
  <2>2. ASSUME NEW m \in Relays, Begin(m) \/ End(m)
        PROVE  work'[r] = work[r]
    BY <2>2, LifecycleAssumption DEF Begin, End, HttpInv, LifeInv, TypeOK, Work
  <2>3. ASSUME NEW how, Exit(how) PROVE work'[r] = IF work[r] = "busy" THEN "cut" ELSE work[r]
    BY <2>3 DEF Exit, Busy, Work
  <2>4. CASE ServeError \/ ShutdownTimeout \/ Return
    BY <2>3, <2>4 DEF ServeError, ShutdownTimeout, Return
  <2> QED  BY <2>1, <2>2, <2>4 DEF Around, Signal, ServeFails, ServerClosed, Main, Shutdown,
                                  ShutdownDone, CloseDocker, CloseSession
<1>4. HttpTypeOK'
  BY <1>1, <1>3 DEF HttpInv, HttpTypeOK, LifeInv, Busy
<1>5. ASSUME NEW r \in Requests PROVE Routed(r)' /\ Answered(r)'
  <2>1. Routed(r) /\ Answered(r)
    BY DEF HttpInv
  <2> QED  BY <1>1, <1>2, <1>3, <2>1 DEF Routed, Answered, Panicked
<1> QED  BY <1>4, <1>5 DEF HttpInv

(* Every step keeps the invariant.                                          *)
LEMMA HttpNextInv == HttpInv /\ [HttpNext]_httpVars => HttpInv'
<1> SUFFICES ASSUME HttpInv, [HttpNext]_httpVars PROVE HttpInv'
  OBVIOUS
<1>1. LifeInv'
  BY HttpStepIsLifeStep, LifeNext DEF HttpInv
<1>2. CASE UNCHANGED httpVars
  <2>1. /\ work' = work /\ docker' = docker /\ input' = input /\ phase' = phase
        /\ statuses' = statuses /\ gone' = gone /\ eof' = eof /\ cancelled' = cancelled
    BY <1>2 DEF httpVars, vars, exchange
  <2>2. HttpTypeOK'
    BY <1>1, <2>1 DEF HttpInv, HttpTypeOK, LifeInv, Busy
  <2> QED  BY <1>1, <2>1, <2>2 DEF HttpInv, Routed, Answered, Panicked
<1>3. CASE RestartAll
  <2>1. /\ work' = [w \in Work |-> "none"]
        /\ input' = [r \in Requests |-> NoInput] /\ phase' = [r \in Requests |-> "none"]
        /\ statuses' = [r \in Requests |-> <<>>] /\ gone' = [r \in Requests |-> FALSE]
        /\ eof' = [r \in Requests |-> FALSE] /\ cancelled' = [r \in Requests |-> FALSE]
    BY <1>3 DEF RestartAll, Restart
  <2>2. \A r \in Requests : work'[r] = "none" /\ phase'[r] = "none" /\ statuses'[r] = <<>>
    BY <2>1 DEF Work
  <2>3. HttpTypeOK'
    BY <1>1, <2>1, <2>2 DEF HttpTypeOK, LifeInv, Busy
  <2> QED  BY <1>1, <2>2, <2>3 DEF HttpInv, Routed, Answered
<1> QED  BY <1>1, <1>2, <1>3, HandlerStep, AroundStep DEF HttpNext

(* HttpInv is an invariant of the service.                                  *)
THEOREM HttpInductive == HttpSpec => []HttpInv
  BY HttpInitInv, HttpNextInv, PTL DEF HttpSpec

-----------------------------------------------------------------------------
(* What follows                                                             *)

(* The service is the life cycle: whatever the handlers do, the process     *)
(* behaves as Lifecycle says.                                               *)
THEOREM ServiceImplementsLifecycle == HttpSpec => Spec
<1>1. HttpInit => Init
  BY DEF HttpInit
<1> QED  BY <1>1, HttpStepIsLifeStep, PTL DEF HttpSpec, Spec

(* The state of the service is well typed; no handler that is at work has   *)
(* nothing left to do.                                                      *)
THEOREM HttpTypeCorrect == HttpSpec => []HttpTypeOK
<1>1. HttpInv => HttpTypeOK
  BY DEF HttpInv
<1> QED  BY <1>1, HttpInductive, PTL

(* No client is closed under an HTTP handler.                               *)
THEOREM ClosesAfterLastHandler == HttpSpec => []ClientsOpenWhileServing
<1>1. HttpInv => ClientsOpenWhileServing
  BY LifeSafe DEF HttpInv
<1> QED  BY <1>1, HttpInductive, PTL

(* The exit code 0 means that every request accepted was answered, but for   *)
(* one that panicked on the Docker client that was not built.                *)
THEOREM OrderlyExit == HttpSpec => []OrderlyExitAnswersAll
<1>1. HttpInv => OrderlyExitAnswersAll
  <2> SUFFICES ASSUME HttpInv, main = "exited", NEW r \in Requests, work[r] # "none"
               PROVE  work[r] = "done" /\ (Len(statuses[r]) = 1 \/ Panicked(r))
    BY DEF OrderlyExitAnswersAll
  <2>1. work[r] = "done"
    BY LifeSafe DEF HttpInv, CutsNothing
  <2> QED  BY <2>1 DEF HttpInv, Answered
<1> QED  BY <1>1, HttpInductive, PTL

(* One answer per request, and 202 only for what was routed and decoded.    *)
THEOREM OneAnswer == HttpSpec => []AnsweredOnce
<1>1. HttpInv => AnsweredOnce
  BY DEF HttpInv, Answered, AnsweredOnce
<1> QED  BY <1>1, HttpInductive, PTL

=============================================================================
