SPECIFICATION HttpSpec
CONSTANTS
  Requests = {"r1", "r2"}
  Relays = {"m1"}
  Inputs <- MCInputs
INVARIANTS
  ClientsOpenWhileServing
  OrderlyExitAnswersAll
  AnsweredOnce
PROPERTIES
  SignalLeadsToExit
  DisconnectNoticed
