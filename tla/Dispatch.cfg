SPECIFICATION Spec
CONSTANTS
  c1 = c1
  c2 = c2
  Callers = {c1, c2}
  Requests <- AllRequests
  Resolve <- ResolveFallbacks
  Games <- MCGames
  ResolvedGames <- EggNames
  HasResolver = TRUE
  TemplateGame <- MCTemplateGame
  FallbackGame <- MCFallbackGame
  ConsoleRefs <- ConsolesFallbacks
  Wiring <- AllReady
SYMMETRY CallerSymmetry
INVARIANTS
  TypeOK
  DryRunSilent
  AcceptedMeansDelivered
  OneWritePerTransport
  CancelStopsFanOut
PROPERTY
  ImplementsFanOut
