SPECIFICATION Spec
CONSTANTS
  c1 = c1
  Callers = {c1}
  Requests <- AllRequests
  Resolve <- ResolveFallbacks
  Games <- MCGames
  ResolvedGames <- EggNames
  HasResolver = TRUE
  TemplateGame <- MCTemplateGame
  FallbackGame <- MCFallbackGame
  ConsoleRefs <- ConsolesFallbacks
  Wiring <- AllReady
INVARIANT
  NoTargetWrittenTwice
