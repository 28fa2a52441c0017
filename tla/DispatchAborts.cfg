SPECIFICATION Spec
CONSTANTS
  c1 = c1
  Callers = {c1}
  Requests <- AllRequests
  Resolve <- ResolveMisconfigured
  Games <- MCGames
  ResolvedGames <- EggNames
  HasResolver = TRUE
  TemplateGame <- MCTemplateGame
  FallbackGame <- MCFallbackGame
  ConsoleRefs <- ConsolesMisconfigured
  Wiring <- DockerBroken
INVARIANT
  NeverAborted
