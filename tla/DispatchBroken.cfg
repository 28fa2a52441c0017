SPECIFICATION FairSpec
CONSTANTS
  c1 = c1
  Callers = {c1}
  Requests <- AllRequests
  Resolve <- ResolveMisconfigured
  Games <- MCGames
  ResolvedGames <- EggNames
  HasResolver = TRUE
  TemplateGame <- MCTemplateGame
  FallbackGame <- EveryGame
  ConsoleRefs <- ConsolesMisconfigured
  Wiring <- DockerBroken
INVARIANT
  RelayUsesRCONOnly
PROPERTY
  EveryRequestEnds
