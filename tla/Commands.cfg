SPECIFICATION CommandsSpec
CONSTANTS
  Parts = {"games", "texts"}
  Games <- AllGames
  FallbackTypes <- SomeTypes
  Letters = {"a", "n"}
  MaxLength = 3
INVARIANTS
  ReportedGameSameCommand
  ReportedGameMayBeAllowed
  FallbackStaysWithinGame
  MessageArrives
