SPECIFICATION CommandsSpec
CONSTANTS
  Parts = {"games"}
  Games <- AllGames
  FallbackTypes <- ExampleTypes
  Letters = {"a", "n"}
  MaxLength = 3
INVARIANTS
  ListedGameFallsBack
