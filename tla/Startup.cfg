SPECIFICATION Spec
CONSTANTS
  Parts = {"file", "requests", "chat"}
  Keys <- Variables
  Files <- SomeFiles
  Processes <- SomeProcesses
  Envs <- DistinctEnvs
  Queries <- SomeQueries
  ChatEnvs <- DistinctChatEnvs
  Channels <- AllChannels
  Contents <- Chat
  ToLower <- LowerCase
  Tags = {"[Local]", "[TEAM]"}
  PluginChannel <- Plugins
  MaxMessages = 3
INVARIANTS
  FileFillsTheGaps
  EachContainerOnce
  NamingDefaultsOnlyOverrides
  AlignedByPosition
  RelayStaysAtItsServer
  NoEchoLoop
