SPECIFICATION Spec
CONSTANTS
  Parts = {"requests"}
  Keys <- Variables
  Files <- SomeFiles
  Processes <- SomeProcesses
  Envs <- RepeatingEnvs
  Queries <- SomeQueries
  ChatEnvs <- DistinctChatEnvs
  Channels <- AllChannels
  Contents <- Chat
  ToLower <- LowerCase
  Tags = {"[Local]", "[TEAM]"}
  PluginChannel <- Plugins
  MaxMessages = 3
INVARIANTS
  AlignedByPosition
