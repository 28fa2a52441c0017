SPECIFICATION FairSpec
CONSTANTS
  c1 = c1
  c2 = c2
  Callers = {c1, c2}
  Requests <- AllRequests
  DefaultChannels <- Defaults
INVARIANTS
  TypeOK
  EachChannelOnce
  AcceptedMeansPosted
  CancelStopsPosting
PROPERTIES
  ImplementsFanOut
  EveryRequestAnswered
