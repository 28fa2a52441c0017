SPECIFICATION FairSpec
CONSTANTS
  AuthID = 0
  ExecID = 0
  MaxChunks = 3
  MaxWire = 3
  c1 = c1
  c2 = c2
  Callers = {c1, c2}
  Noise = Noise
  MaxOutput = 2
INVARIANTS
  TypeOK
  AuthenticatedFirst
  OutputIsReply
  ReplyNotDrained
  OwnReplySeen
PROPERTIES
  ImplementsConsoleCall
  CallReturns
