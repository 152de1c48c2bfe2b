CONSTANTS
  Addrs <- MCAddrs
  MsipBase = 56
  Data = {0, 1}
  WordBase = 8
  MaxLen = 2
  MaxCalls = 2
  NoRead = NoRead
SPECIFICATION FairSpec
INVARIANTS NoStaleWord
PROPERTIES ImplementsRemoteMemory CallsServed
CHECK_DEADLOCK FALSE
