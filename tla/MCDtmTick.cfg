CONSTANTS
  Registers = {0, 1}
  Data = {0, 1}
  NoRequest = NoRequest
  NoResult = NoResult
SPECIFICATION FairTicks
INVARIANTS ResponseExpected
PROPERTIES ImplementsDmi CommandsEnd
CHECK_DEADLOCK FALSE
