CONSTANTS
  XWords = 1
  WordBase = 4
  NHarts = 2
  MaxHartsel = 1
  MemWords = 3
  Entry = 2
  MaxProgram = 1
  MaxLen = 2
  MaxCalls = 1
  Chunked = {1, 2}
  CsrCalls <- MCCsrCalls
  Wild = TRUE
  NoRead = NoRead
SPECIFICATION FairSpec
INVARIANTS  NeverTooEarly
PROPERTIES CallsReturn
