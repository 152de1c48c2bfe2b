CONSTANTS
  XWords = 2
  WordBase = 2
  NHarts = 2
  MaxHartsel = 3
  MemWords = 3
  Entry = 2
  MaxProgram = 1
  MaxLen = 3
  MaxCalls = 1
  Chunked = {1, 2}
  CsrCalls = {}
  Wild = FALSE
  NoRead = NoRead
SPECIFICATION Spec
PROPERTIES ImplementsRemoteMemory NoOtherStore ProgramStarts
