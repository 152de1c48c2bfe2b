CONSTANTS
  Align = 2
  MaxChunk = 4
  Size = 8
  Sizes = {1, 2, 4}
  Byte <- MCByte
  Contents <- MCContents
  Written = {0, 1}
  TargetByte <- MCTargetByte
  MaxCalls = 1
  MaxStores = 1
SPECIFICATION Spec
INVARIANTS AccessesFit ReadReturns NeverTorn WriteLands
PROPERTIES NeighboursKept
CHECK_DEADLOCK FALSE
