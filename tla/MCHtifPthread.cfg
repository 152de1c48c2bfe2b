CONSTANTS
  MaxLen = 3
  MaxBytes = 4
SPECIFICATION FairSpec
INVARIANTS StreamsIntact
PROPERTIES TransfersEnd
