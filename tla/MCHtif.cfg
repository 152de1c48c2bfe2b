CONSTANTS
  Sendable <- MCSendable
  Requests <- MCRequests
  Typeable = {97, 98}
  SigLens = {0, 8}
  ToHost = 0
  FromHost = 8
  Align = 8
  IntSize = 16
  MaxSent = 3
  MaxTyped = 2
SPECIFICATION FairSpec
INVARIANTS ReplyReady TerminalInOrder StatusIsReported
PROPERTIES ImplementsChannel ExitIsFinal Served RunEnds
CHECK_DEADLOCK FALSE
