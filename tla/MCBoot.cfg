CONSTANTS
  None = None
  Size = 8
  Byte = {0, 1, 2, 6, 9}
  Garbage = 9
  AddrSize = 16
  Here <- MCHere
  Installed <- MCInstalled
  Slashed <- MCSlashed
  NoProgram <- MCNoProgram
  Elfs <- MCElfs
  Backends <- MCBackends
  Invocations <- MCInvocations
SPECIFICATION Spec
INVARIANTS TargetArgs ProgramArrives
CHECK_DEADLOCK FALSE
