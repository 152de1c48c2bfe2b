CONSTANTS
  HostFds <- MCHostFds
  Numbers <- MCNumbers
  DirNumbers <- MCDirNumbers
  Dirs <- MCDirs
  Names <- MCNames
  Roots <- MCRoots
  ArgLists <- MCArgLists
  Sizes = {2, 60}
  VarsAt = 64
  PathSize = 2
  Homes <- MCHomes
  MaxCalls = 3
  MaxSockets = 1
SPECIFICATION Spec
INVARIANTS OneOwner ChdirFits  MainVarsReadable
PROPERTIES ImplementsDescriptors
CHECK_DEADLOCK FALSE
