CONSTANTS
  Configs <- MCConfigs
  Addresses = {8, 16, 17}
  FB_ALIGN = 8
  Fds = {3, 4}
  MaxInbox = 1
SPECIFICATION RfbFairSpec
INVARIANTS UpdatesReachClient FramesWhole
 
CHECK_DEADLOCK FALSE
