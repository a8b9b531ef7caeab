CONSTANTS
  PcmMaps <- MCPcmMaps
  Intervals = 2
  WordSize = 1073741824
SPECIFICATION FairSpec
INVARIANTS NothingLeftRunning DataPathComplete
PROPERTY OnlyTransferLasts
CHECK_DEADLOCK FALSE
