CONSTANTS
  PcmMaps <- MCPcmMaps
  Intervals = 2
  WordSize = 1073741824
SPECIFICATION Spec
INVARIANT StartedIsStopped
CHECK_DEADLOCK FALSE
