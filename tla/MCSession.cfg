CONSTANTS
  Clients = {c1, c2}
  Configs = {k1, bad}
  ValidConfigs = {k1}
  NoConfig = NoConfig
  NoClient = NoClient
  Reports <- MCReports
  CommandCapacity = 1
  EventCapacity = 1
SPECIFICATION FairSpec
INVARIANTS EventsTellAll
PROPERTIES ObservedLifeCycle EveryCallReturns
CHECK_DEADLOCK FALSE
