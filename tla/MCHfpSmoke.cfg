CONSTANTS
  Delays = {0, 3}
  MaxRead = 4
  DrainFrame = 2
  Capacity = 2
  MaxUplink = 6
  Ticks = 2
SPECIFICATION FairSpec
INVARIANTS SenderExists EchoIsExact StopOnEveryExit SuccessIsSound
PROPERTY RunEnds
CHECK_DEADLOCK FALSE
