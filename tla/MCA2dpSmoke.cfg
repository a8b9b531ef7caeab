CONSTANTS
  Tones = {1, 2}
  Files = {0, 3, 4, 6}
  TickBytes = 4
  FrameBytes = 2
  DrainTicks = 2
  MaxRuns = 3
SPECIFICATION A2dpFairSpec
INVARIANTS NoStartDuringSuspend SuccessIsWhole
PROPERTY RunEnds
CHECK_DEADLOCK FALSE
