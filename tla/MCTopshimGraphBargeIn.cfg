CONSTANTS
  Utterances = 2
  UtteranceFrames = 2
  MicCapacity = 2
  EchoCapacity = 1
  None = None
SPECIFICATION Spec
INVARIANT OverlapInterrupts
CHECK_DEADLOCK FALSE
