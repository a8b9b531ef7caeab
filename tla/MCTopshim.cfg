CONSTANTS
  Utterances = 2
  UtteranceFrames = 2
  MicCapacity = 2
  EchoCapacity = 1
  None = None
  Frames = {f1, f2, f3}
  TableSize = 4
  MaxRefs = 2
  Free = Free
SPECIFICATION TopshimSpec
INVARIANTS InterruptBounded EchoMirrorsPlayback SinkFailsOnlyAtShutdown
           OwnedExactlyOnce LeaseReadOnly AdoptsValidDescriptors
PROPERTIES ShutdownCompletes PlaybackEnds
CHECK_DEADLOCK FALSE
