CONSTANTS
  Frames = {f1, f2}
  Torn = Torn
  SlotCount = 2
  CursorModulus = 4
  IndexModulus = 2
  EventMax = 2
SPECIFICATION FairSpec
INVARIANTS SlotExclusive LeaseIntact NoLostWakeup WakeupAnnounced
PROPERTIES ImplementsQueue OldestFrameConsumed
