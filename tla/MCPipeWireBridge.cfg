CONSTANTS
  Slots = 2
  SlotUnits = 2
  MaxUnits = 3
  MaxFrames = 5
SPECIFICATION FairSpec
INVARIANT StreamInOrder
PROPERTIES SourceDeathEnds PublishedIsWritten
CHECK_DEADLOCK FALSE
