SPECIFICATION FairSpec
CONSTANTS
  BufferCount = 3
  BufferSize = 2
  Samples = 2
  UnitsPerFrame = 2
  MaxPush = 3
  MaxFrames = 2
  MaxUnits = 9
INVARIANTS SoundIntact NothingUsedAfterDelete
PROPERTIES CallsReturn
CHECK_DEADLOCK FALSE
