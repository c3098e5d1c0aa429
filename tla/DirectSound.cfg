SPECIFICATION FairSpec
CONSTANTS
  Buffers = {a, b}
  None = None
  Bytes = 8
  Frequencies = {4, 7}
  FirstFrequency = 4
  Garbage = {0, 40, 63}
  FrameRate = 2
  MaxSkip = 4
  MaxGetPosition = 2
  MaxFrames = 2
  MaxCalls = 4
  DWordRange = 64
CHECK_DEADLOCK FALSE
INVARIANTS AudioInStep ReadsInside BuffersAtHand
PROPERTIES SurplusIsOnce CallsReturn
