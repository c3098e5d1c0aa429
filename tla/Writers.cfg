SPECIFICATION Spec
CONSTANTS
  Rates = {40, 54}
  MaxBlock = 16
  Bits = {8, 16, 32}
  FrameRate = 4
  BlockLength = 8
  FrameBytes = 9
  Limit = 20
  Garbage = 5
  None = None
  MaxPictures = 5
  MaxFormats = 2
  MaxFailures = 1
CHECK_DEADLOCK FALSE
INVARIANTS EveryPictureFiled SegmentsFinished SoundMatchesPicture NoDrift OutputFits
