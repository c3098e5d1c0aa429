SPECIFICATION GraphicsSpec
CONSTANTS
  Surfaces = 3
  Protection = 24
  Word = 80
  MaxRefs = 2
  MaxDevices = 2
  MaxFailures = 1
  Primary = primary
  Other = other
  Blit = blit
  None = none
  MaxShown = 3
INVARIANTS NothingReleasedTwice DeviceDiesWithProgram OnePictureOneFrame
CHECK_DEADLOCK FALSE
