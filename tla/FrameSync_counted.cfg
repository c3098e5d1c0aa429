SPECIFICATION ApartSpec
CONSTANTS
  Sleepers = {s1, s2, s3}
  Renderers = {r}
  Breakers = {k}
  Stuck = stuck
  NoThread = none
  EnableAutoSkip = FALSE
  MayExit = TRUE
  FrameModulus = 2
INVARIANTS OneReleasePerFrame CountedWaitSpansOneFrame ActiveWaitsFinished
CHECK_DEADLOCK FALSE
