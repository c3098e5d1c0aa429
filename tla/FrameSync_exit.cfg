SPECIFICATION ExitSpec
CONSTANTS
  Sleepers = {s1, s2}
  Renderers = {r}
  Breakers = {k}
  Stuck = stuck
  NoThread = none
  EnableAutoSkip = FALSE
  MayExit = TRUE
  FrameModulus = 2
INVARIANTS ActiveWaitsFinished
CHECK_DEADLOCK FALSE
