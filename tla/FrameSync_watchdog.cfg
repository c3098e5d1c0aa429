SPECIFICATION TimeoutSpec
CONSTANTS
  s1 = s1 s2 = s2 s3 = s3 r = r k = k stuck = stuck none = none
  Sleepers = {s1}
  Renderers = {r}
  Breakers = {}
  Stuck = stuck
  NoThread = none
  EnableAutoSkip = TRUE
  MayExit = TRUE
  FrameModulus = 2
PROPERTIES BarrierTerminates
CHECK_DEADLOCK FALSE
