SPECIFICATION FairSpec
CONSTANTS
  plain = plain loop = loop none = none
  Headers = {plain, loop}
  None = none
  Length <- Lengths
  BeginLoop = {loop}
  EndLoop = {loop}
  MaxLoops = 2
  Rate = 5
  FrameRate = 2
  MaxGetPosition = 2
  MaxFrames = 4
  DWordRange = 64
INVARIANTS QueueIntact SoundInStep
PROPERTIES DoneMeansPlayed WaveOutCallsEnd
CHECK_DEADLOCK FALSE
