SPECIFICATION HandoverSpec
CONSTANTS
  VideoCallers = {video}
  AudioCallers = {audio}
  MaxQueued = 2
  Sizes = {small, large}
  Formats = {pcm}
  None = none
  MaxCalls = 5
  BufferCount = 4
  MaxFrames = 9
INVARIANTS ProxyIsSound CommandsFitEncoder FrameIntact RingIsSound
PROPERTIES ImplementsFifo RingCallsEnd RingImplementsFifo
CHECK_DEADLOCK FALSE
