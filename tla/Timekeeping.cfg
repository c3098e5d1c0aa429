SPECIFICATION TimeSpec
CONSTANTS
  MaxEventTimers = 2
  Delays = {0, 1, 4}
  Millis = 5
  FrameSpan = 2
  MaxFrames = 4
  Threads = {t1, t2}
  NoThread = none
  MAX_TIMERQUERY_PER_FRAME = 3
  FrequentTimerCheck = TRUE
  Frequency = 4
  Denom = 2
  Scaled = 3
  MaxAskedFrames = 2
  MaxNow = 2
INVARIANTS FiredOnTime ClockFollowsFrames
PROPERTIES ProcessEnds TimeMovesOn
CHECK_DEADLOCK FALSE
