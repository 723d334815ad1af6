SPECIFICATION MCSpec
CONSTANTS
  Slow = FALSE
  MaxTokens = 2
  Word = 64
  nCpuFreq = 1
  perfDivisor = 2
  MaxCounter = 3
  MaxCycles = 2
INVARIANTS ParkedWhenPaused PollScheduled ReadingsAreReal ThreadsStopClock
PROPERTIES TimeNeverGoesBack
CHECK_DEADLOCK FALSE
