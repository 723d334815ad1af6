SPECIFICATION FairSpec
CONSTANTS
  Events = {e1, e2, e3}
  EVENT_NULL = EVENT_NULL
  UINT64_MAX = 99
  CHECK_INTERVAL = 2
  nCpuFreq = 1
  Delays = {1, 2}
  Cycles = {2}
  Horizon = 2
INVARIANTS TypeOK ListsOK PollInTime
PROPERTIES ImplementsEventQueue EveryEventLeaves
