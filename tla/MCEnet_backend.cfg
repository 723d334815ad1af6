SPECIFICATION FairSpec
CONSTANTS
  Machines <- Three
  MAX_QUEUE_SIZE = 2
  MaxArrivals = 3
  MaxSends = 1
  MaxFaults = 1
INVARIANTS NoUseAfterStop
PROPERTIES InOrder QueueDrains StopEnds
CHECK_DEADLOCK FALSE
