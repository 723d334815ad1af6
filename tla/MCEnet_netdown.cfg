SPECIFICATION Spec
CONSTANTS
  Machines <- Three
  MAX_QUEUE_SIZE = 2
  MaxArrivals = 2
  MaxSends = 0
  MaxFaults = 1
INVARIANT SilentWhenDown
CHECK_DEADLOCK FALSE
