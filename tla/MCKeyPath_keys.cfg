SPECIFICATION FairSpec
CONSTANTS
  Keys = {"p"}
  PauseKey = "p"
  MAX_EVENTS = 3
  MaxPresses = 3
  MaxOthers = 2
INVARIANTS GuestAgrees
PROPERTIES KeysComeUp
CHECK_DEADLOCK FALSE
