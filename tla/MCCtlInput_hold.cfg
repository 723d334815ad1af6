SPECIFICATION MCSpec
CONSTANTS
  Keys = {k}
  Mods = {m}
  Commands <- PointerCommands
  CTL_QUEUE = 4
  PTR_MODE = "kms"
  Width = 4
  SLAM = 2
  PTR_STEP = 1
  PTR_SETTLE = 7
  BTN_HOLD = 2
  BTN_GAP = 1
  KEY_HOLD = 1
  KEY_GAP = 1
  Clients = {1, 2}
  Verbs <- HoldVerbs
  MaxSeq = 1
  FDs = {7}
INVARIANTS HeldReleased HeldNoOverrun PointerClicks PointerAgrees
PROPERTIES SocketEnds
CHECK_DEADLOCK FALSE
