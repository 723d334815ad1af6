SPECIFICATION Spec
CONSTANTS
  Keys = {}
  Mods = {}
  Commands = {}
  CTL_QUEUE = 9
  PTR_MODE = "kms"
  Width = 1
  SLAM = 1
  PTR_STEP = 1
  PTR_SETTLE = 1
  BTN_HOLD = 2
  BTN_GAP = 1
  KEY_HOLD = 1
  KEY_GAP = 1
  Clients = {1, 2}
  Verbs <- BtnVerbs
  MaxSeq = 1
  FDs = {7}
INVARIANTS AckMeansApplied
CHECK_DEADLOCK FALSE
