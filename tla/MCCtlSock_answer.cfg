SPECIFICATION FairSpec
CONSTANTS
  Keys = {}
  Mods = {}
  Commands = {}
  CTL_QUEUE = 2
  PTR_MODE = "auto"
  Width = 1
  SLAM = 1
  PTR_STEP = 1
  PTR_SETTLE = 1
  BTN_HOLD = 1
  BTN_GAP = 1
  KEY_HOLD = 1
  KEY_GAP = 1
  Clients = {1}
  Verbs <- AnyVerbs
  MaxSeq = 2
  FDs = {7}
PROPERTIES EveryVerbAnswered
CHECK_DEADLOCK FALSE
