SPECIFICATION MCSpec
CONSTANTS
  ONE = 5
  STEP = 4
  FIFO_OUTFRAMES = 3
  MaxBlock = 4
  MaxFrames = 12
  Capacity = 16
  Quantum = 4
  SND_BUFFER_LIMIT = 2
  Lengths = {1, 3}
  MaxSound = 7
  MaxStops = 2
  Settings = FALSE
  Values <- CsrValues
  MaxWrites = 2
  MaxPauses = 1
  MaxLives = 2
INVARIANTS NoSeam KeepsUp PlayedOnce NeverRunsUnreset NoMessageLost
PROPERTIES BufferCompletes BoardIntCatchesUp BoardRemoved
CHECK_DEADLOCK FALSE
