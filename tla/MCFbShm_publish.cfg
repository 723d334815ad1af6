SPECIFICATION FairSpec
CONSTANTS
  H = 2
  W = 2
  Colors = {0, 1}
  Drawn <- Diagonal
  MaxEvents = 2
  MaxLives = 1
INVARIANTS WholeFrame SkipIsSound
PROPERTIES DirtyCovers MapCatchesUp ReaderCatchesUp
CHECK_DEADLOCK FALSE
