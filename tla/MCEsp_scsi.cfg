SPECIFICATION FairSpec
CONSTANTS
  DMA_BURST_SIZE = 2
  BLOCK = 4
  Blocks = 2
  Cdbs <- TestCdbs
  Counts = {3, 8}
  Segments = {3, 8}
  Protections <- TestProtections
  MaxCommands = 4
  MaxFaults = 1
INVARIANTS
  LineFollows
  DataInOrder
  OverlayKeeps
PROPERTIES
  ResetIsClean
  CommandEnds
CHECK_DEADLOCK FALSE
