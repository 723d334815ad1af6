SPECIFICATION FairSpec
CONSTANTS
  Slow = FALSE
  MaxTokens = 2
CHECK_DEADLOCK FALSE
PROPERTY QuitCompletes
