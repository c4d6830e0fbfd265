CONSTANTS
  None = None
  MaxOutput = 1
  MaxMessages = 1
SPECIFICATION Spec
INVARIANT
  NormalMeansConsoleEnded
CHECK_DEADLOCK FALSE
