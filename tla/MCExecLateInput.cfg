CONSTANTS
  None = None
  TTY = TRUE
  ResizeQueue = 1
  MaxOutput = 1
  InboundQueue = 1
  OutboundQueue = 1
  MaxMessages = 1
SPECIFICATION Spec
INVARIANT
  RuntimeFailedMeansStreamFailed
CHECK_DEADLOCK FALSE
