CONSTANTS
  None = None
  TTY = FALSE
  ResizeQueue = 1
  MaxOutput = 3
  InboundQueue = 1
  OutboundQueue = 1
  MaxMessages = 0
SPECIFICATION Spec
INVARIANTS
  TypeOK
  OutputIsPrefix
  NoOutputAfterExit
CHECK_DEADLOCK FALSE
