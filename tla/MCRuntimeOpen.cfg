CONSTANTS
  None = None
  PodNames = {1, 2}
  BoundName = 1
SPECIFICATION Spec
INVARIANTS
  TypeOK
  SessionGetsBoundConsole
  ReceivedStreamHasOwner
  CommandRunsInBoundPod
PROPERTIES
  OpenReturns
  ResolvesNewestReady
CHECK_DEADLOCK FALSE
