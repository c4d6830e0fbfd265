CONSTANTS
  None = None
  PodNames = {1, 2}
  BoundName = 1
SPECIFICATION Spec
INVARIANT
  LateStreamDisposed
CHECK_DEADLOCK FALSE
