CONSTANTS
  None = None
  MaxOutput = 2
  MaxMessages = 2
SPECIFICATION Spec
INVARIANTS
  TypeOK
  OutcomeIsTrue
PROPERTIES
  ImplementsConnection
  PumpsStop
CHECK_DEADLOCK FALSE
