CONSTANTS
  i1 = i1 i2 = i2 i3 = i3
  k1 = k1 k2 = k2
  alice = alice bob = bob
  aConsole = aConsole bExec = bExec
  vm1 = vm1
  c1 = c1 c2 = c2
  None = None
  Ids = {i1, i2}
  Keys = {k1, k2}
  Intents = {aConsole}
  Subjects = {alice}
  Consoles = {}
  Callers = {c1, c2}
  SubjectOf <- MCOneSubject
  ConsoleOf <- MCNoConsole
  TicketTTL = 1
  SessionMaxDuration = 2
  IdempotencyTTL = 1
  MaxActive = 2
  MaxActivePerSubject = 1
  ClockSkew = 1
  MaxRetries = 0
  RetryWindow = 1
  MaxTime = 3
SYMMETRY Symmetry
SPECIFICATION Spec
INVARIANTS
  LeasesWithinLimits
  KeyAndSessionLiveTogether
  LeaseEndsInTime
CHECK_DEADLOCK FALSE
