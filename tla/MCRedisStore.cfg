CONSTANTS
  i1 = i1 i2 = i2 i3 = i3
  k1 = k1 k2 = k2
  alice = alice bob = bob
  aConsole = aConsole bExec = bExec
  vm1 = vm1
  c1 = c1 c2 = c2
  None = None
  Ids = {i1, i2}
  Keys = {k1, k2}
  Intents = {aConsole, bExec}
  Subjects = {alice, bob}
  Consoles = {vm1}
  Callers = {c1, c2}
  SubjectOf <- MCSubjectOf
  ConsoleOf <- MCConsoleOf
  TicketTTL = 1
  SessionMaxDuration = 2
  IdempotencyTTL = 1
  MaxActive = 1
  MaxActivePerSubject = 1
  ClockSkew = 0
  MaxRetries = 1
  RetryWindow = 0
  MaxTime = 4
SYMMETRY Symmetry
SPECIFICATION Spec
INVARIANTS
  TypeOK
  SingleClaim
  LeaseWhileInUse
  CapacityRefusalIsReal
  IssuedTicketMatchesRequest
PROPERTY
  ImplementsContract
CHECK_DEADLOCK FALSE
