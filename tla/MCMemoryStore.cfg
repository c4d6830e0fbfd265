CONSTANTS
  i1 = i1 i2 = i2 i3 = i3
  k1 = k1 k2 = k2
  alice = alice bob = bob
  aConsole = aConsole bExec = bExec
  vm1 = vm1
  None = None
  Ids = {i1, i2}
  Keys = {k1, k2}
  Intents = {aConsole, bExec}
  Subjects = {alice, bob}
  Consoles = {vm1}
  SubjectOf <- MCSubjectOf
  ConsoleOf <- MCConsoleOf
  TicketTTL = 1
  SessionMaxDuration = 2
  IdempotencyTTL = 1
  MaxActive = 2
  MaxActivePerSubject = 1
  MaxTime = 5
SYMMETRY Symmetry
SPECIFICATION Spec
INVARIANTS
  TypeOK
  LeaseIffClaimed
  KeyIndexExact
  AccessKeepsLease
  LiveConnectionsWithinLimits
  SingleClaim
  CapacityRefusalIsReal
  IssuedTicketOpensSession
PROPERTIES
  KeyHeldUntilTombstone
  ImplementsContract
CHECK_DEADLOCK FALSE
