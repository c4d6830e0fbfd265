CONSTANTS
  None = None
  Unset = Unset
  Malformed = Malformed
  Text <- ToString
  Keys = {k}
  Conns = {c}
  MaxBoots = 2
  Messages <- MCMessages
  Queries <- MCQueries
  Environments <- MCEnvironments
  Redeployments <- MCRedeployments
SPECIFICATION Spec
INVARIANTS
  TypeOK
  AcceptedConfigServes
  TicketForSameIntent
  ManagedTicketsOnlyToGovernance
PROPERTY
  ShutdownEnds
CHECK_DEADLOCK FALSE
