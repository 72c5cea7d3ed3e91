SPECIFICATION FairSpec
CONSTANTS
  None = None
  Events = {1, 2, 3}
  Relays = {w1, w2}
  MaxFailures = 3
INVARIANTS
  TypeOK
  DuplicatesOnlyFromFailures
  ClaimsAreHeld
PROPERTIES
  OutboxSpec
  EventuallyPublished
CHECK_DEADLOCK FALSE
