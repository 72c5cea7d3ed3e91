SPECIFICATION Spec
CONSTANTS
  c1 = c1
  c2 = c2
  c3 = c3
  mail = mail
  audit = audit
  e1 = e1
  o1 = o1
  Events = {e1, o1}
  Opaque = {o1}
  Groups = {mail, audit}
  Keyed = {mail}
  Consumers = {c1, c2, c3}
  GroupOf <- MCGroupOf
  MaxRetry = 1
  MaxEvents = 1
  MaxFaults = 1
CHECK_DEADLOCK FALSE
INVARIANTS
  TypeOK
  UnhandledIsKept
  KeyedOnce
  ExhaustedAfterRetries
SYMMETRY MCSymmetry
