SPECIFICATION Spec
CONSTANTS
  None = None
  b1 = b1
  b2 = b2
  b3 = b3
  l1 = l1
  l2 = l2
  Requests = {r1, r2}
  IdemKeys = {k1, k2}
  Bodies = {b1, b2, b3}
  Ref <- MCRef
  LinesOf <- MCLinesOf

CHECK_DEADLOCK FALSE
INVARIANTS
  NothingHalfCreated
