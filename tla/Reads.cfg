SPECIFICATION MCSpec
CONSTANTS
  None = None
  x = x
  y = y
  z = z
  Rows <- MCRows
  Start <- MCStart
  Readers = {r1, r2}
  Kinds = {"audit", "drafts", "by status", "catalog"}
  Followed = {r1}
  Per = 1
  MaxChanges = 2
  Requests = {t1, t2, t3}
  MayFail = TRUE
CHECK_DEADLOCK FALSE
INVARIANTS
  TypeOK
  TraversalIsExplained
  ActivityGoesForward
  ViewTypeOK
  StaleIsExplained
PROPERTIES
  EventuallyToldNewest
  EventuallyRefreshed
