SPECIFICATION ViewSpec
CONSTANTS
  Requests = {r1}
  MayFail = FALSE
INVARIANTS
  WarehousesInvalidated
