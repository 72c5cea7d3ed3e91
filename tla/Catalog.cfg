SPECIFICATION Spec
CONSTANTS
  None = None
  Requests = {r1, r2, r3}
  Products = {p1}
  Categories = {c1, c2}
  Warehouses = {w1}
  MaxStock = 2
SYMMETRY Symmetry
CHECK_DEADLOCK FALSE
INVARIANTS
  TypeOK
  CalmStockIsLive
  DeletedOnce
PROPERTIES
  CalmCategoriesEmpty
