SPECIFICATION Spec
CONSTANTS
  None = None
  m1 = m1
  m2 = m2
  m3 = m3
  m4 = m4
  l1 = l1
  l2 = l2
  l3 = l3
  l4 = l4
  l5 = l5
  l6 = l6
  MaxQty = 3
  PoolSize = 3
  Warehouses <- MCWarehouses
  Products <- MCProducts
  Lines <- MCLines
  Doc <- MCDoc
  Item <- MCItem
  OpeningRows <- MCOpeningRows
  Opening <- MCOpening
  ReorderLevel <- MCReorderLevel
  Net <- MCNet
  Movements = {m1, m2}
  Requests = {r1, r2}
INVARIANTS
  NoDeadlock
