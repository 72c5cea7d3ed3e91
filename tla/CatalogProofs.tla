---------------------------- MODULE CatalogProofs ----------------------------
(***************************************************************************)
(* What holds of Catalog for all sets of products, categories, warehouses  *)
(* and requests.                                                           *)
(*                                                                         *)
(* The argument.  Rows are deleted softly and never become absent again,   *)
(* so what a handler has once found exists when it writes (Seen).  That it *)
(* is live when it writes needs calm: then one handler runs at a time      *)
(* (Alone), what it has read still holds (StillTrue), and the cache has    *)
(* entries of live products only, but for those that the handler is about  *)
(* to drop (CacheIsLive).  The counts of answered deletions and restores   *)
(* of a row are tied to what the row is (Counted), with or without calm:   *)
(* the UPDATE of either finds the row in one state and leaves it in the    *)
(* other.                                                                  *)
(***************************************************************************)
EXTENDS Catalog, FiniteSetTheorems, TLAPS

Labels == {"idle", "ok", "failed", "written"} \cup Running

\* The operations whose handlers come to a step.
ControlOf(t) ==
  /\ pc[t] \in Running \cup {"ok", "written"} => call[t] # None
  /\ pc[t] \in {"cached", "load", "fill"} => Does(t, {"GetProduct", "ConfirmMovement"})
  /\ pc[t] = "category" => Does(t, {"CreateProduct", "UpdateProduct"})
  /\ pc[t] = "parent" => Does(t, {"CreateCategory", "UpdateCategory"})
  /\ pc[t] = "get" => Does(t, {"UpdateProduct", "UpdateCategory", "UpdateWarehouse",
                               "DeleteProduct", "DeleteCategory", "DeleteWarehouse"})
  /\ pc[t] = "count" => Does(t, {"DeleteProduct", "DeleteCategory", "DeleteWarehouse"})
  /\ pc[t] = "check" => Does(t, {"ConfirmMovement"})
Control == \A t \in Requests : ControlOf(t)

\* What a handler has looked up was there, and rows do not go away.
SeenOf(t) ==
  /\ pc[t] = "fill" => product[call[t].product] # "absent"
  /\ Does(t, {"ConfirmMovement"}) =>
       /\ pc[t] \in {"cached", "load", "fill", "write"} => warehouse[call[t].warehouse] # "absent"
       /\ pc[t] = "write" => product[call[t].product] # "absent"
  /\ Does(t, {"CreateCategory", "UpdateCategory"}) /\ pc[t] \in {"get", "write"} =>
       call[t].parent = None \/ category[call[t].parent] # "absent"
Seen == \A t \in Requests : SeenOf(t)

Typed ==
  /\ TypeOK
  /\ Control
  /\ Seen

-----------------------------------------------------------------------------
\* In calm, what the one handler that runs has read still holds when it writes.
Alone == \A t, u \in Requests : IsRunning(t) /\ IsRunning(u) => t = u

StillTrueOf(t) ==
  /\ pc[t] = "fill" => product[call[t].product] = "live"
  /\ Does(t, {"ConfirmMovement"}) =>
       /\ pc[t] \in {"cached", "load", "fill", "write"} => warehouse[call[t].warehouse] = "active"
       /\ pc[t] = "write" => product[call[t].product] = "live"
  /\ pc[t] = "write" =>
       /\ Does(t, {"DeleteProduct"}) => ~ProductStocked(call[t].product)
       /\ Does(t, {"DeleteCategory"}) => LiveIn(call[t].category) = {}
       /\ Does(t, {"DeleteWarehouse"}) => ~WarehouseStocked(call[t].warehouse)
  /\ pc[t] \in {"get", "write"} =>
       /\ Does(t, {"CreateProduct", "UpdateProduct"}) =>
            call[t].category = None \/ category[call[t].category] = "live"
       /\ Does(t, {"CreateCategory", "UpdateCategory"}) =>
            \/ call[t].parent = None
            \/ call[t].parent # call[t].category /\ category[call[t].parent] = "live"
StillTrue == \A t \in Requests : StillTrueOf(t)

CacheIsLive ==
  \A p \in cached :
    \/ product[p] = "live"
    \/ \E t \in Requests : pc[t] = "invalidate" /\ Does(t, {"DeleteProduct"})

StockIsLive ==
  \A k \in Keys : stock[k] > 0 => warehouse[k[1]] # "deleted" /\ product[k[2]] = "live"

Calm == ~disturbed => Alone /\ StillTrue /\ CacheIsLive /\ StockIsLive

-----------------------------------------------------------------------------
\* What a call says of its operation.
LEMMA CallFields ==
  ASSUME NEW o \in Ops
  PROVE  /\ o # None
         /\ o.op \in {"GetProduct", "DeleteProduct", "RestoreProduct", "CreateProduct",
                      "UpdateProduct", "ConfirmMovement"} => o.product \in Products
         /\ o.op \in {"CreateProduct", "UpdateProduct"} => o.category \in Categories \cup {None}
         /\ o.op \in {"CreateCategory", "UpdateCategory", "DeleteCategory"} =>
              o.category \in Categories
         /\ o.op \in {"CreateCategory", "UpdateCategory"} => o.parent \in Categories \cup {None}
         /\ o.op \in {"CreateWarehouse", "UpdateWarehouse", "DeleteWarehouse", "ConfirmMovement"} =>
              o.warehouse \in Warehouses
         /\ o.op \in {"CreateWarehouse", "UpdateWarehouse"} => o.active \in BOOLEAN
         /\ o.op = "ConfirmMovement" => o.qty \in {-1, 1}
         /\ o.op \in {"GetProduct", "DeleteProduct", "RestoreProduct", "CreateProduct",
                      "UpdateProduct", "CreateCategory", "UpdateCategory", "DeleteCategory",
                      "CreateWarehouse", "UpdateWarehouse", "DeleteWarehouse", "ConfirmMovement"}
  BY CatalogAssumption DEF Ops

\* A handler moves alone.
LEMMA OneMoves ==
  ASSUME TypeOK, NEW t \in Requests, NEW label \in Labels, Goto(t, label)
  PROVE  /\ pc' \in [Requests -> Labels]
         /\ call' \in [Requests -> Ops \cup {None}]
         /\ pc'[t] = label
         /\ label # "failed" => call' = call
         /\ \A u \in Requests : u # t => pc'[u] = pc[u] /\ call'[u] = call[u]
  BY DEF TypeOK, Goto, Labels

LEMMA InitTyped == Init => Typed
<1> SUFFICES ASSUME Init PROVE Typed
  OBVIOUS
<1>1. /\ stock \in [Keys -> 0 .. MaxStock]
      /\ category \in [Categories -> {"absent", "live", "deleted"}]
      /\ warehouse \in [Warehouses -> {"absent", "active", "inactive", "deleted"}]
      /\ inCategory \in [Products -> Categories \cup {None}]
      /\ parent \in [Categories -> Categories \cup {None}]
      /\ \A c, d \in Categories : parent[d] # c
      /\ \A k \in Keys : stock[k] > 0 => warehouse[k[1]] # "absent" /\ product[k[2]] # "absent"
  BY CatalogAssumption DEF Init
<1>2. TypeOK
  BY <1>1 DEF Init, TypeOK, Running
<1>3. Control /\ Seen
  BY DEF Init, Control, ControlOf, Seen, SeenOf, Does, Running
<1>4. QED
  BY <1>2, <1>3 DEF Typed

LEMMA CallTyped ==
  ASSUME Typed, NEW t \in Requests, NEW o \in Ops, Call(t, o)
  PROVE  Typed'
<1>1. TypeOK'
  BY CallFields DEF Typed, TypeOK, Call, rows, FirstStep, Running
<1>2. Control'
  BY CallFields DEF Typed, TypeOK, Control, ControlOf, Call, FirstStep, Running, Does
<1>3. Seen'
  BY CallFields DEF Typed, TypeOK, Seen, SeenOf, Call, rows, FirstStep, Running, Does
<1>4. QED
  BY <1>1, <1>2, <1>3 DEF Typed

\* Where the step of a handler leads, and what it has seen by then.
Arrives(t) ==
  /\ pc'[t] \in {"load", "fill", "get", "count", "cached", "write", "invalidate",
                 "ok", "failed", "written"}
  /\ pc'[t] = "load" => pc[t] = "cached"
  /\ pc'[t] = "fill" => pc[t] = "load" /\ product[call[t].product] = "live"
  /\ pc'[t] = "cached" => pc[t] = "check" /\ warehouse[call[t].warehouse] = "active"
  /\ pc'[t] = "get" => pc[t] \in {"category", "parent"}
  /\ pc'[t] = "count" =>
       pc[t] = "get" /\ Does(t, {"DeleteProduct", "DeleteCategory", "DeleteWarehouse"})
  /\ pc'[t] = "write" => pc[t] \in {"cached", "fill", "category", "parent", "get", "count"}
  /\ pc'[t] = "invalidate" => pc[t] = "write"
  /\ pc'[t] = "written" => pc[t] = "invalidate"
  /\ pc'[t] = "ok" =>
       \/ pc[t] = "invalidate"
       \/ Does(t, {"GetProduct"}) \/ (pc[t] = "write" /\ Does(t, {"CreateWarehouse"}))
  /\ pc[t] = "invalidate" => pc'[t] \in {"ok", "written"}
  /\ pc[t] = "category" /\ pc'[t] # "failed" =>
       /\ call[t].category = None \/ category[call[t].category] = "live"
       /\ pc'[t] = "get" => Does(t, {"UpdateProduct"})
  /\ pc[t] = "parent" /\ pc'[t] # "failed" =>
       /\ \/ call[t].parent = None
          \/ call[t].parent # call[t].category /\ category[call[t].parent] = "live"
       /\ pc'[t] = "get" => Does(t, {"UpdateCategory"})
  /\ pc[t] = "get" /\ pc'[t] = "write" =>
       Does(t, {"UpdateProduct", "UpdateCategory", "UpdateWarehouse"})
  /\ pc[t] = "count" /\ pc'[t] = "write" =>
       /\ Does(t, {"DeleteProduct"}) => ~ProductStocked(call[t].product)
       /\ Does(t, {"DeleteCategory"}) => LiveIn(call[t].category) = {}
       /\ Does(t, {"DeleteWarehouse"}) => ~WarehouseStocked(call[t].warehouse)
  /\ pc[t] \in {"cached", "fill"} /\ pc'[t] = "write" => Does(t, {"ConfirmMovement"})
  /\ pc[t] = "cached" /\ pc'[t] = "write" => call[t].product \in cached

LEMMA HandlersArrive ==
  ASSUME Typed, NEW t \in Requests, Step(t) \/ Fail(t)
  PROVE  /\ pc[t] \in Running /\ call[t] \in Ops
         /\ pc' \in [Requests -> Labels] /\ call' \in [Requests -> Ops \cup {None}]
         /\ \A u \in Requests : u # t => pc'[u] = pc[u] /\ call'[u] = call[u]
         /\ pc'[t] = "failed" => call'[t] = None
         /\ pc'[t] # "failed" => call'[t] = call[t]
         /\ Arrives(t)
<1>a. pc[t] \in Running
  BY DEF Step, Fail, Running, CacheGet, GetProductByID, CacheSet, EnsureCategory, EnsureParent, GetByID,
         CheckUnused, ValidateWarehousesActive, CreateProduct, UpdateProduct, SoftDeleteProduct,
         RestoreProduct, CreateCategory, UpdateCategory, SoftDeleteCategory, CreateWarehouse,
         UpdateWarehouse, SoftDeleteWarehouse, CommitMovement, Invalidate
<1>b. /\ pc \in [Requests -> Labels] /\ call \in [Requests -> Ops \cup {None}] /\ call[t] \in Ops
  BY <1>a DEF Typed, TypeOK, Control, ControlOf, Labels
<1>c. ControlOf(t)
  BY DEF Typed, Control
<1> DEFINE Moves(label) ==
      /\ pc'[t] = label
      /\ pc' \in [Requests -> Labels] /\ call' \in [Requests -> Ops \cup {None}]
      /\ \A u \in Requests : u # t => pc'[u] = pc[u] /\ call'[u] = call[u]
      /\ pc'[t] = "failed" => call'[t] = None
      /\ pc'[t] # "failed" => call'[t] = call[t]
<1>d. \A label \in Labels : Goto(t, label) => Moves(label)
  BY <1>b DEF Goto
<1> HIDE DEF Moves
<1>1. CASE CacheGet(t)
  BY <1>1, <1>b, <1>c, <1>d DEF CacheGet, AfterProduct, Moves, Arrives, ControlOf, Does, Labels, Running
<1>2. CASE GetProductByID(t)
  BY <1>2, <1>b, <1>c, <1>d DEF GetProductByID, Decide, Moves, Arrives, ControlOf, Does, Labels, Running
<1>3. CASE CacheSet(t)
  BY <1>3, <1>b, <1>c, <1>d DEF CacheSet, AfterProduct, Moves, Arrives, ControlOf, Does, Labels, Running
<1>4. CASE EnsureCategory(t)
  BY <1>4, <1>b, <1>c, <1>d DEF EnsureCategory, Decide, Moves, Arrives, ControlOf, Does, Labels, Running
<1>5. CASE EnsureParent(t)
  BY <1>5, <1>b, <1>c, <1>d DEF EnsureParent, Decide, Moves, Arrives, ControlOf, Does, Labels, Running
<1>6. CASE GetByID(t)
  BY <1>6, <1>b, <1>c, <1>d DEF GetByID, Decide, Moves, Arrives, ControlOf, Does, Labels, Running
<1>7. CASE CheckUnused(t)
  BY <1>7, <1>b, <1>c, <1>d DEF CheckUnused, Decide, Moves, Arrives, ControlOf, Does, Labels, Running
<1>8. CASE ValidateWarehousesActive(t)
  BY <1>8, <1>b, <1>c, <1>d DEF ValidateWarehousesActive, Decide, Moves, Arrives, ControlOf, Does, Labels, Running
<1>9. CASE CreateProduct(t)
  BY <1>9, <1>b, <1>c, <1>d DEF CreateProduct, Decide, Moves, Arrives, ControlOf, Does, Labels, Running
<1>10. CASE UpdateProduct(t)
  BY <1>10, <1>b, <1>c, <1>d DEF UpdateProduct, Moves, Arrives, ControlOf, Does, Labels, Running
<1>11. CASE SoftDeleteProduct(t)
  BY <1>11, <1>b, <1>c, <1>d DEF SoftDeleteProduct, Decide, Moves, Arrives, ControlOf, Does, Labels, Running
<1>12. CASE RestoreProduct(t)
  BY <1>12, <1>b, <1>c, <1>d DEF RestoreProduct, Decide, Moves, Arrives, ControlOf, Does, Labels, Running
<1>13. CASE CreateCategory(t)
  BY <1>13, <1>b, <1>c, <1>d DEF CreateCategory, Decide, Moves, Arrives, ControlOf, Does, Labels, Running
<1>14. CASE UpdateCategory(t)
  BY <1>14, <1>b, <1>c, <1>d DEF UpdateCategory, Moves, Arrives, ControlOf, Does, Labels, Running
<1>15. CASE SoftDeleteCategory(t)
  BY <1>15, <1>b, <1>c, <1>d DEF SoftDeleteCategory, Decide, Moves, Arrives, ControlOf, Does, Labels, Running
<1>16. CASE CreateWarehouse(t)
  BY <1>16, <1>b, <1>c, <1>d DEF CreateWarehouse, Decide, Moves, Arrives, ControlOf, Does, Labels, Running
<1>17. CASE UpdateWarehouse(t)
  BY <1>17, <1>b, <1>c, <1>d DEF UpdateWarehouse, Moves, Arrives, ControlOf, Does, Labels, Running
<1>18. CASE SoftDeleteWarehouse(t)
  BY <1>18, <1>b, <1>c, <1>d DEF SoftDeleteWarehouse, Decide, Moves, Arrives, ControlOf, Does, Labels, Running
<1>19. CASE CommitMovement(t)
  BY <1>19, <1>b, <1>c, <1>d DEF CommitMovement, Decide, Moves, Arrives, ControlOf, Does, Labels, Running
<1>20. CASE Invalidate(t)
  BY <1>20, <1>b, <1>c, <1>d DEF Invalidate, Moves, Arrives, ControlOf, Does, Labels, Running
<1>21. CASE Fail(t)
  BY <1>21, <1>b, <1>c, <1>d DEF Fail, Moves, Arrives, ControlOf, Does, Labels, Running
<1>22. QED
  BY <1>1, <1>2, <1>3, <1>4, <1>5, <1>6, <1>7, <1>8, <1>9, <1>10, <1>11, <1>12, <1>13, <1>14,
     <1>15, <1>16, <1>17, <1>18, <1>19, <1>20, <1>21, <1>a, <1>b
  DEF Step

\* The rows that a handler writes, and the facts about calls that all of them need.
LEMMA RowsTyped ==
  ASSUME Typed, NEW t \in Requests, Step(t) \/ Fail(t)
  PROVE  /\ product' \in [Products -> {"absent", "live", "deleted"}]
         /\ inCategory' \in [Products -> Categories \cup {None}]
         /\ category' \in [Categories -> {"absent", "live", "deleted"}]
         /\ parent' \in [Categories -> Categories \cup {None}]
         /\ warehouse' \in [Warehouses -> {"absent", "active", "inactive", "deleted"}]
         /\ stock' \in [Keys -> 0 .. MaxStock]
         /\ \A p \in Products : product[p] # "absent" => product'[p] # "absent"
         /\ \A c \in Categories : category[c] # "absent" => category'[c] # "absent"
         /\ \A w \in Warehouses : warehouse[w] # "absent" => warehouse'[w] # "absent"
         /\ \A c, d \in Categories : parent'[d] = c => category[c] # "absent"
         /\ \A k \in Keys : stock'[k] > 0 => warehouse[k[1]] # "absent" /\ product[k[2]] # "absent"
<1>a. call[t] \in Ops
  BY HandlersArrive
<1>b. /\ product \in [Products -> {"absent", "live", "deleted"}]
      /\ inCategory \in [Products -> Categories \cup {None}]
      /\ category \in [Categories -> {"absent", "live", "deleted"}]
      /\ parent \in [Categories -> Categories \cup {None}]
      /\ warehouse \in [Warehouses -> {"absent", "active", "inactive", "deleted"}]
      /\ stock \in [Keys -> 0 .. MaxStock]
      /\ \A c, d \in Categories : parent[d] = c => category[c] # "absent"
      /\ \A k \in Keys : stock[k] > 0 => warehouse[k[1]] # "absent" /\ product[k[2]] # "absent"
  BY DEF Typed, TypeOK
<1>c. SeenOf(t)
  BY DEF Typed, Seen
<1> USE <1>a, <1>b, CallFields
<1>1. CASE UNCHANGED rows
  BY <1>1 DEF rows
<1>2. CASE CreateProduct(t)
  BY <1>2 DEF CreateProduct, Does
<1>3. CASE UpdateProduct(t)
  BY <1>3 DEF UpdateProduct, Does
<1>4. CASE SoftDeleteProduct(t)
  BY <1>4 DEF SoftDeleteProduct, Does
<1>5. CASE RestoreProduct(t)
  BY <1>5 DEF RestoreProduct, Does
<1>6. CASE CreateCategory(t)
  BY <1>6, <1>c, CatalogAssumption DEF CreateCategory, Does, SeenOf
<1>7. CASE UpdateCategory(t)
  BY <1>7, <1>c, CatalogAssumption DEF UpdateCategory, Does, SeenOf
<1>8. CASE SoftDeleteCategory(t)
  BY <1>8 DEF SoftDeleteCategory, Does
<1>9. CASE CreateWarehouse(t)
  BY <1>9 DEF CreateWarehouse, Does, Activity
<1>10. CASE UpdateWarehouse(t)
  BY <1>10 DEF UpdateWarehouse, Does, Activity, Exists
<1>11. CASE SoftDeleteWarehouse(t)
  BY <1>11 DEF SoftDeleteWarehouse, Does, Exists
<1>12. CASE CommitMovement(t)
  BY <1>12, <1>c, CatalogAssumption DEF CommitMovement, Does, Keys, SeenOf
<1>13. QED
  BY <1>1, <1>2, <1>3, <1>4, <1>5, <1>6, <1>7, <1>8, <1>9, <1>10, <1>11, <1>12
  DEF Step, CacheGet, GetProductByID, CacheSet, EnsureCategory, EnsureParent, GetByID,
      CheckUnused, ValidateWarehousesActive, Invalidate, Fail

LEMMA StepTyped ==
  ASSUME Typed, NEW t \in Requests, Step(t) \/ Fail(t)
  PROVE  Typed'
<1>1. cached' \subseteq {p \in Products : product'[p] # "absent"} /\ disturbed' \in BOOLEAN
  <2>1. cached \subseteq {p \in Products : product'[p] # "absent"}
    BY RowsTyped DEF Typed, TypeOK
  <2>2. pc[t] = "fill" =>
          call[t].product \in Products /\ product'[call[t].product] # "absent"
    BY RowsTyped, HandlersArrive, CallFields DEF Typed, Control, ControlOf, Seen, SeenOf, Does
  <2>3. cached' \subseteq cached \/ (pc[t] = "fill" /\ cached' = cached \cup {call[t].product})
    BY DEF Step, CacheGet, GetProductByID, CacheSet, EnsureCategory, EnsureParent, GetByID,
           CheckUnused, ValidateWarehousesActive, Invalidate, Fail, CreateProduct, UpdateProduct,
           SoftDeleteProduct, RestoreProduct, CreateCategory, UpdateCategory, SoftDeleteCategory,
           CreateWarehouse, UpdateWarehouse, SoftDeleteWarehouse, CommitMovement
  <2>4. disturbed' \in BOOLEAN
    BY DEF Typed, TypeOK,
           Step, CacheGet, GetProductByID, CacheSet, EnsureCategory, EnsureParent, GetByID,
           CheckUnused, ValidateWarehousesActive, Invalidate, Fail, CreateProduct, UpdateProduct,
           SoftDeleteProduct, RestoreProduct, CreateCategory, UpdateCategory, SoftDeleteCategory,
           CreateWarehouse, UpdateWarehouse, SoftDeleteWarehouse, CommitMovement
  <2>5. QED
    BY <2>1, <2>2, <2>3, <2>4
<1>2. TypeOK'
  <2>1. \A c \in Categories : category'[c] = "absent" => \A d \in Categories : parent'[d] # c
    BY RowsTyped
  <2>2. \A k \in Keys : stock'[k] > 0 => warehouse'[k[1]] # "absent" /\ product'[k[2]] # "absent"
    BY RowsTyped DEF Keys
  <2>3. QED
    BY <1>1, <2>1, <2>2, RowsTyped, HandlersArrive DEF TypeOK, Labels
<1>3. ASSUME NEW u \in Requests PROVE ControlOf(u)'
  <2>1. CASE u = t
    BY <2>1, HandlersArrive DEF Arrives, Typed, Control, ControlOf, Does, Running
  <2>2. CASE u # t
    BY <2>2, HandlersArrive DEF Typed, Control, ControlOf, Does
  <2>3. QED
    BY <2>1, <2>2
<1>4. ASSUME NEW u \in Requests PROVE SeenOf(u)'
  <2>1. SeenOf(u) /\ ControlOf(u) /\ (call[u] = None \/ call[u] \in Ops)
    BY DEF Typed, TypeOK, Seen, Control
  <2>2. CASE u = t
    <3>1. pc'[t] # "failed" => call'[t] = call[t] /\ call[t] \in Ops
      BY HandlersArrive
    <3>2. pc'[t] = "fill" => product'[call[t].product] # "absent"
      BY <2>1, <2>2, HandlersArrive, RowsTyped, CallFields DEF Arrives, ControlOf, Does
    <3>3. Does(t, {"ConfirmMovement"}) /\ pc'[t] \in {"cached", "load", "fill", "write"} =>
            warehouse'[call[t].warehouse] # "absent"
      BY <2>1, <2>2, HandlersArrive, RowsTyped, CallFields DEF Arrives, SeenOf, ControlOf, Does
    <3>4. Does(t, {"ConfirmMovement"}) /\ pc'[t] = "write" =>
            product'[call[t].product] # "absent"
      <4>1. cached \subseteq {p \in Products : product[p] # "absent"}
        BY DEF Typed, TypeOK
      <4>2. QED
        BY <2>1, <2>2, <4>1, HandlersArrive, RowsTyped, CallFields DEF Arrives, SeenOf, ControlOf, Does
    <3>5. Does(t, {"CreateCategory", "UpdateCategory"}) /\ pc'[t] \in {"get", "write"} =>
            call[t].parent = None \/ category'[call[t].parent] # "absent"
      BY <2>1, <2>2, HandlersArrive, RowsTyped, CallFields DEF Arrives, SeenOf, ControlOf, Does
    <3>6. QED
      BY <2>2, <3>1, <3>2, <3>3, <3>4, <3>5, HandlersArrive DEF Arrives, SeenOf, Does
  <2>3. CASE u # t
    BY <2>1, <2>3, HandlersArrive, RowsTyped, CallFields DEF SeenOf, ControlOf, Does
  <2>4. QED
    BY <2>2, <2>3
<1>5. QED
  BY <1>2, <1>3, <1>4 DEF Typed, Control, Seen

LEMMA NextTyped == Typed /\ [Next]_vars => Typed'
<1> SUFFICES ASSUME Typed, [Next]_vars PROVE Typed'
  OBVIOUS
<1>1. ASSUME NEW p \in Products, Expire(p) PROVE Typed'
  BY <1>1 DEF Typed, TypeOK, Control, ControlOf, Seen, SeenOf, Expire, Does, rows
<1>2. CASE UNCHANGED vars
  BY <1>2 DEF Typed, TypeOK, Control, ControlOf, Seen, SeenOf, vars, Does, rows
<1>3. QED
  BY <1>1, <1>2, CallTyped, StepTyped DEF Next

\* All variables of the catalog keep their types: no row that exists refers to a row
\* that does not, and the cache has no entry of a product that never was.
THEOREM CatalogTypeCorrect == Spec => []TypeOK
<1>1. Typed => TypeOK
  BY DEF Typed
<1>2. QED
  BY <1>1, InitTyped, NextTyped, PTL DEF Spec

-----------------------------------------------------------------------------
\* Only the writing step changes rows; it leaves the cache and the calm alone.
LEMMA OtherStepsLook ==
  ASSUME NEW t \in Requests, Step(t) \/ Fail(t), disturbed \in BOOLEAN
  PROVE  /\ pc[t] # "write" => UNCHANGED rows
         /\ pc[t] = "write" => UNCHANGED <<cached, disturbed>>
         /\ cached' \subseteq cached \/ (pc[t] = "fill" /\ cached' = cached \cup {call[t].product})
         /\ disturbed => disturbed'
<1>1. CASE \/ CacheGet(t) \/ GetProductByID(t) \/ CacheSet(t) \/ EnsureCategory(t) \/ EnsureParent(t)
           \/ GetByID(t) \/ CheckUnused(t) \/ ValidateWarehousesActive(t)
  BY <1>1 DEF CacheGet, GetProductByID, CacheSet, EnsureCategory, EnsureParent, GetByID,
              CheckUnused, ValidateWarehousesActive
<1>2. CASE Invalidate(t)
  BY <1>2 DEF Invalidate
<1>3. CASE Fail(t)
  <2>1. UNCHANGED rows /\ cached' = cached
    BY <1>3 DEF Fail
  <2>2. disturbed => disturbed'
    BY <1>3 DEF Fail
  <2>3. pc[t] = "write" => disturbed' = disturbed
    BY <1>3 DEF Fail
  <2>4. QED
    BY <2>1, <2>2, <2>3
<1>4. CASE \/ CreateProduct(t) \/ UpdateProduct(t) \/ SoftDeleteProduct(t) \/ RestoreProduct(t)
           \/ CreateCategory(t) \/ UpdateCategory(t) \/ SoftDeleteCategory(t)
           \/ CreateWarehouse(t) \/ UpdateWarehouse(t) \/ SoftDeleteWarehouse(t)
           \/ CommitMovement(t)
  BY <1>4 DEF CreateProduct, UpdateProduct, SoftDeleteProduct, RestoreProduct, CreateCategory,
              UpdateCategory, SoftDeleteCategory, CreateWarehouse, UpdateWarehouse,
              SoftDeleteWarehouse, CommitMovement
<1>5. QED
  BY <1>1, <1>2, <1>3, <1>4 DEF Step

\* A positive balance is the stock of its product and of its warehouse.
LEMMA StockedRows ==
  ASSUME NEW k \in Keys, stock[k] > 0
  PROVE  ProductStocked(k[2]) /\ WarehouseStocked(k[1])
<1>1. PICK w \in Warehouses, p \in Products : k = <<w, p>>
  BY DEF Keys
<1>2. stock[w, p] > 0
  BY <1>1
<1>3. QED
  BY <1>1, <1>2 DEF ProductStocked, WarehouseStocked

LEMMA InitCalm == Init => Calm
  BY DEF Init, Keys, Calm, Alone, IsRunning, Running, StillTrue, StillTrueOf, Does, CacheIsLive, StockIsLive

LEMMA CallCalm ==
  ASSUME Typed, Calm, NEW t \in Requests, NEW o \in Ops, Call(t, o)
  PROVE  Calm'
<1> SUFFICES ASSUME ~disturbed' PROVE (Alone /\ StillTrue /\ CacheIsLive /\ StockIsLive)'
  BY DEF Calm
<1>1. /\ ~disturbed /\ \A u \in Requests : pc[u] \notin Running
      /\ StillTrue /\ CacheIsLive /\ StockIsLive
  BY DEF Calm, Call, Typed, TypeOK, IsRunning
<1>2. /\ pc' = [pc EXCEPT ![t] = FirstStep(o)] /\ call' = [call EXCEPT ![t] = o]
      /\ UNCHANGED <<rows, cached>>
  BY DEF Call
<1>3. \A u \in Requests : u # t => pc'[u] \notin Running
  BY <1>1, <1>2 DEF Typed, TypeOK
<1>4. Alone'
  BY <1>3 DEF Alone, IsRunning
<1>5. ASSUME NEW u \in Requests PROVE StillTrueOf(u)'
  <2>1. CASE u = t
    BY <1>2, <2>1, CallFields DEF Typed, TypeOK, FirstStep, StillTrueOf, Does
  <2>2. CASE u # t
    BY <1>3, <2>2 DEF StillTrueOf, Running
  <2>3. QED
    BY <2>1, <2>2
<1>6. CacheIsLive'
  BY <1>1, <1>2 DEF CacheIsLive, Running, rows
<1>7. StockIsLive'
  BY <1>1, <1>2 DEF StockIsLive, rows
<1>8. QED
  BY <1>4, <1>5, <1>6, <1>7 DEF StillTrue

\* In calm, nobody disturbs the step of a handler.
LEMMA StepCalm ==
  ASSUME Typed, Calm, NEW t \in Requests, Step(t) \/ Fail(t)
  PROVE  Calm'
<1> SUFFICES ASSUME ~disturbed' PROVE (Alone /\ StillTrue /\ CacheIsLive /\ StockIsLive)'
  BY DEF Calm
<1>1. /\ ~disturbed /\ Alone /\ StillTrue /\ CacheIsLive /\ StockIsLive
      /\ pc[t] \in Running /\ call[t] \in Ops
  BY OtherStepsLook, HandlersArrive DEF Calm, Typed, TypeOK
<1>2. \A u \in Requests : u # t => pc[u] \notin Running /\ pc'[u] \notin Running
  BY <1>1, HandlersArrive DEF Alone, IsRunning
<1>3. Alone'
  BY <1>2 DEF Alone, IsRunning
<1>4. \A p \in cached : product[p] = "live" \/ (pc[t] = "invalidate" /\ Does(t, {"DeleteProduct"}))
  BY <1>1, <1>2 DEF CacheIsLive, Running
<1>5. StillTrueOf(t)'
  <2>1. CASE pc[t] = "write"
    BY <2>1, HandlersArrive DEF Arrives, StillTrueOf
  <2>2. CASE pc[t] # "write"
    <3>1. UNCHANGED rows
      BY <2>2, OtherStepsLook DEF Typed, TypeOK
    <3>2. pc'[t] # "failed" => call'[t] = call[t]
      BY HandlersArrive
    <3>3. StillTrueOf(t) /\ ControlOf(t)
      BY <1>1 DEF StillTrue, Typed, Control
    <3>4. Arrives(t)
      BY HandlersArrive
    <3>5. pc'[t] = "fill" => product[call[t].product] = "live"
      BY <3>4 DEF Arrives
    <3>6. Does(t, {"ConfirmMovement"}) /\ pc'[t] \in {"cached", "load", "fill", "write"} =>
            warehouse[call[t].warehouse] = "active"
      BY <3>3, <3>4 DEF Arrives, StillTrueOf, ControlOf, Does
    <3>7. Does(t, {"ConfirmMovement"}) /\ pc'[t] = "write" => product[call[t].product] = "live"
      BY <1>4, <3>3, <3>4 DEF Arrives, StillTrueOf, ControlOf, Does
    <3>8. pc'[t] = "write" =>
            /\ Does(t, {"DeleteProduct"}) => ~ProductStocked(call[t].product)
            /\ Does(t, {"DeleteCategory"}) => LiveIn(call[t].category) = {}
            /\ Does(t, {"DeleteWarehouse"}) => ~WarehouseStocked(call[t].warehouse)
      BY <3>3, <3>4 DEF Arrives, ControlOf, Does
    <3>9. pc'[t] \in {"get", "write"} =>
            /\ Does(t, {"CreateProduct", "UpdateProduct"}) =>
                 call[t].category = None \/ category[call[t].category] = "live"
            /\ Does(t, {"CreateCategory", "UpdateCategory"}) =>
                 \/ call[t].parent = None
                 \/ call[t].parent # call[t].category /\ category[call[t].parent] = "live"
      BY <3>3, <3>4 DEF Arrives, StillTrueOf, ControlOf, Does
    <3>10. QED
      BY <3>1, <3>2, <3>5, <3>6, <3>7, <3>8, <3>9
      DEF StillTrueOf, Does, rows, ProductStocked, WarehouseStocked, LiveIn
  <2>3. QED
    BY <2>1, <2>2
<1>6. ASSUME NEW u \in Requests, u # t PROVE StillTrueOf(u)'
  BY <1>2, <1>6 DEF StillTrueOf, Running
<1>7. CacheIsLive'
  <2>1. CASE pc[t] \notin {"write", "invalidate"}
    BY <1>1, <1>4, <2>1, OtherStepsLook DEF Typed, TypeOK, CacheIsLive, StillTrue, StillTrueOf, rows
  <2>2. CASE pc[t] = "invalidate"
    <3>1. Invalidate(t)
      BY <2>2
      DEF Step, CacheGet, GetProductByID, CacheSet, EnsureCategory, EnsureParent, GetByID,
          CheckUnused, ValidateWarehousesActive, Fail, CreateProduct, UpdateProduct,
          SoftDeleteProduct, RestoreProduct, CreateCategory, UpdateCategory, SoftDeleteCategory,
          CreateWarehouse, UpdateWarehouse, SoftDeleteWarehouse, CommitMovement
    <3>2. QED
      BY <1>4, <3>1 DEF Invalidate, CacheIsLive, Does, rows
  <2>3. CASE pc[t] = "write"
    <3>1. cached' = cached /\ \A p \in cached : p \in Products /\ product[p] = "live"
      BY <1>4, <2>3, OtherStepsLook DEF Typed, TypeOK
    <3>2. \/ \A p \in Products : product[p] = "live" => product'[p] = "live"
          \/ SoftDeleteProduct(t)
      BY <2>3, <1>1, CallFields
      DEF Step, CacheGet, GetProductByID, CacheSet, EnsureCategory, EnsureParent, GetByID,
          CheckUnused, ValidateWarehousesActive, Fail, CreateProduct, UpdateProduct, Invalidate,
          SoftDeleteProduct, RestoreProduct, CreateCategory, UpdateCategory, SoftDeleteCategory,
          CreateWarehouse, UpdateWarehouse, SoftDeleteWarehouse, CommitMovement, Typed, TypeOK, rows
    <3>3. CASE SoftDeleteProduct(t)
      <4>1. call[t].product \in Products /\ Does(t, {"DeleteProduct"})
        BY <1>1, <3>3, CallFields DEF SoftDeleteProduct, Does
      <4>2. CASE product[call[t].product] = "live"
        <5>1. pc'[t] = "invalidate" /\ call'[t] = call[t]
          BY <3>3, <4>2 DEF SoftDeleteProduct, Decide, Goto, Typed, TypeOK
        <5>2. QED
          BY <4>1, <5>1 DEF CacheIsLive, Does
      <4>3. CASE product[call[t].product] # "live"
        <5>1. \A p \in Products : product'[p] = product[p]
          BY <3>3, <4>1, <4>3 DEF SoftDeleteProduct, Typed, TypeOK
        <5>2. QED
          BY <3>1, <5>1 DEF CacheIsLive
      <4>4. QED
        BY <4>2, <4>3
    <3>4. QED
      BY <3>1, <3>2, <3>3 DEF CacheIsLive
  <2>4. QED
    BY <2>1, <2>2, <2>3
<1>8. StockIsLive'
  <2> USE <1>1, CallFields
  <2>a. \A k \in Keys : k = <<k[1], k[2]>> /\ k[1] \in Warehouses /\ k[2] \in Products
    BY DEF Keys
  <2>1. CASE UNCHANGED rows
    BY <2>1 DEF StockIsLive, rows
  <2>2. CASE CreateProduct(t)
    BY <2>2 DEF CreateProduct, StockIsLive, Does, Keys, Typed, TypeOK
  <2>3. CASE SoftDeleteProduct(t)
    <3>1. pc[t] = "write" /\ Does(t, {"DeleteProduct"}) /\ UNCHANGED <<warehouse, stock>>
      BY <2>3 DEF SoftDeleteProduct
    <3>2. ~ProductStocked(call[t].product)
      BY <3>1 DEF StillTrue, StillTrueOf
    <3>3. \A k \in Keys : stock[k] > 0 => k[2] # call[t].product
      BY <3>2, StockedRows
    <3>4. \A x \in Products : x # call[t].product => product'[x] = product[x]
      BY <2>3 DEF SoftDeleteProduct, Typed, TypeOK
    <3>5. QED
      BY <2>a, <3>1, <3>3, <3>4 DEF StockIsLive
  <2>4. CASE RestoreProduct(t)
    BY <2>4 DEF RestoreProduct, StockIsLive, Does, Keys, Typed, TypeOK
  <2>5. CASE CreateWarehouse(t)
    <3>1. UNCHANGED <<product, stock>> /\ Activity(t) # "deleted"
      BY <2>5 DEF CreateWarehouse, Activity
    <3>2. \A x \in Warehouses : warehouse'[x] \in {warehouse[x], Activity(t)}
      BY <2>5 DEF CreateWarehouse, Typed, TypeOK
    <3>3. QED
      BY <2>a, <3>1, <3>2 DEF StockIsLive
  <2>6. CASE UpdateWarehouse(t)
    <3>1. UNCHANGED <<product, stock>> /\ Activity(t) # "deleted"
      BY <2>6 DEF UpdateWarehouse, Activity
    <3>2. \A x \in Warehouses : warehouse'[x] \in {warehouse[x], Activity(t)}
      BY <2>6 DEF UpdateWarehouse, Typed, TypeOK
    <3>3. QED
      BY <2>a, <3>1, <3>2 DEF StockIsLive
  <2>7. CASE SoftDeleteWarehouse(t)
    <3>1. pc[t] = "write" /\ Does(t, {"DeleteWarehouse"}) /\ UNCHANGED <<product, stock>>
      BY <2>7 DEF SoftDeleteWarehouse
    <3>2. ~WarehouseStocked(call[t].warehouse)
      BY <3>1 DEF StillTrue, StillTrueOf
    <3>3. \A k \in Keys : stock[k] > 0 => k[1] # call[t].warehouse
      BY <3>2, StockedRows
    <3>4. \A x \in Warehouses : x # call[t].warehouse => warehouse'[x] = warehouse[x]
      BY <2>7 DEF SoftDeleteWarehouse, Typed, TypeOK
    <3>5. QED
      BY <2>a, <3>1, <3>3, <3>4 DEF StockIsLive
  <2>8. CASE CommitMovement(t)
    BY <2>8 DEF CommitMovement, StockIsLive, Does, Keys, Typed, TypeOK, StillTrue, StillTrueOf
  <2>9. CASE UNCHANGED <<product, warehouse, stock>>
    BY <2>9 DEF StockIsLive
  <2>10. QED
    BY <2>1, <2>2, <2>3, <2>4, <2>5, <2>6, <2>7, <2>8, <2>9
    DEF Step, CacheGet, GetProductByID, CacheSet, EnsureCategory, EnsureParent, GetByID,
        CheckUnused, ValidateWarehousesActive, Invalidate, Fail, UpdateProduct, CreateCategory,
        UpdateCategory, SoftDeleteCategory
<1>9. QED
  BY <1>3, <1>5, <1>6, <1>7, <1>8 DEF StillTrue

LEMMA NextCalm == Typed /\ Calm /\ [Next]_vars => Calm'
<1> SUFFICES ASSUME Typed, Calm, [Next]_vars PROVE Calm'
  OBVIOUS
<1>1. CASE UNCHANGED <<rows, call, pc, disturbed>> /\ cached' \subseteq cached
  <2> SUFFICES ASSUME ~disturbed' PROVE (Alone /\ StillTrue /\ CacheIsLive /\ StockIsLive)'
    BY DEF Calm
  <2>1. Alone /\ StillTrue /\ CacheIsLive /\ StockIsLive
    BY <1>1 DEF Calm
  <2>2. Alone'
    BY <1>1, <2>1 DEF Alone, IsRunning
  <2>3. StillTrue'
    BY <1>1, <2>1 DEF rows, StillTrue, StillTrueOf, Does, ProductStocked, WarehouseStocked, LiveIn
  <2>4. CacheIsLive'
    BY <1>1, <2>1 DEF rows, CacheIsLive, Does
  <2>5. StockIsLive'
    BY <1>1, <2>1 DEF rows, StockIsLive
  <2>6. QED
    BY <2>2, <2>3, <2>4, <2>5
<1>2. \/ UNCHANGED <<rows, call, pc, disturbed>> /\ cached' \subseteq cached
      \/ \E t \in Requests : (\E o \in Ops : Call(t, o)) \/ Step(t) \/ Fail(t)
  BY DEF Next, Expire, vars
<1>3. QED
  BY <1>1, <1>2, CallCalm, StepCalm

\* Handlers that come one after the other leave no stock of a deleted product or in a
\* deleted warehouse, although a confirmation believes the cache about products.
THEOREM CalmKeepsStockLive == Spec => []CalmStockIsLive
<1>1. Calm => CalmStockIsLive
  BY DEF Calm, StockIsLive, CalmStockIsLive
<1>2. QED
  BY <1>1, InitTyped, NextTyped, InitCalm, NextCalm, PTL DEF Spec

LEMMA CategoriesStayEmpty ==
  ASSUME Typed, Calm, [Next]_vars, ~disturbed', NEW c \in Categories
  PROVE  /\ CategoryLeft(c) => LiveIn(c) = {}
         /\ category[c] = "deleted" => \A p \in Products : Joined(p, c) => product[p] = "deleted"
         /\ \A d \in Categories : parent'[d] = c /\ parent[d] # c => category[c] = "live" /\ d # c
<1>1. CASE UNCHANGED <<product, inCategory, category, parent>>
  BY <1>1 DEF CategoryLeft, Joined, LiveIn
<1>2. ASSUME NEW t \in Requests, Step(t), pc[t] = "write"
      PROVE  /\ CategoryLeft(c) => LiveIn(c) = {}
             /\ category[c] = "deleted" => \A p \in Products : Joined(p, c) => product[p] = "deleted"
             /\ \A d \in Categories : parent'[d] = c /\ parent[d] # c => category[c] = "live" /\ d # c
  <2>1. call[t] \in Ops /\ StillTrueOf(t) /\ c # None
    BY <1>2, HandlersArrive, OtherStepsLook, CatalogAssumption DEF Calm, StillTrue, Typed, TypeOK
  <2> USE <1>2, <2>1, CallFields DEF Typed, TypeOK, CategoryLeft, Joined, LiveIn, Does, StillTrueOf
  <2>2. CASE CreateProduct(t)
    BY <2>2 DEF CreateProduct
  <2>3. CASE UpdateProduct(t)
    BY <2>3 DEF UpdateProduct
  <2>4. CASE SoftDeleteProduct(t)
    BY <2>4 DEF SoftDeleteProduct
  <2>5. CASE RestoreProduct(t)
    BY <2>5 DEF RestoreProduct
  <2>6. CASE CreateCategory(t)
    BY <2>6 DEF CreateCategory
  <2>7. CASE UpdateCategory(t)
    BY <2>7 DEF UpdateCategory
  <2>8. CASE SoftDeleteCategory(t)
    BY <2>8 DEF SoftDeleteCategory
  <2>9. QED
    BY <1>1, <2>2, <2>3, <2>4, <2>5, <2>6, <2>7, <2>8
    DEF Step, CacheGet, GetProductByID, CacheSet, EnsureCategory, EnsureParent, GetByID,
        CheckUnused, ValidateWarehousesActive, Invalidate, CreateWarehouse, UpdateWarehouse,
        SoftDeleteWarehouse, CommitMovement
<1>3. ASSUME NEW t \in Requests, Step(t) \/ Fail(t), pc[t] # "write"
      PROVE  UNCHANGED <<product, inCategory, category, parent>>
  BY <1>3, OtherStepsLook DEF rows, Typed, TypeOK
<1>4. ASSUME NEW t \in Requests, (\E o \in Ops : Call(t, o)) \/ Fail(t)
      PROVE  UNCHANGED <<product, inCategory, category, parent>>
  BY <1>4 DEF Call, Fail, rows
<1>5. ASSUME NEW p \in Products, Expire(p)
      PROVE  UNCHANGED <<product, inCategory, category, parent>>
  BY <1>5 DEF Expire, rows
<1>6. UNCHANGED vars => UNCHANGED <<product, inCategory, category, parent>>
  BY DEF vars, rows
<1>7. QED
  BY <1>1, <1>2, <1>3, <1>4, <1>5, <1>6 DEF Next

\* In calm a category is empty when it is deleted; afterwards it gets products by a
\* restore only and becomes the parent of no category.
THEOREM CalmEmptiesCategories == Spec => CalmCategoriesEmpty
<1>1. Typed /\ Calm /\ [Next]_vars =>
        [~disturbed' => \A c \in Categories :
           /\ CategoryLeft(c) => LiveIn(c) = {}
           /\ category[c] = "deleted" => \A p \in Products : Joined(p, c) => product[p] = "deleted"
           /\ \A d \in Categories : parent'[d] = c /\ parent[d] # c => category[c] = "live" /\ d # c]_vars
  BY CategoriesStayEmpty
<1>2. QED
  BY <1>1, InitTyped, NextTyped, InitCalm, NextCalm, PTL DEF Spec, CalmCategoriesEmpty

-----------------------------------------------------------------------------
\* Answered deletions and restores of a row.
DeletedP(p) == {t \in Wrote({"DeleteProduct"}) : call[t].product = p}
RestoredP(p) == {t \in Wrote({"RestoreProduct"}) : call[t].product = p}
DeletedC(c) == {t \in Wrote({"DeleteCategory"}) : call[t].category = c}
DeletedW(w) == {t \in Wrote({"DeleteWarehouse"}) : call[t].warehouse = w}

One(b) == IF b THEN 1 ELSE 0

\* The UPDATEs of deletions and restores take turns on a product, from whatever it was
\* at first; a deleted category or warehouse stays so.
Counted ==
  /\ \A p \in Products : \E b \in {0, 1} :
       Cardinality(DeletedP(p)) + b = Cardinality(RestoredP(p)) + One(product[p] = "deleted")
  /\ \A c \in Categories :
       DeletedC(c) = {} \/ (Cardinality(DeletedC(c)) = 1 /\ category[c] = "deleted")
  /\ \A w \in Warehouses :
       DeletedW(w) = {} \/ (Cardinality(DeletedW(w)) = 1 /\ warehouse[w] = "deleted")

\* The step at which a handler has written the row and goes on to the cache.
Succeeds(t, op) == pc[t] = "write" /\ pc'[t] = "invalidate" /\ Does(t, {op})

Counting == {"DeleteProduct", "RestoreProduct", "DeleteCategory", "DeleteWarehouse"}

\* An answer stays, and only a write that succeeds adds one.
LEMMA AnswersGrow ==
  ASSUME Typed, NEW t \in Requests, Step(t) \/ Fail(t), NEW op \in Counting
  PROVE  /\ Succeeds(t, op) => t \notin Wrote({op}) /\ Wrote({op})' = Wrote({op}) \cup {t}
         /\ ~Succeeds(t, op) => Wrote({op})' = Wrote({op})
         /\ \A u \in Wrote({op})' : call'[u] = call[u]
<1>1. \A u \in Requests : u # t => (u \in Wrote({op})' <=> u \in Wrote({op}))
  BY HandlersArrive DEF Wrote, Does
<1>2. t \in Wrote({op}) <=> pc[t] = "invalidate" /\ Does(t, {op})
  BY HandlersArrive DEF Wrote, Running
<1>3. t \in Wrote({op})' <=> (pc[t] = "invalidate" /\ Does(t, {op})) \/ Succeeds(t, op)
  BY HandlersArrive DEF Wrote, Arrives, Does, Succeeds, Counting
<1>4. Wrote({op}) \subseteq Requests /\ Wrote({op})' \subseteq Requests
  BY DEF Wrote
<1>5. ASSUME NEW u \in Wrote({op})' PROVE call'[u] = call[u]
  BY <1>4, HandlersArrive DEF Wrote
<1>6. QED
  BY <1>1, <1>2, <1>3, <1>4, <1>5 DEF Succeeds

\* What a success says of its row, and that nothing else deletes or restores one.
LEMMA RowsTurn ==
  ASSUME Typed, NEW t \in Requests, Step(t) \/ Fail(t)
  PROVE  /\ Succeeds(t, "DeleteProduct") =>
              product[call[t].product] = "live" /\ product'[call[t].product] = "deleted"
         /\ Succeeds(t, "RestoreProduct") =>
              product[call[t].product] = "deleted" /\ product'[call[t].product] = "live"
         /\ Succeeds(t, "DeleteCategory") =>
              category[call[t].category] = "live" /\ category'[call[t].category] = "deleted"
         /\ Succeeds(t, "DeleteWarehouse") =>
              warehouse[call[t].warehouse] # "deleted" /\ warehouse'[call[t].warehouse] = "deleted"
         /\ \A p \in Products : (product'[p] = "deleted") # (product[p] = "deleted") =>
              (Succeeds(t, "DeleteProduct") \/ Succeeds(t, "RestoreProduct")) /\ p = call[t].product
         /\ \A c \in Categories : category[c] = "deleted" => category'[c] = "deleted"
         /\ \A w \in Warehouses : warehouse[w] = "deleted" => warehouse'[w] = "deleted"
<1>1. /\ call[t] \in Ops /\ pc \in [Requests -> Labels]
      /\ product \in [Products -> {"absent", "live", "deleted"}]
      /\ category \in [Categories -> {"absent", "live", "deleted"}]
      /\ warehouse \in [Warehouses -> {"absent", "active", "inactive", "deleted"}]
  BY HandlersArrive DEF Typed, TypeOK, Labels
<1> USE <1>1, CallFields DEF Succeeds, Does
<1>2. CASE UNCHANGED rows /\ pc[t] # "write"
  BY <1>2 DEF rows
<1>3. CASE CreateProduct(t)
  BY <1>3 DEF CreateProduct
<1>4. CASE UpdateProduct(t)
  BY <1>4 DEF UpdateProduct
<1>5. CASE SoftDeleteProduct(t)
  BY <1>5 DEF SoftDeleteProduct, Decide, Goto
<1>6. CASE RestoreProduct(t)
  BY <1>6 DEF RestoreProduct, Decide, Goto
<1>7. CASE CreateCategory(t)
  BY <1>7 DEF CreateCategory
<1>8. CASE UpdateCategory(t)
  BY <1>8 DEF UpdateCategory
<1>9. CASE SoftDeleteCategory(t)
  BY <1>9 DEF SoftDeleteCategory, Decide, Goto
<1>10. CASE CreateWarehouse(t)
  BY <1>10 DEF CreateWarehouse, Activity
<1>11. CASE UpdateWarehouse(t)
  BY <1>11 DEF UpdateWarehouse, Activity, Exists
<1>12. CASE SoftDeleteWarehouse(t)
  BY <1>12 DEF SoftDeleteWarehouse, Decide, Goto, Exists
<1>13. CASE CommitMovement(t)
  BY <1>13 DEF CommitMovement
<1>14. CASE Fail(t)
  BY <1>14 DEF Fail, Goto, rows
<1>15. QED
  BY <1>2, <1>3, <1>4, <1>5, <1>6, <1>7, <1>8, <1>9, <1>10, <1>11, <1>12, <1>13, <1>14
  DEF Step, CacheGet, GetProductByID, CacheSet, EnsureCategory, EnsureParent, GetByID,
      CheckUnused, ValidateWarehousesActive, Invalidate

\* A call that has just been made is answered by nobody.
LEMMA CallsAnswerNothing ==
  ASSUME Typed, NEW t \in Requests, NEW o \in Ops, Call(t, o), NEW op \in Counting
  PROVE  /\ Wrote({op})' = Wrote({op})
         /\ \A u \in Wrote({op})' : call'[u] = call[u]
<1>1. /\ pc[t] = "idle" /\ pc'[t] \notin {"invalidate", "written", "ok"}
      /\ \A u \in Requests : u # t => pc'[u] = pc[u] /\ call'[u] = call[u]
  BY CallFields DEF Call, FirstStep, Typed, TypeOK
<1>2. QED
  BY <1>1 DEF Wrote, Does

LEMMA AnswersFinite ==
  ASSUME NEW D \in SUBSET Requests
  PROVE  /\ IsFiniteSet(D) /\ Cardinality(D) \in Nat
         /\ D = {} <=> Cardinality(D) = 0
         /\ \A t \in Requests \ D : Cardinality(D \cup {t}) = Cardinality(D) + 1
<1>1. IsFiniteSet(D)
  BY CatalogAssumption, FS_Subset
<1>2. QED
  BY <1>1, FS_CardinalityType, FS_EmptySet, FS_AddElement

LEMMA StepCounted ==
  ASSUME Typed, Counted, NEW t \in Requests, Step(t) \/ Fail(t)
  PROVE  Counted'
<1>1. ASSUME NEW p \in Products
      PROVE  \E b \in {0, 1} : Cardinality(DeletedP(p)') + b =
               Cardinality(RestoredP(p)') + One(product'[p] = "deleted")
  <2> DEFINE Deletes == Succeeds(t, "DeleteProduct") /\ call[t].product = p
             Restores == Succeeds(t, "RestoreProduct") /\ call[t].product = p
  <2>1. /\ DeletedP(p) \in SUBSET Requests
        /\ Deletes => t \notin DeletedP(p) /\ DeletedP(p)' = DeletedP(p) \cup {t}
        /\ ~Deletes => DeletedP(p)' = DeletedP(p)
    BY AnswersGrow DEF DeletedP, Wrote, Counting, Succeeds, Does
  <2>2. /\ RestoredP(p) \in SUBSET Requests
        /\ Restores => t \notin RestoredP(p) /\ RestoredP(p)' = RestoredP(p) \cup {t}
        /\ ~Restores => RestoredP(p)' = RestoredP(p)
    BY AnswersGrow DEF RestoredP, Wrote, Counting, Succeeds, Does
  <2>3. PICK b \in {0, 1} :
          Cardinality(DeletedP(p)) + b = Cardinality(RestoredP(p)) + One(product[p] = "deleted")
    BY DEF Counted
  <2>4. CASE Deletes
    <3>1. ~Restores /\ product[p] # "deleted" /\ product'[p] = "deleted"
      BY <2>4, RowsTurn DEF Succeeds, Does
    <3>2. QED
      BY <2>1, <2>2, <2>3, <2>4, <3>1, AnswersFinite DEF One
  <2>5. CASE Restores
    <3>1. ~Deletes /\ product[p] = "deleted" /\ product'[p] # "deleted"
      BY <2>5, RowsTurn DEF Succeeds, Does
    <3>2. QED
      BY <2>1, <2>2, <2>3, <2>5, <3>1, AnswersFinite DEF One
  <2>6. CASE ~Deletes /\ ~Restores
    BY <2>1, <2>2, <2>3, <2>6, RowsTurn
  <2>7. QED
    BY <2>4, <2>5, <2>6
<1>2. ASSUME NEW c \in Categories
      PROVE  DeletedC(c)' = {} \/ (Cardinality(DeletedC(c)') = 1 /\ category'[c] = "deleted")
  <2> DEFINE Deletes == Succeeds(t, "DeleteCategory") /\ call[t].category = c
  <2>1. /\ DeletedC(c) \in SUBSET Requests
        /\ Deletes => t \notin DeletedC(c) /\ DeletedC(c)' = DeletedC(c) \cup {t}
        /\ ~Deletes => DeletedC(c)' = DeletedC(c)
    BY AnswersGrow DEF DeletedC, Wrote, Counting, Succeeds, Does
  <2>2. CASE Deletes
    <3>1. category[c] # "deleted" /\ category'[c] = "deleted"
      BY <2>2, RowsTurn DEF Succeeds, Does
    <3>2. DeletedC(c) = {} /\ Cardinality(DeletedC(c)) = 0
      BY <3>1, FS_EmptySet DEF Counted
    <3>3. QED
      BY <2>1, <2>2, <3>1, <3>2, AnswersFinite
  <2>3. CASE ~Deletes
    BY <2>1, <2>3, RowsTurn DEF Counted
  <2>4. QED
    BY <2>2, <2>3
<1>3. ASSUME NEW w \in Warehouses
      PROVE  DeletedW(w)' = {} \/ (Cardinality(DeletedW(w)') = 1 /\ warehouse'[w] = "deleted")
  <2> DEFINE Deletes == Succeeds(t, "DeleteWarehouse") /\ call[t].warehouse = w
  <2>1. /\ DeletedW(w) \in SUBSET Requests
        /\ Deletes => t \notin DeletedW(w) /\ DeletedW(w)' = DeletedW(w) \cup {t}
        /\ ~Deletes => DeletedW(w)' = DeletedW(w)
    BY AnswersGrow DEF DeletedW, Wrote, Counting, Succeeds, Does
  <2>2. CASE Deletes
    <3>1. warehouse[w] # "deleted" /\ warehouse'[w] = "deleted"
      BY <2>2, RowsTurn DEF Succeeds, Does
    <3>2. DeletedW(w) = {} /\ Cardinality(DeletedW(w)) = 0
      BY <3>1, FS_EmptySet DEF Counted
    <3>3. QED
      BY <2>1, <2>2, <3>1, <3>2, AnswersFinite
  <2>3. CASE ~Deletes
    BY <2>1, <2>3, RowsTurn DEF Counted
  <2>4. QED
    BY <2>2, <2>3
<1>4. QED
  BY <1>1, <1>2, <1>3 DEF Counted

LEMMA InitCounted == Init => Counted
<1> SUFFICES ASSUME Init PROVE Counted
  OBVIOUS
<1>1. \A op : Wrote({op}) = {}
  BY DEF Init, Wrote, Does
<1>2. /\ \A p : DeletedP(p) = {} /\ RestoredP(p) = {}
      /\ \A c : DeletedC(c) = {}
      /\ \A w : DeletedW(w) = {}
  BY <1>1 DEF DeletedP, RestoredP, DeletedC, DeletedW
<1>3. Cardinality({}) = 0
  BY FS_EmptySet
<1>4. QED
  BY <1>2, <1>3 DEF Counted, One

LEMMA NextCounted == Typed /\ Counted /\ [Next]_vars => Counted'
<1> SUFFICES ASSUME Typed, Counted, [Next]_vars PROVE Counted'
  OBVIOUS
<1>1. ASSUME UNCHANGED rows,
             \A op \in Counting : Wrote({op})' = Wrote({op}) /\ \A u \in Wrote({op})' : call'[u] = call[u]
      PROVE  Counted'
  <2>1. /\ \A p \in Products : DeletedP(p)' = DeletedP(p) /\ RestoredP(p)' = RestoredP(p)
        /\ \A c \in Categories : DeletedC(c)' = DeletedC(c)
        /\ \A w \in Warehouses : DeletedW(w)' = DeletedW(w)
    BY <1>1 DEF DeletedP, RestoredP, DeletedC, DeletedW, Counting
  <2>2. QED
    BY <1>1, <2>1 DEF Counted, rows
<1>2. ASSUME NEW t \in Requests, NEW o \in Ops, Call(t, o) PROVE Counted'
  BY <1>1, <1>2, CallsAnswerNothing DEF Call
<1>3. ASSUME NEW p \in Products, Expire(p) PROVE Counted'
  BY <1>1, <1>3 DEF Expire, Wrote, Does
<1>4. CASE UNCHANGED vars
  BY <1>1, <1>4 DEF vars, Wrote, Does
<1>5. QED
  BY <1>2, <1>3, <1>4, StepCounted DEF Next

\* Of concurrent deletions of a row one succeeds, and another one only after a restore,
\* whatever else runs in between.
THEOREM DeletionsTakeTurns == Spec => []DeletedOnce
<1>1. Counted => DeletedOnce
  <2> SUFFICES ASSUME Counted PROVE DeletedOnce
    OBVIOUS
  <2>1. ASSUME NEW p \in Products
        PROVE  DeletionsAnswered(DeletedP(p), RestoredP(p), product[p] = "deleted")
    <3>1. DeletedP(p) \in SUBSET Requests /\ RestoredP(p) \in SUBSET Requests
      BY DEF DeletedP, RestoredP, Wrote
    <3>2. PICK b \in {0, 1} :
            Cardinality(DeletedP(p)) + b = Cardinality(RestoredP(p)) + One(product[p] = "deleted")
      BY DEF Counted
    <3>3. QED
      BY <3>1, <3>2, AnswersFinite DEF DeletionsAnswered, One
  <2>2. ASSUME NEW c \in Categories
        PROVE  DeletionsAnswered(DeletedC(c), {}, category[c] = "deleted")
    <3>1. Cardinality({}) = 0
      BY FS_EmptySet
    <3>2. CASE DeletedC(c) = {}
      BY <3>1, <3>2 DEF DeletionsAnswered
    <3>3. CASE DeletedC(c) # {}
      BY <3>1, <3>3 DEF Counted, DeletionsAnswered
    <3>4. QED
      BY <3>2, <3>3
  <2>3. ASSUME NEW w \in Warehouses
        PROVE  DeletionsAnswered(DeletedW(w), {}, warehouse[w] = "deleted")
    <3>1. Cardinality({}) = 0
      BY FS_EmptySet
    <3>2. CASE DeletedW(w) = {}
      BY <3>1, <3>2 DEF DeletionsAnswered
    <3>3. CASE DeletedW(w) # {}
      BY <3>1, <3>3 DEF Counted, DeletionsAnswered
    <3>4. QED
      BY <3>2, <3>3
  <2>4. QED
    BY <2>1, <2>2, <2>3 DEF DeletedOnce, DeletedP, RestoredP, DeletedC, DeletedW
<1>2. QED
  BY <1>1, InitTyped, NextTyped, InitCounted, NextCounted, PTL DEF Spec
=============================================================================
