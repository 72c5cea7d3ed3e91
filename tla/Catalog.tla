------------------------------- MODULE Catalog -------------------------------
(***************************************************************************)
(* Products, categories and warehouses, which are deleted softly, and the  *)
(* rules that tie them to the stock: handlers of the catalog and warehouse *)
(* usecases next to confirmations of movements.                            *)
(*                                                                         *)
(* No handler here opens a transaction, only the confirmation does.  Each  *)
(* reads what its rule is about, decides, and writes in a statement of its *)
(* own; the WHERE clause of that statement looks at deleted_at again and   *)
(* at nothing else.  A confirmation looks its warehouses up in the         *)
(* database but its products in the cache first (GetProduct).               *)
(*                                                                         *)
(* Module Movement has confirmations in detail; one line of one unit, in   *)
(* or out, is enough here.  Names and prices are left out: no rule below   *)
(* depends on them.                                                        *)
(*                                                                         *)
(* Definitions marked FAULTY are not part of the specification: each is    *)
(* the one after it with a plausible slip.                                 *)
(***************************************************************************)
EXTENDS Integers, FiniteSets

CONSTANTS
  Requests,    \* calls of a handler
  Products, Categories, Warehouses,
  MaxStock,    \* bound on the quantity in a warehouse, not in the code
  None         \* no category, no call

Keys == Warehouses \X Products

Ops ==
  [op : {"GetProduct", "DeleteProduct", "RestoreProduct"}, product : Products]
    \cup [op : {"CreateProduct", "UpdateProduct"}, product : Products,
          category : Categories \cup {None}]
    \cup [op : {"CreateCategory", "UpdateCategory"}, category : Categories,
          parent : Categories \cup {None}]
    \cup [op : {"DeleteCategory"}, category : Categories]
    \cup [op : {"CreateWarehouse", "UpdateWarehouse"}, warehouse : Warehouses,
          active : BOOLEAN]
    \cup [op : {"DeleteWarehouse"}, warehouse : Warehouses]
    \cup [op : {"ConfirmMovement"}, warehouse : Warehouses, product : Products,
          qty : {-1, 1}]

ASSUME CatalogAssumption ==
  /\ MaxStock \in Nat \ {0}
  /\ IsFiniteSet(Requests)
  /\ None \notin Categories \cup Ops

VARIABLES
  product,    \* products: "absent", "live" or "deleted"
  inCategory, \* products.category_id
  category,   \* categories
  parent,     \* categories.parent_id
  warehouse,  \* warehouses: "absent", "active", "inactive" or "deleted"
  stock,      \* stock_balances.quantity, as committed
  cached,     \* products that have an entry in the cache
  call,       \* the operation of a request and its arguments
  pc,         \* where its handler is; "written" is a failure after the write
  disturbed   \* two requests have overlapped, or a write was not followed by its
              \* invalidation (history)

rows == <<product, inCategory, category, parent, warehouse, stock>>
vars == <<rows, cached, call, pc, disturbed>>

Running == {"cached", "load", "fill", "category", "parent", "get", "count", "check", "write",
            "invalidate"}

TypeOK ==
  /\ product \in [Products -> {"absent", "live", "deleted"}]
  /\ inCategory \in [Products -> Categories \cup {None}]
  /\ category \in [Categories -> {"absent", "live", "deleted"}]
  /\ parent \in [Categories -> Categories \cup {None}]
  /\ \A c \in Categories : category[c] = "absent" => \A d \in Categories : parent[d] # c
  /\ warehouse \in [Warehouses -> {"absent", "active", "inactive", "deleted"}]
  /\ stock \in [Keys -> 0 .. MaxStock]
  /\ cached \subseteq {p \in Products : product[p] # "absent"}
  /\ call \in [Requests -> Ops \cup {None}]
  /\ pc \in [Requests -> {"idle", "ok", "failed", "written"} \cup Running]
  /\ disturbed \in BOOLEAN
  /\ \A k \in Keys : stock[k] > 0 => warehouse[k[1]] # "absent" /\ product[k[2]] # "absent"

\* Any catalog that earlier calls may have left behind, one after the other.
Init ==
  /\ product \in [Products -> {"absent", "live", "deleted"}]
  /\ inCategory = [p \in Products |-> None]
  /\ category \in [Categories -> {"absent", "live"}]
  /\ parent = [c \in Categories |-> None]
  /\ warehouse \in [Warehouses -> {"absent", "active", "inactive"}]
  /\ stock \in [Keys -> {0, 1}]
  /\ \A k \in Keys : stock[k] > 0 => warehouse[k[1]] # "absent" /\ product[k[2]] = "live"
  /\ cached = {}
  /\ call = [t \in Requests |-> None]
  /\ pc = [t \in Requests |-> "idle"]
  /\ disturbed = FALSE

-----------------------------------------------------------------------------
\* The call of a handler that failed without writing is forgotten.
Goto(t, label) ==
  /\ pc' = [pc EXCEPT ![t] = label]
  /\ call' = IF label = "failed" THEN [call EXCEPT ![t] = None] ELSE call
Decide(t, holds, label) == Goto(t, IF holds THEN label ELSE "failed")

Does(t, ops) == call[t] # None /\ call[t].op \in ops
IsRunning(t) == pc[t] \in Running

FirstStep(o) ==
  CASE o.op = "GetProduct" -> "cached"
    [] o.op \in {"CreateProduct", "UpdateProduct"} -> "category"
    [] o.op \in {"CreateCategory", "UpdateCategory"} -> "parent"
    [] o.op \in {"DeleteProduct", "DeleteCategory", "DeleteWarehouse", "UpdateWarehouse"} -> "get"
    [] o.op \in {"RestoreProduct", "CreateWarehouse"} -> "write"
    [] o.op = "ConfirmMovement" -> "check"

Call(t, o) ==
  /\ pc[t] = "idle"
  /\ call' = [call EXCEPT ![t] = o]
  /\ pc' = [pc EXCEPT ![t] = FirstStep(o)]
  /\ disturbed' = (disturbed \/ \E u \in Requests : IsRunning(u))
  /\ UNCHANGED <<rows, cached>>

-----------------------------------------------------------------------------
\* GetProduct, alone or on behalf of a confirmation (emitOutbox).
AfterProduct(t) == IF Does(t, {"GetProduct"}) THEN "ok" ELSE "write"

\* A hit is an entry of a product that was there once; a failing Get is a miss.
CacheGet(t) ==
  /\ pc[t] = "cached"
  /\ \/ call[t].product \in cached /\ Goto(t, AfterProduct(t))
     \/ Goto(t, "load")
  /\ UNCHANGED <<rows, cached, disturbed>>

GetProductByID(t) ==
  /\ pc[t] = "load"
  /\ Decide(t, product[call[t].product] = "live", "fill")
  /\ UNCHANGED <<rows, cached, disturbed>>

\* The error of a Set is dropped.
CacheSet(t) ==
  /\ pc[t] = "fill"
  /\ \/ cached' = cached \cup {call[t].product}
     \/ UNCHANGED cached
  /\ Goto(t, AfterProduct(t))
  /\ UNCHANGED <<rows, disturbed>>

Expire(p) ==
  /\ p \in cached
  /\ cached' = cached \ {p}
  /\ UNCHANGED <<rows, call, pc, disturbed>>

-----------------------------------------------------------------------------
\* ensureCategory.
EnsureCategory(t) ==
  /\ pc[t] = "category"
  /\ Decide(t, call[t].category = None \/ category[call[t].category] = "live",
            IF Does(t, {"CreateProduct"}) THEN "write" ELSE "get")
  /\ UNCHANGED <<rows, cached, disturbed>>

\* A given parent has to be another category, not deleted.  Where its own parents
\* lead is not asked.
EnsureParent(t) ==
  LET p == call[t].parent IN
  /\ pc[t] = "parent"
  /\ Decide(t, p = None \/ (p # call[t].category /\ category[p] = "live"),
            IF Does(t, {"CreateCategory"}) THEN "write" ELSE "get")
  /\ UNCHANGED <<rows, cached, disturbed>>

Exists(w) == warehouse[w] \in {"active", "inactive"}

\* The row a handler is about, without those that are deleted.
GetByID(t) ==
  /\ pc[t] = "get"
  /\ \/ Does(t, {"UpdateProduct"}) /\ Decide(t, product[call[t].product] = "live", "write")
     \/ Does(t, {"DeleteProduct"}) /\ Decide(t, product[call[t].product] = "live", "count")
     \/ Does(t, {"UpdateCategory"}) /\ Decide(t, category[call[t].category] = "live", "write")
     \/ Does(t, {"DeleteCategory"}) /\ Decide(t, category[call[t].category] = "live", "count")
     \/ Does(t, {"UpdateWarehouse"}) /\ Decide(t, Exists(call[t].warehouse), "write")
     \/ Does(t, {"DeleteWarehouse"}) /\ Decide(t, Exists(call[t].warehouse), "count")
  /\ UNCHANGED <<rows, cached, disturbed>>

LiveIn(c) == {p \in Products : product[p] = "live" /\ inCategory[p] = c}
ProductStocked(p) == \E w \in Warehouses : stock[w, p] > 0
WarehouseStocked(w) == \E p \in Products : stock[w, p] > 0

\* FAULTY: nobody counts the products of a category.
CheckStockOnly(t) ==
  /\ pc[t] = "count"
  /\ \/ Does(t, {"DeleteProduct"}) /\ Decide(t, ~ProductStocked(call[t].product), "write")
     \/ Does(t, {"DeleteCategory"}) /\ Goto(t, "write")
     \/ Does(t, {"DeleteWarehouse"}) /\ Decide(t, ~WarehouseStocked(call[t].warehouse), "write")
  /\ UNCHANGED <<rows, cached, disturbed>>

\* HasPositiveStock and CountActiveProductsByCategoryID.
CheckUnused(t) ==
  /\ pc[t] = "count"
  /\ \/ Does(t, {"DeleteProduct"}) /\ Decide(t, ~ProductStocked(call[t].product), "write")
     \/ Does(t, {"DeleteCategory"}) /\ Decide(t, LiveIn(call[t].category) = {}, "write")
     \/ Does(t, {"DeleteWarehouse"}) /\ Decide(t, ~WarehouseStocked(call[t].warehouse), "write")
  /\ UNCHANGED <<rows, cached, disturbed>>

\* The first thing a confirmation does with its warehouse; the stock it applies
\* next is in Commit.
ValidateWarehousesActive(t) ==
  /\ pc[t] = "check"
  /\ Decide(t, warehouse[call[t].warehouse] = "active", "cached")
  /\ UNCHANGED <<rows, cached, disturbed>>

-----------------------------------------------------------------------------
\* The statement that changes the row, and how many rows it finds.
CreateProduct(t) ==
  LET p == call[t].product IN
  /\ pc[t] = "write" /\ Does(t, {"CreateProduct"})
  /\ Decide(t, product[p] = "absent", "invalidate")
  /\ \/ /\ product[p] = "absent"
        /\ product' = [product EXCEPT ![p] = "live"]
        /\ inCategory' = [inCategory EXCEPT ![p] = call[t].category]
     \/ product[p] # "absent" /\ UNCHANGED <<product, inCategory>>
  /\ UNCHANGED <<category, parent, warehouse, stock, cached, disturbed>>

\* Nobody looks at RowsAffected here, and the row is read back whether deleted or
\* not: the answer is a success in any case.
UpdateProduct(t) ==
  LET p == call[t].product IN
  /\ pc[t] = "write" /\ Does(t, {"UpdateProduct"})
  /\ inCategory' = IF product[p] = "live" /\ call[t].category # None
                   THEN [inCategory EXCEPT ![p] = call[t].category] ELSE inCategory
  /\ Goto(t, "invalidate")
  /\ UNCHANGED <<product, category, parent, warehouse, stock, cached, disturbed>>

SoftDeleteProduct(t) ==
  LET p == call[t].product IN
  /\ pc[t] = "write" /\ Does(t, {"DeleteProduct"})
  /\ Decide(t, product[p] = "live", "invalidate")
  /\ product' = [product EXCEPT ![p] = IF @ = "live" THEN "deleted" ELSE @]
  /\ UNCHANGED <<inCategory, category, parent, warehouse, stock, cached, disturbed>>

\* The category is not looked at: it may have been deleted in the meantime.
RestoreProduct(t) ==
  LET p == call[t].product IN
  /\ pc[t] = "write" /\ Does(t, {"RestoreProduct"})
  /\ Decide(t, product[p] = "deleted", "invalidate")
  /\ product' = [product EXCEPT ![p] = IF @ = "deleted" THEN "live" ELSE @]
  /\ UNCHANGED <<inCategory, category, parent, warehouse, stock, cached, disturbed>>

CreateCategory(t) ==
  LET c == call[t].category IN
  /\ pc[t] = "write" /\ Does(t, {"CreateCategory"})
  /\ Decide(t, category[c] = "absent", "invalidate")
  /\ \/ /\ category[c] = "absent"
        /\ category' = [category EXCEPT ![c] = "live"]
        /\ parent' = [parent EXCEPT ![c] = call[t].parent]
     \/ category[c] # "absent" /\ UNCHANGED <<category, parent>>
  /\ UNCHANGED <<product, inCategory, warehouse, stock, cached, disturbed>>

\* Looks for the row once more, then the UPDATE, whose RowsAffected nobody asks for,
\* and the row is read back.  A parent can be changed and not be taken away: an
\* empty parent_id is left out of the UPDATE like one that is not given.
UpdateCategory(t) ==
  LET c == call[t].category IN
  /\ pc[t] = "write" /\ Does(t, {"UpdateCategory"})
  /\ parent' = IF category[c] = "live" /\ call[t].parent # None
               THEN [parent EXCEPT ![c] = call[t].parent] ELSE parent
  /\ \/ Goto(t, "invalidate")
     \/ category[c] # "live" /\ Goto(t, "failed")
  /\ UNCHANGED <<product, inCategory, category, warehouse, stock, cached, disturbed>>

SoftDeleteCategory(t) ==
  LET c == call[t].category IN
  /\ pc[t] = "write" /\ Does(t, {"DeleteCategory"})
  /\ Decide(t, category[c] = "live", "invalidate")
  /\ category' = [category EXCEPT ![c] = IF @ = "live" THEN "deleted" ELSE @]
  /\ UNCHANGED <<product, inCategory, parent, warehouse, stock, cached, disturbed>>

Activity(t) == IF call[t].active THEN "active" ELSE "inactive"

CreateWarehouse(t) ==
  LET w == call[t].warehouse IN
  /\ pc[t] = "write" /\ Does(t, {"CreateWarehouse"})
  /\ Decide(t, warehouse[w] = "absent", "ok")
  /\ warehouse' = [warehouse EXCEPT ![w] = IF @ = "absent" THEN Activity(t) ELSE @]
  /\ UNCHANGED <<product, inCategory, category, parent, stock, cached, disturbed>>

\* FAULTY: the UPDATE finds a deleted warehouse, too.
UpdateAnyWarehouse(t) ==
  LET w == call[t].warehouse IN
  /\ pc[t] = "write" /\ Does(t, {"UpdateWarehouse"})
  /\ warehouse' = [warehouse EXCEPT ![w] = Activity(t)]
  /\ Goto(t, "invalidate")
  /\ UNCHANGED <<product, inCategory, category, parent, stock, cached, disturbed>>

\* Deactivates a warehouse whatever is in stock there; like UpdateProduct it
\* answers with a success in any case.
UpdateWarehouse(t) ==
  LET w == call[t].warehouse IN
  /\ pc[t] = "write" /\ Does(t, {"UpdateWarehouse"})
  /\ warehouse' = [warehouse EXCEPT ![w] = IF Exists(w) THEN Activity(t) ELSE @]
  /\ Goto(t, "invalidate")
  /\ UNCHANGED <<product, inCategory, category, parent, stock, cached, disturbed>>

SoftDeleteWarehouse(t) ==
  LET w == call[t].warehouse IN
  /\ pc[t] = "write" /\ Does(t, {"DeleteWarehouse"})
  /\ Decide(t, Exists(w), "invalidate")
  /\ warehouse' = [warehouse EXCEPT ![w] = IF Exists(w) THEN "deleted" ELSE @]
  /\ UNCHANGED <<product, inCategory, category, parent, stock, cached, disturbed>>

\* FAULTY: no floor.
CommitOverdraft(t) ==
  LET k == <<call[t].warehouse, call[t].product>> IN
  /\ pc[t] = "write" /\ Does(t, {"ConfirmMovement"})
  /\ Goto(t, "invalidate")
  /\ stock' = [stock EXCEPT ![k] = @ + call[t].qty]
  /\ UNCHANGED <<product, inCategory, category, parent, warehouse, cached, disturbed>>

\* The confirmation commits, if the quantity allows (module Movement).
CommitMovement(t) ==
  LET k == <<call[t].warehouse, call[t].product>>
      fits == stock[k] + call[t].qty \in 0 .. MaxStock
  IN
  /\ pc[t] = "write" /\ Does(t, {"ConfirmMovement"})
  /\ Decide(t, fits, "invalidate")
  /\ stock' = [stock EXCEPT ![k] = IF fits THEN @ + call[t].qty ELSE @]
  /\ UNCHANGED <<product, inCategory, category, parent, warehouse, cached, disturbed>>

-----------------------------------------------------------------------------
\* FAULTY: a write leaves the cache alone.
InvalidateNothing(t) ==
  /\ pc[t] = "invalidate"
  /\ Goto(t, "ok")
  /\ UNCHANGED <<rows, cached, disturbed>>

\* Writes of products and categories and confirmations drop all product entries
\* (PatternProducts).  Errors of Redis are ignored, and some of the entries stay.
Invalidate(t) ==
  /\ pc[t] = "invalidate"
  /\ \/ Does(t, {"UpdateWarehouse", "DeleteWarehouse"}) /\ UNCHANGED <<cached, disturbed>>
     \/ /\ ~Does(t, {"UpdateWarehouse", "DeleteWarehouse"})
        /\ cached' \in SUBSET cached
        /\ disturbed' = (disturbed \/ cached' # {})
  /\ Goto(t, "ok")
  /\ UNCHANGED rows

\* An error of the database, a cancelled context or a crash.  After the write, when
\* the row is read back or the cache is to be cleared, it leaves the entries there.
Fail(t) ==
  /\ pc[t] \in Running
  /\ Goto(t, IF pc[t] = "invalidate" THEN "written" ELSE "failed")
  /\ disturbed' = (disturbed \/ pc[t] = "invalidate")
  /\ UNCHANGED <<rows, cached>>

Step(t) ==
  \/ CacheGet(t) \/ GetProductByID(t) \/ CacheSet(t)
  \/ EnsureCategory(t) \/ EnsureParent(t) \/ GetByID(t) \/ CheckUnused(t) \/ ValidateWarehousesActive(t)
  \/ CreateProduct(t) \/ UpdateProduct(t) \/ SoftDeleteProduct(t) \/ RestoreProduct(t)
  \/ CreateCategory(t) \/ UpdateCategory(t) \/ SoftDeleteCategory(t)
  \/ CreateWarehouse(t) \/ UpdateWarehouse(t) \/ SoftDeleteWarehouse(t)
  \/ CommitMovement(t)
  \/ Invalidate(t)

Next ==
  \/ \E t \in Requests : (\E o \in Ops : Call(t, o)) \/ Step(t) \/ Fail(t)
  \/ \E p \in Products : Expire(p)

Spec == Init /\ [][Next]_vars

-----------------------------------------------------------------------------
\* Properties

\* Handlers that come one after the other, whatever they are, never leave stock of
\* a deleted product or in a deleted warehouse, although a confirmation believes
\* the cache about products.
CalmStockIsLive ==
  ~disturbed => \A k \in Keys : stock[k] > 0 =>
    warehouse[k[1]] # "deleted" /\ product[k[2]] = "live"

\* Of concurrent deletions of a row one succeeds, and another one only after a
\* restore; nothing but a restore brings the row back, no update that had read it
\* before.
Wrote(ops) == {t \in Requests : Does(t, ops) /\ pc[t] \in {"invalidate", "written", "ok"}}
DeletionsAnswered(D, R, isDeleted) ==
  /\ Cardinality(D) <= Cardinality(R) + 1
  /\ Cardinality(R) <= Cardinality(D) + 1
  /\ D # {} /\ R = {} => isDeleted
DeletedOnce ==
  /\ \A p \in Products :
       DeletionsAnswered({t \in Wrote({"DeleteProduct"}) : call[t].product = p},
                         {t \in Wrote({"RestoreProduct"}) : call[t].product = p},
                         product[p] = "deleted")
  /\ \A c \in Categories :
       DeletionsAnswered({t \in Wrote({"DeleteCategory"}) : call[t].category = c}, {},
                         category[c] = "deleted")
  /\ \A w \in Warehouses :
       DeletionsAnswered({t \in Wrote({"DeleteWarehouse"}) : call[t].warehouse = w}, {},
                         warehouse[w] = "deleted")

\* A category is empty when it is deleted in calm; it may get products afterwards
\* in no other way than by a restore, and it is made the parent of no category.
\* (Its children keep it as their parent: DeleteCategory counts products only.)
CategoryLeft(c) == category[c] = "live" /\ category'[c] = "deleted"
Joined(p, c) == p \in LiveIn(c)' /\ p \notin LiveIn(c)
CalmCategoriesEmpty ==
  [][~disturbed' => \A c \in Categories :
       /\ CategoryLeft(c) => LiveIn(c) = {}
       /\ category[c] = "deleted" => \A p \in Products : Joined(p, c) => product[p] = "deleted"
       /\ \A d \in Categories : parent'[d] = c /\ parent[d] # c => category[c] = "live" /\ d # c]_vars
=============================================================================
