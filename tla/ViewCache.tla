------------------------------ MODULE ViewCache ------------------------------
(***************************************************************************)
(* The read-through cache of the inventory service: six kinds of views of  *)
(* a tenant's tables, kept in Redis with a time to live, filled by readers *)
(* on a miss and deleted by writers after their writes.  Neither side      *)
(* locks anything and every error of the cache is ignored.                 *)
(*                                                                         *)
(* No handler relates two views, so the model follows one of them, any.    *)
(* An entry is fresh if the tables still say what it says, as far as its   *)
(* view depends on them.                                                   *)
(*                                                                         *)
(* Definitions marked FAULTY are not part of the specification: each is    *)
(* the one after it with a plausible slip.                                 *)
(***************************************************************************)
EXTENDS Naturals, FiniteSets

CONSTANTS
  Requests,  \* request slots
  MayFail    \* whether Redis and the database may fail and processes crash

ASSUME CacheAssumption == MayFail \in BOOLEAN

Views == {"product", "products", "categories", "warehouses", "summary", "chart"}

\* The tables that the query behind a view reads.
Reads(v) ==
  CASE v = "product"    -> {"products"}
    [] v = "products"   -> {"products", "stock_balances"}
    [] v = "categories" -> {"categories"}
    [] v = "warehouses" -> {"warehouses"}
    [] v = "summary"    -> {"products", "warehouses", "movements", "stock_balances"}
    [] v = "chart"      -> {"movements"}

\* Handlers that write tables of some view.  "product" is the creation, the update,
\* the deletion or the restoring of one, "category" likewise, "warehouse" the update
\* or the deletion.  Drafts and cancelled movements are in no view.
Writers == {"product", "category", "createWarehouse", "warehouse", "confirm"}

Writes(o) ==
  CASE o = "product" -> {"products"}
    [] o = "category" -> {"categories"}
    [] o \in {"createWarehouse", "warehouse"} -> {"warehouses"}
    [] o = "confirm" -> {"movements", "stock_balances"}

\* FAULTY: the list of products is forgotten by confirmations.
DropsButProducts(o) ==
  CASE o = "product" -> {"product", "products", "summary"}
    [] o = "category" -> {"categories", "product", "products", "summary"}
    [] o = "createWarehouse" -> {}
    [] o = "warehouse" -> {"warehouses", "summary"}
    [] o = "confirm" -> {"summary", "chart"}

\* invalidateAfterProductWrite, ~CategoryWrite, ~WarehouseWrite and the end of
\* ConfirmMovement; the pattern of the products matches both kinds of product views.
\* CreateWarehouse deletes nothing.
Drops(o) ==
  CASE o = "product" -> {"product", "products", "summary"}
    [] o = "category" -> {"categories", "product", "products", "summary"}
    [] o = "createWarehouse" -> {}
    [] o = "warehouse" -> {"warehouses", "summary"}
    [] o = "confirm" -> {"summary", "chart", "product", "products"}

\* FAULTY: the chart has no time to live.
TTLButChart(v) ==
  CASE v = "product" -> 600
    [] v = "products" -> 300
    [] v \in {"categories", "warehouses"} -> 900
    [] v = "summary" -> 30
    [] v = "chart" -> 0

\* Seconds; an entry that is put with 0 stays until it is deleted.
TTL(v) ==
  CASE v = "product" -> 600
    [] v = "products" -> 300
    [] v \in {"categories", "warehouses"} -> 900
    [] v \in {"summary", "chart"} -> 30

VARIABLES
  view,   \* the view that is followed
  entry,  \* its entry in Redis: "none", "fresh" or "stale"
  op,     \* what the handler of a request is: "read" or a writer
  pc,     \* where it is
  copy,   \* what a reader has loaded and not yet put into the cache
  doubt,  \* the entry came too late or outlived its deletion (history)
  lacking \* a warehouse was created that the entry does not know of (history)

viewVars == <<view, entry, op, pc, copy, doubt, lacking>>

Affects(o) == Reads(view) \cap Writes(o) # {}

ViewTypeOK ==
  /\ view \in Views
  /\ entry \in {"none", "fresh", "stale"}
  /\ op \in [Requests -> Writers \cup {"read"}]
  /\ pc \in [Requests -> {"idle", "get", "load", "set", "write", "drop"}]
  /\ copy \in [Requests -> {"none", "fresh", "stale"}]
  /\ doubt \in BOOLEAN /\ lacking \in BOOLEAN
  /\ \A t \in Requests : copy[t] # "none" <=> pc[t] = "set"
  /\ doubt => entry = "stale"
  /\ lacking => entry = "stale" /\ view \in {"warehouses", "summary"}

ViewInit ==
  /\ view \in Views
  /\ entry = "none"
  /\ op = [t \in Requests |-> "read"]
  /\ pc = [t \in Requests |-> "idle"]
  /\ copy = [t \in Requests |-> "none"]
  /\ doubt = FALSE /\ lacking = FALSE

-----------------------------------------------------------------------------
Proceed(t, label) == pc' = [pc EXCEPT ![t] = label]

Call(t, o) ==
  /\ pc[t] = "idle"
  /\ op' = [op EXCEPT ![t] = o]
  /\ Proceed(t, IF o = "read" THEN "get" ELSE "write")
  /\ UNCHANGED <<view, entry, copy, doubt, lacking>>

\* A hit answers the request; an error is a miss.
CacheGet(t) ==
  /\ pc[t] = "get"
  /\ \/ entry # "none" /\ Proceed(t, "idle")
     \/ (entry = "none" \/ MayFail) /\ Proceed(t, "load")
  /\ UNCHANGED <<view, entry, op, copy, doubt, lacking>>

\* The query, or the first of its statements: what is written from now on it may
\* miss.
Load(t) ==
  /\ pc[t] = "load"
  /\ copy' = [copy EXCEPT ![t] = "fresh"]
  /\ Proceed(t, "set")
  /\ UNCHANGED <<view, entry, op, doubt, lacking>>

\* FAULTY: the loaded copy is kept for the next request of the handler.
CacheSetAndKeep(t) ==
  /\ pc[t] = "set"
  /\ entry' = copy[t]
  /\ doubt' = (copy[t] = "stale") /\ lacking' = FALSE
  /\ Proceed(t, "idle")
  /\ UNCHANGED <<view, op, copy>>

\* SET, over whatever is there; its error is dropped.
CacheSet(t) ==
  /\ pc[t] = "set"
  /\ \/ entry' = copy[t] /\ doubt' = (copy[t] = "stale") /\ lacking' = FALSE
     \/ MayFail /\ UNCHANGED <<entry, doubt, lacking>>
  /\ copy' = [copy EXCEPT ![t] = "none"]
  /\ Proceed(t, "idle")
  /\ UNCHANGED <<view, op>>

Expire ==
  /\ entry # "none"
  /\ TTL(view) > 0
  /\ entry' = "none"
  /\ doubt' = FALSE /\ lacking' = FALSE
  /\ UNCHANGED <<view, op, pc, copy>>

Aged(v) == IF v = "fresh" THEN "stale" ELSE v

\* The write makes entries and copies stale.
Write(t) ==
  /\ pc[t] = "write"
  /\ \/ /\ Affects(op[t])
        /\ entry' = Aged(entry)
        /\ copy' = [u \in Requests |-> Aged(copy[u])]
        /\ lacking' = (lacking \/ (op[t] = "createWarehouse" /\ entry = "fresh"))
     \/ ~Affects(op[t]) /\ UNCHANGED <<entry, copy, lacking>>
  /\ Proceed(t, IF view \in Drops(op[t]) THEN "drop" ELSE "idle")
  /\ UNCHANGED <<view, op, doubt>>

\* After the write, DEL or SCAN and DEL.
Drop(t) ==
  /\ pc[t] = "drop"
  /\ entry' = "none"
  /\ doubt' = FALSE /\ lacking' = FALSE
  /\ Proceed(t, "idle")
  /\ UNCHANGED <<view, op, copy>>

\* An error or a crash; when it hits the deletion, the entry stays.
Fail(t) ==
  /\ MayFail /\ pc[t] # "idle"
  /\ copy' = [copy EXCEPT ![t] = "none"]
  /\ doubt' = (doubt \/ (pc[t] = "drop" /\ entry = "stale"))
  /\ Proceed(t, "idle")
  /\ UNCHANGED <<view, entry, op, lacking>>

ViewNext ==
  \/ \E t \in Requests :
       \/ \E o \in Writers \cup {"read"} : Call(t, o)
       \/ CacheGet(t) \/ Load(t) \/ CacheSet(t)
       \/ Write(t) \/ Drop(t)
       \/ Fail(t)
  \/ Expire

ViewSpec == ViewInit /\ [][ViewNext]_viewVars

\* Redis removes what has expired.
FairViewSpec == ViewSpec /\ WF_viewVars(Expire)

-----------------------------------------------------------------------------
\* Properties

\* A stale entry has an excuse: a writer that made it stale has yet to delete it, a
\* reader that loaded before a write put it after the deletion, or a deletion failed.
Excused == doubt \/ \E t \in Requests : pc[t] = "drop" /\ Affects(op[t])

\* Every writer but CreateWarehouse deletes the views that it makes stale: an entry is
\* stale with an excuse, or it lacks a created warehouse.  That last case is what
\* WarehousesInvalidated is about.
StaleIsExplained == entry = "stale" => Excused \/ lacking

\* ARCHITECTURE.md says that the list of warehouses is invalidated "On warehouse
\* change".  Creating one is a change, and CreateWarehouse deletes nothing: the list is
\* stale although no handler is running and nothing has failed.
WarehousesInvalidated == view = "warehouses" /\ entry = "stale" => Excused

\* However an entry became stale, it does not stay: every SET has a time to live.
EventuallyRefreshed == entry = "stale" ~> entry # "stale"
=============================================================================
