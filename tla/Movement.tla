------------------------------ MODULE Movement ------------------------------
(***************************************************************************)
(* Confirming and cancelling stock movements: the handlers ConfirmMovement *)
(* and CancelMovement of the movement usecase, run by concurrent HTTP      *)
(* requests against one PostgreSQL database under READ COMMITTED.          *)
(*                                                                         *)
(* A confirmation is one database transaction.  It locks the movement's    *)
(* header, then, line by line, the stock_balances rows of that line        *)
(* (SELECT ... FOR UPDATE), writes the new quantities, changes the status, *)
(* and inserts audit and outbox rows; nothing of it is visible before the  *)
(* commit, and any error undoes it.  A step of the model ends where the    *)
(* transaction may have to wait for a lock or hands control back; what it  *)
(* does between two such points only touches rows it holds.                *)
(*                                                                         *)
(* Handlers share one pool of connections.  A transaction keeps its own to *)
(* its end and looks warehouses and products up on a second one.           *)
(*                                                                         *)
(* Definitions marked FAULTY are not part of the specification.  Each is   *)
(* the definition after it with a plausible slip, kept to show that the    *)
(* properties notice.                                                      *)
(***************************************************************************)
EXTENDS Integers, Sequences, FiniteSets

CONSTANTS
  Requests,     \* HTTP requests, each one call of confirm or cancel
  Movements,    \* movement documents
  Warehouses,   \* warehouse ids, integers so that they are ordered
  Products,     \* product ids, integers too
  Lines,        \* ids of movement lines
  Doc,          \* Doc[m]: type, src, dst and lines of movement m
  Item,         \* Item[ln]: product and qty of a line
  MaxQty,       \* math.MaxInt32
  PoolSize,     \* SetMaxOpenConns
  OpeningRows,  \* stock_balances rows that exist at the start
  Opening,      \* their quantities, 0 for the rows that do not exist
  ReorderLevel, \* ReorderLevel[p], 0 when alerts are off
  Net,          \* Net[m][S][k]: what the lines S of m add up to on row k
  None          \* no request, no warehouse, no line

Keys == Warehouses \X Products

Types == {"inbound", "outbound", "transfer", "adjustment"}
Documents == [type : Types, src : Warehouses \cup {None},
              dst : Warehouses \cup {None}, lines : SUBSET Lines]

\* chk_movement_warehouses of the schema and validateMovementWarehouses, which
\* also wants exactly one warehouse on an adjustment.
ValidateMovementWarehouses(d) ==
  CASE d.type = "inbound"    -> d.src = None /\ d.dst # None
    [] d.type = "outbound"   -> d.src # None /\ d.dst = None
    [] d.type = "transfer"   -> d.src # None /\ d.dst # None /\ d.src # d.dst
    [] d.type = "adjustment" -> (d.src = None) # (d.dst = None)

\* What line ln of movement m does to row k.
Delta(m, ln, k) ==
  IF k[2] # Item[ln].product THEN 0
  ELSE IF k[1] = Doc[m].dst THEN Item[ln].qty
  ELSE IF k[1] = Doc[m].src THEN -Item[ln].qty
  ELSE 0

ASSUME SetsAssumption ==
  /\ Warehouses \subseteq Int /\ Products \subseteq Int
  /\ None \notin Warehouses /\ None \notin Requests /\ None \notin Lines
  /\ MaxQty \in Nat /\ PoolSize \in Nat

ASSUME DocAssumption ==
  /\ Doc \in [Movements -> Documents]
  /\ \A m \in Movements : ValidateMovementWarehouses(Doc[m])
  /\ Item \in [Lines -> [product : Products, qty : Nat \ {0}]]

ASSUME OpeningAssumption ==
  /\ OpeningRows \subseteq Keys
  /\ Opening \in [Keys -> 0 .. MaxQty]
  /\ \A k \in Keys \ OpeningRows : Opening[k] = 0
  /\ ReorderLevel \in [Products -> Nat]

\* Net is the sum of Delta over a set of lines.  It is characterised instead of
\* defined: for finite sets of lines these equations have exactly one solution.
ASSUME NetAssumption ==
  \A m \in Movements :
    /\ Net[m] \in [SUBSET Doc[m].lines -> [Keys -> Int]]
    /\ \A k \in Keys : Net[m][{}][k] = 0
    /\ \A S \in SUBSET Doc[m].lines : \A ln \in Doc[m].lines \ S : \A k \in Keys :
         Net[m][S \cup {ln}][k] = Net[m][S][k] + Delta(m, ln, k)

-----------------------------------------------------------------------------
VARIABLES
  \* committed tables
  status,    \* movements.status
  rows,      \* the stock_balances rows that exist
  stock,     \* stock_balances.quantity
  outbox,    \* outbox_events
  audit,     \* audit_logs, as <<action, movement>>
  nextId,    \* the BIGSERIAL of outbox_events; a rollback does not give ids back
  \* locks and uncommitted versions
  headLock,  \* the request whose transaction holds the row of a movement
  rowLock,   \* the same for stock_balances rows
  work,      \* quantities as the lock holder sees them
  batch,     \* outbox rows inserted by an open transaction
  \* requests
  op,        \* "confirm", "cancel" or None
  target,    \* the movement, or None
  pc,        \* where the handler is
  line,      \* the line being applied
  plan,      \* the rows still to be locked for that line
  done,      \* the lines already applied
  changes,   \* []stockQtyChange
  \* Redis
  feed       \* stock notifications published, as movements

tables == <<status, rows, stock, outbox, audit>>
txState == <<headLock, rowLock, work, batch>>
progress == <<line, plan, done, changes>>
vars == <<tables, nextId, txState, op, target, pc, progress, feed>>

Changes == [key : Keys, old : Int, new : Int]

OutboxRows ==
  [type : {"MovementCreated"}, id : Nat, mv : Movements]
    \cup [type : {"StockChanged"}, id : Nat, mv : Movements, key : Keys,
          old : Int, new : Int, low : BOOLEAN]

\* Inside RunInTx, after the header lock.
InTx == {"check", "lines", "rows", "emit", "commit"}
Running == InTx \cup {"begin", "lock", "publish", "read", "update", "cas", "audit"}
Answered == {"ok", "failed"}

MovementTypeOK ==
  /\ status \in [Movements -> {"draft", "confirmed", "cancelled"}]
  /\ rows \subseteq Keys
  /\ stock \in [Keys -> 0 .. MaxQty]
  /\ outbox \subseteq OutboxRows
  /\ audit \subseteq {"confirm", "cancel"} \X Movements
  /\ nextId \in Nat
  /\ headLock \in [Movements -> Requests \cup {None}]
  /\ rowLock \in [Keys -> Requests \cup {None}]
  /\ work \in [Keys -> 0 .. MaxQty]
  /\ batch \in [Requests -> SUBSET OutboxRows]
  /\ op \in [Requests -> {"confirm", "cancel", None}]
  /\ target \in [Requests -> Movements \cup {None}]
  /\ pc \in [Requests -> {"idle"} \cup Running \cup Answered]
  /\ line \in [Requests -> Lines \cup {None}]
  /\ plan \in [Requests -> Seq(Keys)]
  /\ done \in [Requests -> SUBSET Lines]
  /\ changes \in [Requests -> Seq(Changes)]
  /\ feed \in Seq(Movements)

Init ==
  /\ status = [m \in Movements |-> "draft"]
  /\ rows = OpeningRows
  /\ stock = Opening
  /\ outbox = {}
  /\ audit = {}
  /\ nextId = 1
  /\ headLock = [m \in Movements |-> None]
  /\ rowLock = [k \in Keys |-> None]
  /\ work = Opening
  /\ batch = [t \in Requests |-> {}]
  /\ op = [t \in Requests |-> None]
  /\ target = [t \in Requests |-> None]
  /\ pc = [t \in Requests |-> "idle"]
  /\ line = [t \in Requests |-> None]
  /\ plan = [t \in Requests |-> <<>>]
  /\ done = [t \in Requests |-> {}]
  /\ changes = [t \in Requests |-> <<>>]
  /\ feed = <<>>

-----------------------------------------------------------------------------
Goto(t, label) == pc' = [pc EXCEPT ![t] = label]

\* A request arrives.
Call(t, o, m) ==
  /\ pc[t] = "idle"
  /\ op' = [op EXCEPT ![t] = o]
  /\ target' = [target EXCEPT ![t] = m]
  /\ Goto(t, IF o = "confirm" THEN "begin" ELSE "read")
  /\ UNCHANGED <<tables, nextId, txState, progress, feed>>

\* Transactions, and the UPDATE of a cancellation, which may have to wait for a
\* lock, hold a connection.  Any other statement takes one for a moment; when there
\* is none left it waits, without a timeout.
Connected == {t \in Requests : pc[t] \in InTx \cup {"lock", "cas"}}
ConnectionFree == Cardinality(Connected) < PoolSize

\* BEGIN of a confirmation, or the UPDATE of a cancellation gets its connection.
Begin(t) ==
  /\ pc[t] \in {"begin", "update"}
  /\ ConnectionFree
  /\ Goto(t, IF pc[t] = "begin" THEN "lock" ELSE "cas")
  /\ UNCHANGED <<tables, nextId, txState, op, target, progress, feed>>

\* The end of a transaction: row locks go, and with them the progress of t.
Release(t) ==
  /\ headLock' = [m \in Movements |-> IF headLock[m] = t THEN None ELSE headLock[m]]
  /\ rowLock' = [k \in Keys |-> IF rowLock[k] = t THEN None ELSE rowLock[k]]
  /\ batch' = [batch EXCEPT ![t] = {}]
  /\ line' = [line EXCEPT ![t] = None]
  /\ plan' = [plan EXCEPT ![t] = <<>>]
  /\ done' = [done EXCEPT ![t] = {}]

\* FAULTY: the error is returned and the transaction stays open.
RollbackForgotten(t) ==
  /\ Goto(t, "failed")
  /\ UNCHANGED <<tables, nextId, txState, op, target, progress, feed>>

\* ROLLBACK: the rows t held are again what was last committed.
Rollback(t) ==
  /\ Release(t)
  /\ work' = [k \in Keys |-> IF rowLock[k] = t THEN stock[k] ELSE work[k]]
  /\ changes' = [changes EXCEPT ![t] = <<>>]
  /\ Goto(t, "failed")
  /\ UNCHANGED <<tables, nextId, op, target, feed>>

-----------------------------------------------------------------------------
\* The locked read of the header; it waits for the holder and then sees what
\* that one committed.  Anything but a draft ends the transaction.
GetByIDForUpdate(t) ==
  /\ pc[t] = "lock"
  /\ headLock[target[t]] = None
  /\ \/ /\ status[target[t]] = "draft"
        /\ headLock' = [headLock EXCEPT ![target[t]] = t]
        /\ Goto(t, "check")
     \/ /\ status[target[t]] # "draft"
        /\ Goto(t, "failed")
        /\ UNCHANGED headLock
  /\ UNCHANGED <<tables, nextId, rowLock, work, batch, op, target, progress, feed>>

\* Both warehouses are active; Fail is the other outcome.  GetWarehouse knows
\* nothing of the transaction.
ValidateWarehousesActive(t) ==
  /\ pc[t] = "check"
  /\ ConnectionFree
  /\ Goto(t, "lines")
  /\ UNCHANGED <<tables, nextId, txState, op, target, progress, feed>>

\* OrderedWarehouseProduct on two rows of one product.
Ordered(a, b) == IF a[1] < b[1] THEN <<a, b>> ELSE <<b, a>>

\* The rows a line locks, in the order of the statements.  A transfer makes sure
\* of the destination row before TransferDelta orders its two locks.
LockPlan(m, ln) ==
  LET src == <<Doc[m].src, Item[ln].product>>
      dst == <<Doc[m].dst, Item[ln].product>>
  IN IF Doc[m].src = None THEN <<dst>>
     ELSE IF Doc[m].dst = None THEN <<src>>
     ELSE <<dst, Ordered(src, dst)[1], Ordered(src, dst)[2]>>

\* Lines of one movement share their created_at, by which they are sorted: they
\* come in any order.
NextLine(t, ln) ==
  /\ pc[t] = "lines"
  /\ ln \in Doc[target[t]].lines \ done[t]
  /\ line' = [line EXCEPT ![t] = ln]
  /\ plan' = [plan EXCEPT ![t] = LockPlan(target[t], ln)]
  /\ Goto(t, "rows")
  /\ UNCHANGED <<tables, nextId, txState, op, target, done, changes, feed>>

\* EnsureBalanceRow inserts the row of the destination when there is none, and an
\* uncommitted row is seen by nobody else.
Ensures(t, k) == k[1] = Doc[target[t]].dst
Sees(t, k) == k \in rows \/ rowLock[k] = t

\* FAULTY: a plain SELECT, which waits for nobody.
GetBalanceRow(t) ==
  /\ pc[t] = "rows" /\ plan[t] # <<>>
  /\ LET k == Head(plan[t]) IN
       /\ Sees(t, k) \/ Ensures(t, k)
       /\ rowLock' = [rowLock EXCEPT ![k] = t]
  /\ plan' = [plan EXCEPT ![t] = Tail(plan[t])]
  /\ UNCHANGED <<tables, nextId, headLock, work, batch, op, target, pc, line, done,
                 changes, feed>>

\* SELECT ... FOR UPDATE of the next row, after the insert where there is one.
GetBalanceRowForUpdate(t) ==
  /\ pc[t] = "rows" /\ plan[t] # <<>>
  /\ LET k == Head(plan[t]) IN
       /\ rowLock[k] \in {None, t}
       /\ Sees(t, k) \/ Ensures(t, k)
       /\ rowLock' = [rowLock EXCEPT ![k] = t]
  /\ plan' = [plan EXCEPT ![t] = Tail(plan[t])]
  /\ UNCHANGED <<tables, nextId, headLock, work, batch, op, target, pc, line, done,
                 changes, feed>>

\* No such row to take from: ErrNotFound, answered as ErrInsufficient.
MapStockNotFound(t) ==
  /\ pc[t] = "rows" /\ plan[t] # <<>>
  /\ ~Sees(t, Head(plan[t])) /\ ~Ensures(t, Head(plan[t]))
  /\ Rollback(t)

\* The rows a line changes, the source of a transfer first.
Touched(m, ln) ==
  LET src == <<Doc[m].src, Item[ln].product>>
      dst == <<Doc[m].dst, Item[ln].product>>
  IN IF Doc[m].src = None THEN <<dst>>
     ELSE IF Doc[m].dst = None THEN <<src>>
     ELSE <<src, dst>>

\* FAULTY: old quantities read outside the transaction.
LineChangesFromCommitted(t) ==
  LET ks == Touched(target[t], line[t]) IN
  [i \in DOMAIN ks |->
     [key |-> ks[i], old |-> stock[ks[i]],
      new |-> stock[ks[i]] + Delta(target[t], line[t], ks[i])]]

LineChanges(t) ==
  LET ks == Touched(target[t], line[t]) IN
  [i \in DOMAIN ks |->
     [key |-> ks[i], old |-> work[ks[i]],
      new |-> work[ks[i]] + Delta(target[t], line[t], ks[i])]]

\* FAULTY: an overdraft is not noticed.
FitsWithoutFloor(t) ==
  \A k \in Keys : work[k] + Delta(target[t], line[t], k) <= MaxQty

Fits(t) ==
  \A k \in Keys : work[k] + Delta(target[t], line[t], k) \in 0 .. MaxQty

\* applyQuantity on every row of the line, all of them locked by now.
ApplyLine(t) ==
  /\ pc[t] = "rows" /\ plan[t] = <<>>
  /\ Fits(t)
  /\ work' = [k \in Keys |-> work[k] + Delta(target[t], line[t], k)]
  /\ changes' = [changes EXCEPT ![t] = @ \o LineChanges(t)]
  /\ done' = [done EXCEPT ![t] = @ \cup {line[t]}]
  /\ line' = [line EXCEPT ![t] = None]
  /\ Goto(t, "lines")
  /\ UNCHANGED <<tables, nextId, headLock, rowLock, batch, op, target, plan, feed>>

\* ErrInsufficient below zero, a validation error above MaxQty.
RejectQuantity(t) ==
  /\ pc[t] = "rows" /\ plan[t] = <<>>
  /\ ~Fits(t)
  /\ Rollback(t)

\* UPDATE ... WHERE status = 'draft' and the audit row, still private to t.
UpdateStatus(t) ==
  /\ pc[t] = "lines"
  /\ done[t] = Doc[target[t]].lines
  /\ status[target[t]] = "draft"
  /\ Goto(t, "emit")
  /\ UNCHANGED <<tables, nextId, txState, op, target, progress, feed>>

\* One MovementCreated row, one StockChanged row per change; "low" says that a
\* StockBelowThreshold row comes with it.  The ids of one confirmation are a block
\* here; those of two at the same time may alternate, but then the two share no
\* stock row, and ids are compared within a stock row only.
EventRows(t) ==
  {[type |-> "MovementCreated", id |-> nextId, mv |-> target[t]]}
    \cup {[type |-> "StockChanged", id |-> nextId + i, mv |-> target[t],
           key |-> changes[t][i].key, old |-> changes[t][i].old,
           new |-> changes[t][i].new,
           low |-> changes[t][i].new < ReorderLevel[changes[t][i].key[2]]] :
             i \in DOMAIN changes[t]}

\* FAULTY: the rows are inserted on a connection of their own.
EmitOutboxOutsideTx(t) ==
  /\ pc[t] = "emit"
  /\ outbox' = outbox \cup EventRows(t)
  /\ nextId' = nextId + Len(changes[t]) + 1
  /\ Goto(t, "commit")
  /\ UNCHANGED <<status, rows, stock, audit, txState, op, target, progress, feed>>

\* FAULTY: listeners are told before the commit.
EmitOutboxAndPublish(t) ==
  /\ pc[t] = "emit"
  /\ batch' = [batch EXCEPT ![t] = EventRows(t)]
  /\ nextId' = nextId + Len(changes[t]) + 1
  /\ feed' = Append(feed, target[t])
  /\ Goto(t, "commit")
  /\ UNCHANGED <<tables, headLock, rowLock, work, op, target, progress>>

EmitOutbox(t) ==
  /\ pc[t] = "emit"
  /\ batch' = [batch EXCEPT ![t] = EventRows(t)]
  /\ nextId' = nextId + Len(changes[t]) + 1
  /\ Goto(t, "commit")
  /\ UNCHANGED <<tables, headLock, rowLock, work, op, target, progress, feed>>

\* GetProduct finds a product in the cache, or on a second connection.
EmitWithLookup(t) == ConnectionFree /\ EmitOutbox(t)

Commit(t) ==
  /\ pc[t] = "commit"
  /\ status' = [status EXCEPT ![target[t]] = "confirmed"]
  /\ stock' = [k \in Keys |-> IF rowLock[k] = t THEN work[k] ELSE stock[k]]
  /\ rows' = rows \cup {k \in Keys : rowLock[k] = t}
  /\ outbox' = outbox \cup batch[t]
  /\ audit' = audit \cup {<<"confirm", target[t]>>}
  /\ Release(t)
  /\ Goto(t, "publish")
  /\ UNCHANGED <<nextId, work, op, target, changes, feed>>

\* After the commit, unless nothing changed: the notification may be lost, its
\* error is dropped; only the read-back of the movement can spoil the answer now.
PublishStockChanged(t) ==
  /\ pc[t] = "publish"
  /\ ConnectionFree
  /\ \/ changes[t] # <<>> /\ feed' = Append(feed, target[t])
     \/ UNCHANGED feed
  /\ changes' = [changes EXCEPT ![t] = <<>>]
  /\ \E answer \in Answered : Goto(t, answer)
  /\ UNCHANGED <<tables, nextId, txState, op, target, line, plan, done>>

-----------------------------------------------------------------------------
\* CancelMovement reads the status without a lock ...
CancelRead(t) ==
  /\ pc[t] = "read"
  /\ ConnectionFree
  /\ Goto(t, IF status[target[t]] = "draft" THEN "update" ELSE "failed")
  /\ UNCHANGED <<tables, nextId, txState, op, target, progress, feed>>

\* FAULTY: the UPDATE trusts the status read before.
CancelUpdateAnyStatus(t) ==
  /\ pc[t] = "cas"
  /\ headLock[target[t]] = None
  /\ status' = [status EXCEPT ![target[t]] = "cancelled"]
  /\ Goto(t, "audit")
  /\ UNCHANGED <<rows, stock, outbox, audit, nextId, txState, op, target, progress, feed>>

\* ... and its UPDATE ... WHERE status = 'draft' waits for the header's holder and
\* looks again.
CancelUpdateStatus(t) ==
  /\ pc[t] = "cas"
  /\ headLock[target[t]] = None
  /\ \/ /\ status[target[t]] = "draft"
        /\ status' = [status EXCEPT ![target[t]] = "cancelled"]
        /\ Goto(t, "audit")
     \/ /\ status[target[t]] # "draft"
        /\ Goto(t, "failed")
        /\ UNCHANGED status
  /\ UNCHANGED <<rows, stock, outbox, audit, nextId, txState, op, target, progress, feed>>

\* The audit row of a cancellation is best effort.
CancelAudit(t) ==
  /\ pc[t] = "audit"
  /\ ConnectionFree
  /\ \/ audit' = audit \cup {<<"cancel", target[t]>>}
     \/ UNCHANGED audit
  /\ Goto(t, "ok")
  /\ UNCHANGED <<status, rows, stock, outbox, nextId, txState, op, target, progress, feed>>

-----------------------------------------------------------------------------
\* The row lock the request is waiting for belongs to u.
WaitsFor(t, u) ==
  /\ t # u
  /\ \/ pc[t] \in {"lock", "cas"} /\ headLock[target[t]] = u
     \/ /\ pc[t] = "rows" /\ plan[t] # <<>>
        /\ Sees(t, Head(plan[t])) \/ Ensures(t, Head(plan[t]))
        /\ rowLock[Head(plan[t])] = u

\* t is on a cycle of the waits-for graph.
Deadlocked(t) ==
  \E S \in SUBSET Requests :
    /\ t \in S
    /\ \A u \in S : (\E v \in S : WaitsFor(u, v)) /\ (\E v \in S : WaitsFor(v, u))

\* PostgreSQL aborts a transaction it finds on a cycle.
DeadlockDetected(t) == Deadlocked(t) /\ Rollback(t)

\* An error of the database, of the catalog or of the commit, an inactive
\* warehouse, a cancelled context or a crash of the server.  Past the commit
\* nothing is left to undo, only the answer is lost.
Fail(t) == pc[t] \in Running /\ Rollback(t)

Step(t) ==
  \/ Begin(t) \/ GetByIDForUpdate(t) \/ ValidateWarehousesActive(t)
  \/ (\E ln \in Lines : NextLine(t, ln))
  \/ GetBalanceRowForUpdate(t) \/ MapStockNotFound(t)
  \/ ApplyLine(t) \/ RejectQuantity(t)
  \/ UpdateStatus(t) \/ EmitWithLookup(t) \/ Commit(t) \/ PublishStockChanged(t)
  \/ CancelRead(t) \/ CancelUpdateStatus(t) \/ CancelAudit(t)
  \/ DeadlockDetected(t)

\* Every request has been answered.
Terminating == (\A t \in Requests : pc[t] \in Answered) /\ UNCHANGED vars

Next ==
  \/ \E t \in Requests :
       \/ \E o \in {"confirm", "cancel"}, m \in Movements : Call(t, o, m)
       \/ Step(t)
       \/ EmitOutbox(t)
       \/ Fail(t)
  \/ Terminating

Spec == Init /\ [][Next]_vars

\* A handler whose statement can run is scheduled, and the database grants a free
\* lock and looks for deadlocks; nobody has to call, nothing has to fail, and no
\* product has to be in the cache.
Fairness == \A t \in Requests : WF_vars(Step(t))
FairSpec == Spec /\ Fairness

-----------------------------------------------------------------------------
\* Properties

\* The effect of a movement as a whole, and the ledger this module implements.
Effect == [m \in Movements |-> Net[m][Doc[m].lines]]
Abstract == INSTANCE Ledger WITH balance <- stock

\* However requests interleave, fail or are aborted, the committed balances and
\* statuses move as the ledger allows: a whole draft at a time, each at most once,
\* never below zero or above MaxQty.
LedgerSpec == Abstract!Spec

Confirmed == {m \in Movements : status[m] = "confirmed"}
Created(m) == {r \in outbox : r.type = "MovementCreated" /\ r.mv = m}

\* The transactional outbox and the audit trail tell of exactly the confirmed
\* movements, each of them once, and no two rows share an id.
OutboxMatchesConfirmed ==
  /\ {r.mv : r \in outbox} = Confirmed
  /\ \A m \in Confirmed : \E r \in Created(m) : Created(m) = {r}
  /\ \A r1, r2 \in outbox : r1.id = r2.id => r1 = r2
  /\ {m \in Movements : <<"confirm", m>> \in audit} = Confirmed

StockEvents(k) == {r \in outbox : r.type = "StockChanged" /\ r.key = k}

\* The last quantity that events of row k with an id below n tell.
QuantityBefore(k, n) ==
  LET earlier == {r \in StockEvents(k) : r.id < n}
  IN IF earlier = {} THEN Opening[k]
     ELSE (CHOOSE r \in earlier : \A e \in earlier : e.id <= r.id).new

\* Read in the order of their ids, the StockChanged events of a row form a chain
\* from its opening quantity to the committed one: old_qty and new_qty let a
\* consumer follow the balance, although the ids come from a sequence that no
\* transaction locks.
StockChangedChain ==
  \A k \in Keys :
    /\ \A r \in StockEvents(k) : r.old = QuantityBefore(k, r.id)
    /\ stock[k] = QuantityBefore(k, nextId)

\* A success is answered to at most one of the requests about a movement, be they
\* confirmations or cancellations, and the status is the one that was asked for.
OneWinner ==
  \A t \in Requests : pc[t] = "ok" =>
    /\ status[target[t]] = IF op[t] = "confirm" THEN "confirmed" ELSE "cancelled"
    /\ \A u \in Requests \ {t} : pc[u] = "ok" => target[u] # target[t]

\* Listeners hear of a movement after its commit only, and not twice.
FeedAfterCommit ==
  \A i \in DOMAIN feed :
    /\ status[feed[i]] = "confirmed"
    /\ \A j \in DOMAIN feed : feed[i] = feed[j] => i = j

\* Whoever holds a row of the database is in a transaction that will end, so that
\* answered requests leave no lock and no uncommitted quantity behind.
LocksHaveOwners ==
  /\ \A m \in Movements : headLock[m] # None =>
       pc[headLock[m]] \in InTx /\ target[headLock[m]] = m
  /\ \A k \in Keys : rowLock[k] # None => pc[rowLock[k]] \in InTx \ {"check"}
  /\ \A k \in Keys : rowLock[k] = None => work[k] = stock[k]

\* Every connection is held by a handler that waits for a second one, or for a lock
\* that another of them holds.
PoolExhausted ==
  /\ ~ConnectionFree
  /\ \A t \in Connected : pc[t] \in {"check", "emit"} \/ \E u \in Connected : WaitsFor(t, u)

\* Every request is answered, as waiting for a lock ends in a grant or in an abort,
\* unless the transactions exhaust the pool: then they wait for each other's
\* connections, of which no detector knows.
Responds ==
  \A t \in Requests : pc[t] # "idle" ~> pc[t] \in Answered \/ []PoolExhausted

\* order.go promises a "deterministic lock ordering (avoids deadlocks on
\* transfer)": no two requests ever wait for each other.
NoDeadlock == \A t \in Requests : ~Deadlocked(t)
=============================================================================
