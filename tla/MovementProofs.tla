--------------------------- MODULE MovementProofs ---------------------------
(***************************************************************************)
(* What holds of Movement for every number of requests, movements, rows    *)
(* and lines.  The first part has type correctness, the lock discipline,   *)
(* and that the commits of concurrent confirmations implement the ledger;  *)
(* the second what others see of them: answers, notifications, outbox.     *)
(*                                                                         *)
(* The argument.  A movement's header is held by at most one request, from *)
(* its first read to the end of its transaction, and stays a draft while   *)
(* it is held (HeaderHeld).  A row that is not held shows its committed    *)
(* quantity; a row held by t differs from it by what the lines that t has  *)
(* applied add up to, and those lines add up to nothing on every other row *)
(* (AppliedLines).  The last point needs that a line is applied only when  *)
(* all rows it changes are held (LineLocked).  So the commit moves every   *)
(* row by the effect of the whole document.                                *)
(***************************************************************************)
EXTENDS Movement, TLAPS

HeaderHeld ==
  \A t \in Requests :
    /\ pc[t] # "idle" => target[t] \in Movements
    /\ pc[t] \in InTx => headLock[target[t]] = t /\ status[target[t]] = "draft"

AppliedLines ==
  \A t \in Requests :
    /\ pc[t] \notin InTx \/ pc[t] = "check" => done[t] = {}
    /\ pc[t] \in InTx => done[t] \subseteq Doc[target[t]].lines
    /\ pc[t] \in {"emit", "commit"} => done[t] = Doc[target[t]].lines
    /\ pc[t] \in InTx => \A k \in Keys :
         IF rowLock[k] = t
           THEN work[k] = stock[k] + Net[target[t]][done[t]][k]
           ELSE Net[target[t]][done[t]][k] = 0

LineLocked ==
  \A t \in Requests : pc[t] = "rows" =>
    /\ line[t] \in Doc[target[t]].lines \ done[t]
    /\ \A k \in Keys : Delta(target[t], line[t], k) # 0 =>
         rowLock[k] = t \/ \E i \in 1 .. Len(plan[t]) : plan[t][i] = k

IInv ==
  /\ MovementTypeOK
  /\ LocksHaveOwners
  /\ HeaderHeld
  /\ AppliedLines
  /\ LineLocked

-----------------------------------------------------------------------------
\* Facts about the documents.

\* The lines of a movement are lines, and a line moves whole units.
LEMMA DeltaInt ==
  ASSUME NEW m \in Movements, NEW ln \in Doc[m].lines, NEW k \in Keys
  PROVE  ln \in Lines /\ Delta(m, ln, k) \in Int
<1>1. ln \in Lines
  BY DocAssumption DEF Documents
<1>2. Item[ln].qty \in Nat
  BY <1>1, DocAssumption
<1>3. QED
  BY <1>1, <1>2 DEF Delta

\* The rows a line changes are rows of the database, and all of them are in its
\* lock plan.
LEMMA PlanCovers ==
  ASSUME NEW m \in Movements, NEW ln \in Doc[m].lines
  PROVE  /\ LockPlan(m, ln) \in Seq(Keys)
         /\ \A k \in Keys : Delta(m, ln, k) # 0 =>
              \E i \in 1 .. Len(LockPlan(m, ln)) : LockPlan(m, ln)[i] = k
<1> DEFINE p == Item[ln].product
           src == <<Doc[m].src, p>>
           dst == <<Doc[m].dst, p>>
<1>1. /\ ln \in Lines /\ p \in Products
      /\ Doc[m] \in Documents /\ ValidateMovementWarehouses(Doc[m])
  BY DocAssumption DEF Documents
<1>2. /\ Doc[m].src # None => src \in Keys
      /\ Doc[m].dst # None => dst \in Keys
  BY <1>1 DEF Documents, Keys
<1>3. Doc[m].src # None \/ Doc[m].dst # None
  BY <1>1 DEF ValidateMovementWarehouses, Documents, Types
<1>4. ASSUME NEW k \in Keys, Delta(m, ln, k) # 0
      PROVE  \/ Doc[m].dst # None /\ k = dst
             \/ Doc[m].src # None /\ k = src
  BY <1>4, <1>1, SetsAssumption DEF Delta, Keys
<1>5. CASE Doc[m].src = None
  <2>1. LockPlan(m, ln) = <<dst>>
    BY <1>5 DEF LockPlan
  <2>2. QED
    BY <2>1, <1>2, <1>3, <1>4, <1>5
<1>6. CASE Doc[m].src # None /\ Doc[m].dst = None
  <2>1. LockPlan(m, ln) = <<src>>
    BY <1>6 DEF LockPlan
  <2>2. QED
    BY <2>1, <1>2, <1>4, <1>6
<1>7. CASE Doc[m].src # None /\ Doc[m].dst # None
  <2>1. \/ LockPlan(m, ln) = <<dst, src, dst>>
        \/ LockPlan(m, ln) = <<dst, dst, src>>
    BY <1>7 DEF LockPlan, Ordered
  <2>2. CASE LockPlan(m, ln) = <<dst, src, dst>>
    <3>1. /\ LockPlan(m, ln) \in Seq(Keys) /\ Len(LockPlan(m, ln)) = 3
          /\ LockPlan(m, ln)[1] = dst /\ LockPlan(m, ln)[2] = src
      BY <2>2, <1>2, <1>7
    <3>2. QED
      BY <3>1, <1>4
  <2>3. CASE LockPlan(m, ln) = <<dst, dst, src>>
    <3>1. /\ LockPlan(m, ln) \in Seq(Keys) /\ Len(LockPlan(m, ln)) = 3
          /\ LockPlan(m, ln)[1] = dst /\ LockPlan(m, ln)[3] = src
      BY <2>3, <1>2, <1>7
    <3>2. QED
      BY <3>1, <1>4
  <2>4. QED
    BY <2>1, <2>2, <2>3
<1>8. QED
  BY <1>5, <1>6, <1>7

\* What a set of lines adds up to is a whole number on every row.
LEMMA NetInt ==
  ASSUME NEW m \in Movements, NEW S \in SUBSET Doc[m].lines, NEW k \in Keys
  PROVE  Net[m][S][k] \in Int
<1>1. Net[m] \in [SUBSET Doc[m].lines -> [Keys -> Int]]
  BY NetAssumption
<1>2. Net[m][S] \in [Keys -> Int]
  BY <1>1
<1>3. QED
  BY <1>2

-----------------------------------------------------------------------------
\* The invariant holds at the start: nobody holds anything.
LEMMA InitIInv == Init => IInv
<1> SUFFICES ASSUME Init PROVE IInv
  OBVIOUS
<1> USE DEF Init
<1>1. MovementTypeOK
  BY OpeningAssumption, SetsAssumption DEF MovementTypeOK
<1>2. LocksHaveOwners
  BY DEF LocksHaveOwners
<1>3. HeaderHeld /\ AppliedLines /\ LineLocked
  BY DEF HeaderHeld, AppliedLines, LineLocked, InTx
<1>4. QED
  BY <1>1, <1>2, <1>3 DEF IInv

-----------------------------------------------------------------------------
\* Every step keeps the invariant: one lemma per action.

\* A request that arrives holds nothing.
LEMMA CallIInv ==
  ASSUME IInv, NEW t \in Requests,
         NEW o \in {"confirm", "cancel"}, NEW m \in Movements, Call(t, o, m)
  PROVE  IInv'
<1> USE DEF IInv
<1>1. MovementTypeOK'
  BY DEF MovementTypeOK, Call, Goto, tables, txState, progress, InTx, Running, Answered
<1>2. LocksHaveOwners'
  BY DEF MovementTypeOK, LocksHaveOwners, HeaderHeld, Call, Goto, tables, txState, progress, InTx
<1>3. HeaderHeld'
  BY DEF MovementTypeOK, LocksHaveOwners, HeaderHeld, Call, Goto, tables, txState, progress, InTx
<1>4. AppliedLines'
  BY DEF MovementTypeOK, LocksHaveOwners, HeaderHeld, AppliedLines, LineLocked, Call, Goto, tables, txState, progress, InTx
<1>5. LineLocked'
  BY DEF MovementTypeOK, LocksHaveOwners, LineLocked, Call, Goto, tables, txState, progress, InTx
<1>6. QED
  BY <1>1, <1>2, <1>3, <1>4, <1>5

\* A rollback gives back what t held and restores the committed quantities.
LEMMA RollbackIInv ==
  ASSUME IInv, NEW t \in Requests, pc[t] # "idle", Rollback(t)
  PROVE  IInv'
<1> USE DEF IInv
<1>1. MovementTypeOK'
  BY DEF MovementTypeOK, Rollback, Goto, Release, tables, txState, progress, InTx, Running, Answered
<1>2. LocksHaveOwners'
  BY DEF MovementTypeOK, LocksHaveOwners, HeaderHeld, Rollback, Goto, Release, tables, txState, progress, InTx
<1>3. HeaderHeld'
  <2> SUFFICES ASSUME NEW u \in Requests
               PROVE  /\ pc'[u] # "idle" => target'[u] \in Movements
                      /\ pc'[u] \in InTx => /\ headLock'[target'[u]] = u
                                            /\ status'[target'[u]] = "draft"
    BY DEF HeaderHeld
  <2>1. CASE u = t
    <3>1. pc'[u] = "failed" /\ UNCHANGED target
      BY <2>1 DEF Rollback, Goto, MovementTypeOK
    <3>2. QED
      BY <2>1, <3>1 DEF InTx, HeaderHeld
  <2>2. CASE u # t
    <3>1. pc'[u] = pc[u] /\ UNCHANGED <<target, status>>
      BY <2>2 DEF Rollback, Goto, MovementTypeOK, tables
    <3>2. pc[u] \in InTx => pc[u] # "idle"
      BY DEF InTx
    <3>3. \A m \in Movements : headLock[m] # t => headLock'[m] = headLock[m]
      BY DEF Rollback, Release
    <3>4. QED
      BY <2>2, <3>1, <3>2, <3>3 DEF HeaderHeld
  <2>3. QED
    BY <2>1, <2>2
<1>4. AppliedLines'
  BY DEF MovementTypeOK, LocksHaveOwners, HeaderHeld, AppliedLines, LineLocked, Rollback, Goto, Release, tables, txState, progress, InTx
<1>5. LineLocked'
  BY DEF MovementTypeOK, LocksHaveOwners, LineLocked, Rollback, Goto, Release, tables, txState, progress, InTx
<1>6. QED
  BY <1>1, <1>2, <1>3, <1>4, <1>5

\* The header lock is taken when nobody has it, of a draft.
LEMMA GetByIDForUpdateIInv ==
  ASSUME IInv, NEW t \in Requests, GetByIDForUpdate(t)
  PROVE  IInv'
<1> DEFINE m == target[t]
<1> USE DEF IInv
<1>1. /\ m \in Movements /\ pc[t] = "lock" /\ headLock[m] = None
      /\ UNCHANGED <<tables, nextId, rowLock, work, batch, op, target, progress, feed>>
  BY DEF HeaderHeld, GetByIDForUpdate
<1>2. CASE /\ status[m] = "draft"
           /\ headLock' = [headLock EXCEPT ![m] = t]
           /\ pc' = [pc EXCEPT ![t] = "check"]
  <2>1. MovementTypeOK'
    BY <1>1, <1>2 DEF MovementTypeOK, tables, progress, Running, InTx
  <2>2. LocksHaveOwners'
    BY <1>1, <1>2 DEF MovementTypeOK, LocksHaveOwners, tables, InTx
  <2>3. HeaderHeld'
    BY <1>1, <1>2, SetsAssumption DEF MovementTypeOK, HeaderHeld, tables, InTx
  <2>4. AppliedLines'
    <3> SUFFICES ASSUME NEW u \in Requests PROVE AppliedLines!(u)'
      BY DEF AppliedLines
    <3>1. CASE u = t
      <4>1. /\ pc'[u] = "check" /\ done'[u] = {} /\ target'[u] = m
            /\ UNCHANGED <<rowLock, work, stock>>
        <5>1. pc[t] \notin InTx
          BY <1>1 DEF InTx
        <5>2. done[t] = {}
          BY <5>1 DEF AppliedLines
        <5>3. pc'[t] = "check"
          BY <1>2 DEF MovementTypeOK
        <5>4. UNCHANGED <<done, target, rowLock, work, stock>>
          BY <1>1 DEF tables, progress
        <5>5. QED
          BY <3>1, <5>2, <5>3, <5>4
      <4>2. \A k \in Keys : rowLock[k] # u
        BY <1>1, <3>1, SetsAssumption DEF LocksHaveOwners, InTx
      <4>3. \A k \in Keys : Net[m][{}][k] = 0
        BY <1>1, NetAssumption
      <4>4. QED
        BY <4>1, <4>2, <4>3
    <3>2. CASE u # t
      BY <1>1, <1>2, <3>2 DEF MovementTypeOK, AppliedLines, tables, progress
    <3>3. QED
      BY <3>1, <3>2
  <2>5. LineLocked'
    BY <1>1, <1>2 DEF MovementTypeOK, LineLocked, tables, progress
  <2>6. QED
    BY <2>1, <2>2, <2>3, <2>4, <2>5
<1>3. CASE UNCHANGED headLock /\ pc' = [pc EXCEPT ![t] = "failed"]
  <2>1. MovementTypeOK'
    BY <1>1, <1>3 DEF MovementTypeOK, tables, progress, Answered
  <2>2. LocksHaveOwners'
    BY <1>1, <1>3 DEF MovementTypeOK, LocksHaveOwners, tables, InTx
  <2>3. HeaderHeld'
    BY <1>1, <1>3 DEF MovementTypeOK, HeaderHeld, tables, InTx
  <2>4. AppliedLines'
    BY <1>1, <1>3 DEF MovementTypeOK, AppliedLines, tables, progress, InTx
  <2>5. LineLocked'
    BY <1>1, <1>3 DEF MovementTypeOK, LineLocked, tables, progress
  <2>6. QED
    BY <2>1, <2>2, <2>3, <2>4, <2>5
<1>4. QED
  BY <1>2, <1>3 DEF GetByIDForUpdate, Goto

\* Before the first line nothing is applied, which adds up to nothing.
LEMMA ValidateWarehousesActiveIInv ==
  ASSUME IInv, NEW t \in Requests, ValidateWarehousesActive(t)
  PROVE  IInv'
<1> USE DEF IInv
<1>1. MovementTypeOK'
  BY DEF MovementTypeOK, ValidateWarehousesActive, Goto, tables, txState, progress, InTx, Running, Answered
<1>2. LocksHaveOwners'
  BY DEF MovementTypeOK, LocksHaveOwners, HeaderHeld, ValidateWarehousesActive, Goto, tables, txState, progress, InTx
<1>3. HeaderHeld'
  BY DEF MovementTypeOK, LocksHaveOwners, HeaderHeld, ValidateWarehousesActive, Goto, tables, txState, progress, InTx
<1>4. AppliedLines'
  BY DEF MovementTypeOK, LocksHaveOwners, HeaderHeld, AppliedLines, LineLocked, ValidateWarehousesActive, Goto, tables, txState, progress, InTx
<1>5. LineLocked'
  BY DEF MovementTypeOK, LocksHaveOwners, LineLocked, ValidateWarehousesActive, Goto, tables, txState, progress, InTx
<1>6. QED
  BY <1>1, <1>2, <1>3, <1>4, <1>5

\* The plan of a new line has every row that the line changes.
LEMMA NextLineIInv ==
  ASSUME IInv, NEW t \in Requests, NEW ln \in Lines, NextLine(t, ln)
  PROVE  IInv'
<1> DEFINE m == target[t]
<1> USE DEF IInv
<1>1. /\ m \in Movements /\ ln \in Doc[m].lines \ done[t]
      /\ pc[t] = "lines" /\ pc' = [pc EXCEPT ![t] = "rows"]
      /\ line' = [line EXCEPT ![t] = ln]
      /\ plan' = [plan EXCEPT ![t] = LockPlan(m, ln)]
      /\ UNCHANGED <<tables, nextId, txState, op, target, done, changes, feed>>
  BY DEF NextLine, HeaderHeld, Goto
<1>2. MovementTypeOK'
  BY <1>1, PlanCovers DEF MovementTypeOK, tables, txState, Running, InTx
<1>3. LocksHaveOwners'
  BY <1>1 DEF MovementTypeOK, LocksHaveOwners, tables, txState, InTx
<1>4. HeaderHeld'
  BY <1>1 DEF MovementTypeOK, HeaderHeld, tables, txState, InTx
<1>5. AppliedLines'
  BY <1>1 DEF MovementTypeOK, AppliedLines, tables, txState, InTx
<1>6. LineLocked'
  <2> SUFFICES ASSUME NEW u \in Requests, pc'[u] = "rows"
               PROVE  LineLocked!(u)!2'
    BY DEF LineLocked
  <2>1. CASE u = t
    <3>1. line'[u] = ln /\ plan'[u] = LockPlan(m, ln) /\ target'[u] = m /\ done'[u] = done[u]
      BY <1>1, <2>1 DEF MovementTypeOK
    <3>2. QED
      BY <1>1, <2>1, <3>1, PlanCovers
  <2>2. CASE u # t
    BY <1>1, <2>2 DEF MovementTypeOK, LineLocked, txState
  <2>3. QED
    BY <2>1, <2>2
<1>7. QED
  BY <1>2, <1>3, <1>4, <1>5, <1>6

\* A row that is locked anew shows its committed quantity.
LEMMA GetBalanceRowForUpdateIInv ==
  ASSUME IInv, NEW t \in Requests, GetBalanceRowForUpdate(t)
  PROVE  IInv'
<1> DEFINE r == Head(plan[t])
<1> USE DEF IInv
<1>1. /\ pc[t] = "rows" /\ plan[t] # <<>> /\ rowLock[r] \in {None, t} /\ r \in Keys
      /\ rowLock' = [rowLock EXCEPT ![r] = t]
      /\ plan' = [plan EXCEPT ![t] = Tail(plan[t])]
      /\ UNCHANGED <<tables, nextId, headLock, work, batch, op, target, pc, line, done,
                     changes, feed>>
  BY DEF GetBalanceRowForUpdate, MovementTypeOK
<1>2. MovementTypeOK'
  BY <1>1 DEF MovementTypeOK, tables
<1>3. LocksHaveOwners'
  BY <1>1 DEF MovementTypeOK, LocksHaveOwners, tables, InTx
<1>4. HeaderHeld'
  BY <1>1 DEF MovementTypeOK, HeaderHeld, tables
<1>5. AppliedLines'
  <2> SUFFICES ASSUME NEW u \in Requests PROVE AppliedLines!(u)'
    BY DEF AppliedLines
  <2>1. /\ UNCHANGED <<pc, done, target, work, stock>>
        /\ \A k \in Keys : k # r => rowLock'[k] = rowLock[k]
        /\ rowLock'[r] = t
    BY <1>1 DEF MovementTypeOK, tables
  <2>2. /\ rowLock[r] # t => rowLock[r] = None /\ work[r] = stock[r]
        /\ u # t => rowLock[r] # u
    BY <1>1, SetsAssumption DEF LocksHaveOwners
  <2>3. stock[r] \in Int
    BY <1>1, SetsAssumption DEF MovementTypeOK
  <2>4. AppliedLines!(u)
    BY DEF AppliedLines
  <2>5. QED
    BY <2>1, <2>2, <2>3, <2>4, <1>1
<1>6. LineLocked'
  <2> SUFFICES ASSUME NEW u \in Requests, pc'[u] = "rows"
               PROVE  LineLocked!(u)!2'
    BY DEF LineLocked
  <2>1. LineLocked!(u)!2 /\ UNCHANGED <<line, done, target>>
    BY <1>1 DEF LineLocked
  <2>2. CASE u = t
    <3>1. plan[t] \in Seq(Keys) /\ plan'[t] = Tail(plan[t])
      BY <1>1 DEF MovementTypeOK
    <3>2. ASSUME NEW k \in Keys, NEW i \in 1 .. Len(plan[t]), plan[t][i] = k, k # r
          PROVE  \E j \in 1 .. Len(plan'[t]) : plan'[t][j] = k
      <4>1. i # 1
        BY <3>1, <3>2, <1>1
      <4>2. /\ i - 1 \in 1 .. Len(plan'[t]) /\ plan'[t][i - 1] = k
        BY <3>1, <3>2, <4>1, <1>1
      <4>3. QED
        BY <4>2
    <3>3. ASSUME NEW k \in Keys, Delta(target[t], line[t], k) # 0
          PROVE  rowLock'[k] = t \/ \E j \in 1 .. Len(plan'[t]) : plan'[t][j] = k
      <4>1. CASE k = r
        BY <4>1, <1>1 DEF MovementTypeOK
      <4>2. CASE k # r
        <5>1. rowLock[k] = t \/ \E i \in 1 .. Len(plan[t]) : plan[t][i] = k
          BY <2>1, <2>2, <3>3
        <5>2. rowLock'[k] = rowLock[k]
          BY <4>2, <1>1 DEF MovementTypeOK
        <5>3. QED
          BY <5>1, <5>2, <3>2, <4>2
      <4>3. QED
        BY <4>1, <4>2
    <3>4. QED
      BY <2>1, <2>2, <3>3 DEF Delta
  <2>3. CASE u # t
    <3>1. plan'[u] = plan[u] /\ \A k \in Keys : rowLock[k] = u => rowLock'[k] = u
      BY <1>1, <2>3, SetsAssumption DEF MovementTypeOK
    <3>2. QED
      BY <2>1, <3>1 DEF Delta
  <2>4. QED
    BY <2>2, <2>3
<1>7. QED
  BY <1>2, <1>3, <1>4, <1>5, <1>6

\* A line whose rows are all held moves them, and only them.
LEMMA ApplyLineIInv ==
  ASSUME IInv, NEW t \in Requests, ApplyLine(t)
  PROVE  IInv'
<1> DEFINE m == target[t]
           ln == line[t]
<1> USE DEF IInv
<1>1. /\ m \in Movements /\ ln \in Doc[m].lines \ done[t] /\ ln \in Lines
      /\ done[t] \subseteq Doc[m].lines
      /\ pc[t] = "rows" /\ pc' = [pc EXCEPT ![t] = "lines"]
      /\ plan[t] = <<>>
      /\ work' = [k \in Keys |-> work[k] + Delta(m, ln, k)]
      /\ done' = [done EXCEPT ![t] = @ \cup {ln}]
      /\ line' = [line EXCEPT ![t] = None]
      /\ UNCHANGED <<tables, nextId, headLock, rowLock, batch, op, target, plan, feed>>
  <2>1. m \in Movements /\ ln \in Doc[m].lines \ done[t] /\ done[t] \subseteq Doc[m].lines
    BY DEF ApplyLine, HeaderHeld, LineLocked, AppliedLines, InTx
  <2>2. Doc[m].lines \subseteq Lines
    BY <2>1, DocAssumption DEF Documents
  <2>3. QED
    BY <2>1, <2>2 DEF ApplyLine, Goto
<1>2. \A k \in Keys : Delta(m, ln, k) \in Int
  BY <1>1, DeltaInt
<1>3. \A k \in Keys : Delta(m, ln, k) # 0 => rowLock[k] = t
  <2>1. Len(plan[t]) = 0
    BY <1>1
  <2>2. QED
    BY <1>1, <2>1 DEF LineLocked
<1>4. LineChanges(t) \in Seq(Changes)
  <2>1. \A i \in DOMAIN Touched(m, ln) : Touched(m, ln)[i] \in Keys
    <3>1. /\ Doc[m].src # None => <<Doc[m].src, Item[ln].product>> \in Keys
          /\ Doc[m].dst # None => <<Doc[m].dst, Item[ln].product>> \in Keys
          /\ Doc[m].src # None \/ Doc[m].dst # None
      BY <1>1, DocAssumption DEF Documents, Keys, ValidateMovementWarehouses, Types
    <3>2. QED
      BY <3>1 DEF Touched
  <2>2. \E n \in Nat : DOMAIN Touched(m, ln) = 1 .. n
    <3>1. DOMAIN Touched(m, ln) = 1 .. 1 \/ DOMAIN Touched(m, ln) = 1 .. 2
      BY DEF Touched
    <3>2. QED
      BY <3>1
  <2>3. \A k \in Keys : work[k] \in Int
    BY SetsAssumption DEF MovementTypeOK
  <2>4. LineChanges(t) = [i \in DOMAIN Touched(m, ln) |->
           [key |-> Touched(m, ln)[i], old |-> work[Touched(m, ln)[i]],
            new |-> work[Touched(m, ln)[i]] + Delta(m, ln, Touched(m, ln)[i])]]
    BY DEF LineChanges
  <2>5. ASSUME NEW i \in DOMAIN Touched(m, ln)
        PROVE  [key |-> Touched(m, ln)[i], old |-> work[Touched(m, ln)[i]],
                new |-> work[Touched(m, ln)[i]] + Delta(m, ln, Touched(m, ln)[i])]
                  \in Changes
    <3> HIDE DEF m, ln
    <3> DEFINE k == Touched(m, ln)[i]
    <3>1. k \in Keys /\ work[k] \in Int /\ Delta(m, ln, k) \in Int
      BY <1>2, <2>1, <2>3, <2>5
    <3> HIDE DEF k
    <3>2. [key |-> k, old |-> work[k], new |-> work[k] + Delta(m, ln, k)] \in Changes
      BY <3>1 DEF Changes
    <3>3. QED
      BY <3>2 DEF k
  <2> HIDE DEF m, ln
  <2>6. QED
    BY <2>2, <2>4, <2>5
<1>5. MovementTypeOK'
  <2>1. work' \in [Keys -> 0 .. MaxQty]
    BY <1>1 DEF ApplyLine, Fits
  <2>2. changes' \in [Requests -> Seq(Changes)]
    BY <1>4 DEF MovementTypeOK, ApplyLine
  <2>3. done' \in [Requests -> SUBSET Lines]
    BY <1>1 DEF MovementTypeOK
  <2> HIDE DEF m, ln
  <2>4. QED
    BY <1>1, <2>1, <2>2, <2>3 DEF MovementTypeOK, tables, Running, InTx
<1>6. LocksHaveOwners'
  <2>1. \A k \in Keys : rowLock[k] = None => work'[k] = work[k]
    <3>1. ASSUME NEW k \in Keys, rowLock[k] = None PROVE work'[k] = work[k]
      <4>1. Delta(m, ln, k) = 0
        BY <3>1, <1>3, SetsAssumption
      <4>2. work[k] \in Int /\ work'[k] = work[k] + Delta(m, ln, k)
        BY <1>1, SetsAssumption DEF MovementTypeOK
      <4> HIDE DEF m, ln
      <4>3. QED
        BY <4>1, <4>2
    <3>2. QED
      BY <3>1
  <2> HIDE DEF m, ln
  <2>2. QED
    BY <1>1, <2>1 DEF MovementTypeOK, LocksHaveOwners, tables, InTx
<1>7. HeaderHeld'
  BY <1>1 DEF MovementTypeOK, HeaderHeld, tables, InTx
<1>8. AppliedLines'
  <2> SUFFICES ASSUME NEW u \in Requests PROVE AppliedLines!(u)'
    BY DEF AppliedLines
  <2>1. AppliedLines!(u) /\ UNCHANGED <<target, rowLock, stock>>
    BY <1>1 DEF AppliedLines, tables
  <2>2. CASE u = t
    <3>1. /\ pc'[u] = "lines" /\ done'[u] = done[t] \cup {ln}
          /\ done'[u] \subseteq Doc[m].lines
      BY <1>1, <2>2 DEF MovementTypeOK
    <3>2. ASSUME NEW k \in Keys
          PROVE  /\ Net[m][done'[u]][k] = Net[m][done[t]][k] + Delta(m, ln, k)
                 /\ Net[m][done[t]][k] \in Int /\ work[k] \in Int /\ stock[k] \in Int
                 /\ work'[k] = work[k] + Delta(m, ln, k)
      <4>1. Net[m][done[t] \cup {ln}][k] = Net[m][done[t]][k] + Delta(m, ln, k)
        <5>1. m \in Movements /\ done[t] \in SUBSET Doc[m].lines
              /\ ln \in Doc[m].lines \ done[t]
          BY <1>1
        <5> HIDE DEF m, ln
        <5>2. \A S \in SUBSET Doc[m].lines : \A x \in Doc[m].lines \ S : \A j \in Keys :
                Net[m][S \cup {x}][j] = Net[m][S][j] + Delta(m, x, j)
          BY <5>1, NetAssumption
        <5>3. QED
          BY <5>1, <5>2
      <4>2. Net[m][done[t]][k] \in Int
        BY <1>1, NetInt
      <4>3. work[k] \in Int /\ stock[k] \in Int
        BY SetsAssumption DEF MovementTypeOK
      <4>4. work'[k] = work[k] + Delta(m, ln, k)
        BY <1>1
      <4>5. QED
        BY <3>1, <4>1, <4>2, <4>3, <4>4
    <3>3. ASSUME NEW k \in Keys
          PROVE  IF rowLock[k] = t
                   THEN work[k] = stock[k] + Net[m][done[t]][k]
                   ELSE Net[m][done[t]][k] = 0
      BY <1>1, <2>1, <2>2 DEF InTx
    <3> HIDE DEF m, ln
    <3>4. ASSUME NEW k \in Keys
          PROVE  IF rowLock[k] = t
                   THEN work'[k] = stock[k] + Net[m][done'[u]][k]
                   ELSE Net[m][done'[u]][k] = 0
      <4>1. CASE rowLock[k] = t
        BY <1>2, <3>2, <3>3, <4>1
      <4>2. CASE rowLock[k] # t
        BY <1>2, <1>3, <3>2, <3>3, <4>2
      <4>3. QED
        BY <4>1, <4>2
    <3>5. QED
      BY <2>1, <2>2, <3>1, <3>4 DEF m, InTx
  <2>3. CASE u # t
    <3>1. \A k \in Keys : rowLock[k] = u => work'[k] = work[k]
      BY <1>1, <1>2, <1>3, <2>3, SetsAssumption DEF MovementTypeOK
    <3>2. pc'[u] = pc[u] /\ done'[u] = done[u]
      BY <1>1, <2>3 DEF MovementTypeOK
    <3> HIDE DEF m, ln
    <3>3. QED
      BY <2>1, <3>1, <3>2
  <2>4. QED
    BY <2>2, <2>3
<1>9. LineLocked'
  <2> HIDE DEF m, ln
  <2>1. QED
    BY <1>1 DEF MovementTypeOK, LineLocked, Delta
<1>10. QED
  BY <1>5, <1>6, <1>7, <1>8, <1>9

\* The status changes once all lines are applied.
LEMMA UpdateStatusIInv ==
  ASSUME IInv, NEW t \in Requests, UpdateStatus(t)
  PROVE  IInv'
<1> USE DEF IInv
<1>1. MovementTypeOK'
  BY DEF MovementTypeOK, UpdateStatus, Goto, tables, txState, progress, InTx, Running, Answered
<1>2. LocksHaveOwners'
  BY DEF MovementTypeOK, LocksHaveOwners, HeaderHeld, UpdateStatus, Goto, tables, txState, progress, InTx
<1>3. HeaderHeld'
  BY DEF MovementTypeOK, LocksHaveOwners, HeaderHeld, UpdateStatus, Goto, tables, txState, progress, InTx
<1>4. AppliedLines'
  BY DEF MovementTypeOK, LocksHaveOwners, HeaderHeld, AppliedLines, LineLocked, UpdateStatus, Goto, tables, txState, progress, InTx
<1>5. LineLocked'
  BY DEF MovementTypeOK, LocksHaveOwners, LineLocked, UpdateStatus, Goto, tables, txState, progress, InTx
<1>6. QED
  BY <1>1, <1>2, <1>3, <1>4, <1>5

\* Inserting events touches no balance.
LEMMA EmitOutboxIInv ==
  ASSUME IInv, NEW t \in Requests, EmitOutbox(t)
  PROVE  IInv'
<1> USE DEF IInv
<1>1. EventRows(t) \subseteq OutboxRows /\ nextId + Len(changes[t]) + 1 \in Nat
  <2>1. changes[t] \in Seq(Changes) /\ target[t] \in Movements /\ nextId \in Nat
    BY DEF EmitOutbox, MovementTypeOK, HeaderHeld
  <2>2. ASSUME NEW i \in DOMAIN changes[t]
        PROVE  /\ nextId + i \in Nat
               /\ changes[t][i] \in Changes
               /\ ReorderLevel[changes[t][i].key[2]] \in Nat
    <3>1. i \in Nat /\ changes[t][i] \in Changes
      BY <2>1, <2>2
    <3>2. changes[t][i].key[2] \in Products
      BY <3>1 DEF Changes, Keys
    <3>3. QED
      BY <2>1, <3>1, <3>2, OpeningAssumption
  <2>3. [type |-> "MovementCreated", id |-> nextId, mv |-> target[t]] \in OutboxRows
    BY <2>1 DEF OutboxRows
  <2>4. ASSUME NEW i \in DOMAIN changes[t]
        PROVE  [type |-> "StockChanged", id |-> nextId + i, mv |-> target[t],
                key |-> changes[t][i].key, old |-> changes[t][i].old,
                new |-> changes[t][i].new,
                low |-> changes[t][i].new < ReorderLevel[changes[t][i].key[2]]]
                 \in OutboxRows
    <3>1. /\ changes[t][i].key \in Keys /\ changes[t][i].old \in Int
          /\ changes[t][i].new \in Int
          /\ (changes[t][i].new < ReorderLevel[changes[t][i].key[2]]) \in BOOLEAN
      BY <2>2 DEF Changes
    <3>2. QED
      BY <2>1, <2>2, <3>1 DEF OutboxRows
  <2>5. Len(changes[t]) \in Nat
    BY <2>1
  <2>6. QED
    BY <2>1, <2>3, <2>4, <2>5 DEF EventRows
<1>2. MovementTypeOK'
  BY <1>1 DEF MovementTypeOK, EmitOutbox, Goto, tables, progress, Running, InTx
<1>3. LocksHaveOwners'
  BY DEF MovementTypeOK, LocksHaveOwners, EmitOutbox, Goto, tables, InTx
<1>4. HeaderHeld'
  BY DEF MovementTypeOK, HeaderHeld, EmitOutbox, Goto, tables, InTx
<1>5. AppliedLines'
  BY DEF MovementTypeOK, AppliedLines, EmitOutbox, Goto, tables, progress, InTx
<1>6. LineLocked'
  BY DEF MovementTypeOK, LineLocked, EmitOutbox, Goto, progress
<1>7. QED
  BY <1>2, <1>3, <1>4, <1>5, <1>6

\* The commit publishes what t held; other transactions hold other rows.
LEMMA CommitIInv ==
  ASSUME IInv, NEW t \in Requests, Commit(t)
  PROVE  IInv'
<1> DEFINE m == target[t]
<1> USE DEF IInv
<1>1. /\ m \in Movements
      /\ pc[t] = "commit" /\ pc' = [pc EXCEPT ![t] = "publish"]
      /\ status' = [status EXCEPT ![m] = "confirmed"]
      /\ stock' = [k \in Keys |-> IF rowLock[k] = t THEN work[k] ELSE stock[k]]
      /\ rows' = rows \cup {k \in Keys : rowLock[k] = t}
      /\ outbox' = outbox \cup batch[t]
      /\ audit' = audit \cup {<<"confirm", m>>}
      /\ Release(t)
      /\ UNCHANGED <<nextId, work, op, target, changes, feed>>
  BY DEF Commit, Goto, HeaderHeld
<1>2. headLock[m] = t
  BY <1>1 DEF HeaderHeld, InTx
<1>3. MovementTypeOK'
  <2>1. stock' \in [Keys -> 0 .. MaxQty] /\ rows' \subseteq Keys
    BY <1>1 DEF MovementTypeOK
  <2>2. outbox' \subseteq OutboxRows /\ audit' \subseteq {"confirm", "cancel"} \X Movements
    BY <1>1 DEF MovementTypeOK
  <2>3. /\ headLock' \in [Movements -> Requests \cup {None}]
        /\ rowLock' \in [Keys -> Requests \cup {None}]
        /\ batch' \in [Requests -> SUBSET OutboxRows]
        /\ line' \in [Requests -> Lines \cup {None}]
        /\ plan' \in [Requests -> Seq(Keys)]
        /\ done' \in [Requests -> SUBSET Lines]
    BY <1>1 DEF MovementTypeOK, Release
  <2>4. QED
    BY <1>1, <2>1, <2>2, <2>3 DEF MovementTypeOK, Running
<1>4. LocksHaveOwners'
  BY <1>1 DEF MovementTypeOK, LocksHaveOwners, Release, InTx
<1>5. HeaderHeld'
  BY <1>1, <1>2 DEF MovementTypeOK, HeaderHeld, Release, InTx
<1>6. AppliedLines'
  <2> SUFFICES ASSUME NEW u \in Requests PROVE AppliedLines!(u)'
    BY DEF AppliedLines
  <2>1. CASE u = t
    BY <1>1, <2>1 DEF MovementTypeOK, Release, InTx
  <2>2. CASE u # t
    <3>1. /\ UNCHANGED target /\ pc'[u] = pc[u] /\ done'[u] = done[u]
          /\ \A k \in Keys : (rowLock'[k] = u) = (rowLock[k] = u)
          /\ \A k \in Keys : rowLock[k] = u => stock'[k] = stock[k] /\ work'[k] = work[k]
      BY <1>1, <2>2, SetsAssumption DEF MovementTypeOK, Release
    <3>2. AppliedLines!(u)
      BY DEF AppliedLines
    <3>3. QED
      BY <3>1, <3>2
  <2>3. QED
    BY <2>1, <2>2
<1>7. LineLocked'
  <2> SUFFICES ASSUME NEW u \in Requests, pc'[u] = "rows"
               PROVE  LineLocked!(u)!2'
    BY DEF LineLocked
  <2>1. u # t /\ pc[u] = "rows"
    BY <1>1 DEF MovementTypeOK
  <2>2. /\ UNCHANGED target /\ line'[u] = line[u] /\ done'[u] = done[u] /\ plan'[u] = plan[u]
        /\ \A k \in Keys : (rowLock'[k] = u) = (rowLock[k] = u)
    BY <1>1, <2>1, SetsAssumption DEF MovementTypeOK, Release
  <2>3. LineLocked!(u)!2
    BY <2>1 DEF LineLocked
  <2>4. QED
    BY <2>2, <2>3 DEF Delta
<1>8. QED
  BY <1>3, <1>4, <1>5, <1>6, <1>7

\* A step outside of the transactions that leaves rows and locks alone disturbs no
\* line that anybody has applied or is applying.
LEMMA OutsideKeepsLines ==
  ASSUME IInv, NEW t \in Requests, pc[t] \notin InTx,
         NEW label, label \notin InTx, Goto(t, label),
         UNCHANGED <<stock, rowLock, work, target, line, plan, done>>
  PROVE  AppliedLines' /\ LineLocked'
<1>1. /\ pc'[t] \notin InTx
      /\ \A u \in Requests \ {t} : pc'[u] = pc[u]
  BY DEF IInv, MovementTypeOK, Goto
<1>2. done[t] = {}
  BY DEF IInv, AppliedLines
<1>3. AppliedLines'
  BY <1>1, <1>2 DEF IInv, AppliedLines, InTx
<1>4. LineLocked'
  <2> SUFFICES ASSUME NEW u \in Requests, pc'[u] = "rows"
               PROVE  LineLocked!(u)!2'
    BY DEF LineLocked
  <2>1. pc[u] = "rows"
    BY <1>1 DEF InTx
  <2>2. QED
    BY <2>1 DEF IInv, LineLocked
<1>5. QED
  BY <1>3, <1>4

\* Whoever gets a connection holds no row yet.
LEMMA BeginIInv ==
  ASSUME IInv, NEW t \in Requests, Begin(t)
  PROVE  IInv'
<1> USE DEF IInv
<1>1. MovementTypeOK'
  BY DEF MovementTypeOK, Begin, Goto, tables, txState, progress, InTx, Running, Answered
<1>2. LocksHaveOwners'
  BY DEF MovementTypeOK, LocksHaveOwners, Begin, Goto, tables, txState, progress, InTx
<1>3. HeaderHeld'
  BY DEF MovementTypeOK, HeaderHeld, Begin, Goto, tables, txState, progress, InTx
<1>4. AppliedLines' /\ LineLocked'
  <2> DEFINE label == IF pc[t] = "begin" THEN "lock" ELSE "cas"
  <2>1. label \notin InTx /\ pc[t] \notin InTx /\ Goto(t, label)
    BY DEF Begin, InTx
  <2>2. UNCHANGED <<stock, rowLock, work, target, line, plan, done>>
    BY DEF Begin, tables, txState, progress
  <2> HIDE DEF label
  <2>3. QED
    BY <2>1, <2>2, OutsideKeepsLines
<1>5. QED
  BY <1>1, <1>2, <1>3, <1>4

\* Nothing is held after the commit.
LEMMA PublishStockChangedIInv ==
  ASSUME IInv, NEW t \in Requests, PublishStockChanged(t)
  PROVE  IInv'
<1> USE DEF IInv
<1>1. MovementTypeOK'
  <2>1. feed' \in Seq(Movements)
    <3>1. target[t] \in Movements /\ feed \in Seq(Movements)
      BY DEF MovementTypeOK, HeaderHeld, PublishStockChanged
    <3>2. feed' = Append(feed, target[t]) \/ feed' = feed
      BY DEF PublishStockChanged
    <3>3. QED
      BY <3>1, <3>2
  <2>2. changes' \in [Requests -> Seq(Changes)]
    BY DEF MovementTypeOK, PublishStockChanged
  <2>3. QED
    BY <2>1, <2>2 DEF MovementTypeOK, PublishStockChanged, Goto, tables, txState, Answered
<1>2. pc[t] = "publish" /\ UNCHANGED <<tables, txState, target, line, plan, done>>
  BY DEF PublishStockChanged
<1>3. PICK answer \in Answered : pc' = [pc EXCEPT ![t] = answer]
  BY DEF PublishStockChanged, Goto
<1>4. \A u \in Requests : /\ pc[u] # pc'[u] => u = t
                          /\ pc'[u] \in InTx => u # t /\ pc'[u] = pc[u]
  BY <1>3 DEF MovementTypeOK, InTx, Answered
<1>5. LocksHaveOwners'
  BY <1>2, <1>3 DEF MovementTypeOK, LocksHaveOwners, tables, txState, InTx
<1>6. HeaderHeld'
  BY <1>2, <1>4 DEF HeaderHeld, tables, txState
<1>7. AppliedLines' /\ LineLocked'
  <2>1. answer \notin InTx /\ pc[t] \notin InTx /\ Goto(t, answer)
    BY <1>2, <1>3 DEF Answered, InTx, Goto
  <2>2. UNCHANGED <<stock, rowLock, work, target, line, plan, done>>
    BY <1>2 DEF tables, txState
  <2>3. QED
    BY <2>1, <2>2, OutsideKeepsLines
<1>8. QED
  BY <1>1, <1>5, <1>6, <1>7

\* A cancellation holds nothing.
LEMMA CancelReadIInv ==
  ASSUME IInv, NEW t \in Requests, CancelRead(t)
  PROVE  IInv'
<1> USE DEF IInv
<1>1. MovementTypeOK'
  BY DEF MovementTypeOK, CancelRead, Goto, tables, txState, progress, InTx, Running, Answered
<1>2. LocksHaveOwners'
  BY DEF MovementTypeOK, LocksHaveOwners, HeaderHeld, CancelRead, Goto, tables, txState, progress, InTx
<1>3. HeaderHeld'
  BY DEF MovementTypeOK, LocksHaveOwners, HeaderHeld, CancelRead, Goto, tables, txState, progress, InTx
<1>4. AppliedLines' /\ LineLocked'
  <2> DEFINE label == IF status[target[t]] = "draft" THEN "update" ELSE "failed"
  <2>1. label \notin InTx /\ pc[t] \notin InTx /\ Goto(t, label)
    BY DEF CancelRead, InTx
  <2>2. UNCHANGED <<stock, rowLock, work, target, line, plan, done>>
    BY DEF CancelRead, tables, txState, progress
  <2> HIDE DEF label
  <2>3. QED
    BY <2>1, <2>2, OutsideKeepsLines
<1>5. QED
  BY <1>1, <1>2, <1>3, <1>4

\* A cancellation changes only a header that nobody holds.
LEMMA CancelUpdateStatusIInv ==
  ASSUME IInv, NEW t \in Requests, CancelUpdateStatus(t)
  PROVE  IInv'
<1> DEFINE m == target[t]
<1> USE DEF IInv
<1>1. /\ m \in Movements /\ pc[t] = "cas" /\ headLock[m] = None
      /\ status' \in {status, [status EXCEPT ![m] = "cancelled"]}
      /\ pc' \in {[pc EXCEPT ![t] = "audit"], [pc EXCEPT ![t] = "failed"]}
      /\ UNCHANGED <<rows, stock, outbox, audit, nextId, txState, op, target, progress, feed>>
  <2>1. m \in Movements
    BY DEF CancelUpdateStatus, HeaderHeld
  <2>2. QED
    BY <2>1 DEF CancelUpdateStatus, Goto
<1>2. /\ pc'[t] \notin InTx
      /\ \A u \in Requests \ {t} : pc'[u] = pc[u]
  BY <1>1 DEF MovementTypeOK, InTx
<1>3. MovementTypeOK'
  BY <1>1 DEF MovementTypeOK, txState, progress, Running, Answered
<1>4. LocksHaveOwners'
  <2>1. UNCHANGED <<headLock, rowLock, work, stock, target>> /\ pc[t] \notin InTx
    BY <1>1 DEF txState, InTx
  <2>2. \A u \in Requests : pc[u] \in InTx => pc'[u] = pc[u]
    BY <1>2, <2>1
  <2>3. /\ \A x \in Movements : headLock[x] # None => headLock[x] \in Requests
        /\ \A k \in Keys : rowLock[k] # None => rowLock[k] \in Requests
    BY DEF MovementTypeOK
  <2>4. \A x \in Movements : headLock[x] # None =>
          pc'[headLock[x]] \in InTx /\ target[headLock[x]] = x
    BY <2>2, <2>3 DEF LocksHaveOwners
  <2>5. \A k \in Keys : rowLock[k] # None => pc'[rowLock[k]] \in InTx \ {"check"}
    BY <2>2, <2>3 DEF LocksHaveOwners
  <2>6. QED
    BY <2>1, <2>4, <2>5 DEF LocksHaveOwners
<1>5. HeaderHeld'
  <2> SUFFICES ASSUME NEW u \in Requests
               PROVE  /\ pc'[u] # "idle" => target'[u] \in Movements
                      /\ pc'[u] \in InTx => /\ headLock'[target'[u]] = u
                                            /\ status'[target'[u]] = "draft"
    BY DEF HeaderHeld
  <2>1. UNCHANGED <<target, headLock>>
    BY <1>1 DEF txState
  <2>2. CASE u = t
    BY <1>1, <1>2, <2>1, <2>2
  <2>3. CASE u # t
    <3>1. /\ pc'[u] = pc[u]
          /\ pc[u] # "idle" => target[u] \in Movements
          /\ pc[u] \in InTx => headLock[target[u]] = u /\ status[target[u]] = "draft"
      BY <1>2, <2>3 DEF HeaderHeld
    <3>2. pc[u] \in InTx => target[u] # m
      BY <1>1, <3>1, SetsAssumption
    <3>3. \A x \in Movements : x # m => status'[x] = status[x]
      BY <1>1 DEF MovementTypeOK
    <3>4. pc[u] \in InTx => pc[u] # "idle"
      BY DEF InTx
    <3>5. QED
      BY <2>1, <3>1, <3>2, <3>3, <3>4
  <2>4. QED
    BY <2>2, <2>3
<1>6. AppliedLines'
  <2>1. /\ done[t] = {}
        /\ UNCHANGED <<target, done, rowLock, work, stock>>
    BY <1>1 DEF AppliedLines, InTx, txState, progress
  <2>2. QED
    BY <1>2, <2>1 DEF AppliedLines, InTx
<1>7. LineLocked'
  BY <1>1, <1>2 DEF LineLocked, InTx, txState, progress, Delta
<1>8. QED
  BY <1>3, <1>4, <1>5, <1>6, <1>7

\* The audit row of a cancellation touches no balance.
LEMMA CancelAuditIInv ==
  ASSUME IInv, NEW t \in Requests, CancelAudit(t)
  PROVE  IInv'
<1> USE DEF IInv
<1>1. MovementTypeOK'
  <2>1. audit' \subseteq {"confirm", "cancel"} \X Movements
    BY DEF MovementTypeOK, HeaderHeld, CancelAudit
  <2>2. QED
    BY <2>1 DEF MovementTypeOK, CancelAudit, Goto, txState, progress, Answered
<1>2. LocksHaveOwners'
  BY DEF MovementTypeOK, LocksHaveOwners, CancelAudit, Goto, txState, InTx
<1>3. HeaderHeld'
  BY DEF MovementTypeOK, HeaderHeld, CancelAudit, Goto, txState, InTx
<1>4. AppliedLines' /\ LineLocked'
  <2>1. "ok" \notin InTx /\ pc[t] \notin InTx /\ Goto(t, "ok")
    BY DEF CancelAudit, InTx
  <2>2. UNCHANGED <<stock, rowLock, work, target, line, plan, done>>
    BY DEF CancelAudit, txState, progress
  <2>3. QED
    BY <2>1, <2>2, OutsideKeepsLines
<1>5. QED
  BY <1>1, <1>2, <1>3, <1>4

\* Nothing changes in a stuttering step.
LEMMA StutterIInv ==
  ASSUME IInv, UNCHANGED vars
  PROVE  IInv'
<1>1. UNCHANGED <<status, rows, stock, outbox, audit, nextId, headLock, rowLock, work,
                  batch, op, target, pc, line, plan, done, changes, feed>>
  BY DEF vars, tables, txState, progress
<1>2. MovementTypeOK' /\ LocksHaveOwners'
  BY <1>1 DEF IInv, MovementTypeOK, LocksHaveOwners
<1>3. HeaderHeld' /\ AppliedLines' /\ LineLocked'
  BY <1>1 DEF IInv, HeaderHeld, AppliedLines, LineLocked, Delta
<1>4. QED
  BY <1>2, <1>3 DEF IInv

\* Every step of the system keeps the strengthened invariant.
LEMMA NextIInv == IInv /\ [Next]_vars => IInv'
<1> SUFFICES ASSUME IInv, [Next]_vars PROVE IInv'
  OBVIOUS
<1>1. CASE \E t \in Requests, o \in {"confirm", "cancel"}, m \in Movements : Call(t, o, m)
  BY <1>1, CallIInv
<1>2. CASE \E t \in Requests : Step(t)
  <2> PICK t \in Requests : Step(t)
    BY <1>2
  <2>1. CASE \E ln \in Lines : NextLine(t, ln)
    BY <2>1, NextLineIInv
  <2>2. CASE \/ Begin(t) \/ GetByIDForUpdate(t) \/ ValidateWarehousesActive(t)
             \/ GetBalanceRowForUpdate(t)
    BY <2>2, BeginIInv, GetByIDForUpdateIInv, ValidateWarehousesActiveIInv, GetBalanceRowForUpdateIInv
  <2>3. CASE ApplyLine(t) \/ UpdateStatus(t) \/ EmitWithLookup(t)
    BY <2>3, ApplyLineIInv, UpdateStatusIInv, EmitOutboxIInv DEF EmitWithLookup
  <2>4. CASE Commit(t) \/ PublishStockChanged(t)
    BY <2>4, CommitIInv, PublishStockChangedIInv
  <2>5. CASE CancelRead(t) \/ CancelUpdateStatus(t) \/ CancelAudit(t)
    BY <2>5, CancelReadIInv, CancelUpdateStatusIInv, CancelAuditIInv
  <2>6. CASE MapStockNotFound(t) \/ RejectQuantity(t) \/ DeadlockDetected(t)
    <3>1. pc[t] # "idle" /\ Rollback(t)
      BY <2>6 DEF MapStockNotFound, RejectQuantity, DeadlockDetected, Deadlocked, WaitsFor
    <3>2. QED
      BY <3>1, RollbackIInv
  <2>7. QED
    BY <2>1, <2>2, <2>3, <2>4, <2>5, <2>6 DEF Step
<1>3. CASE \E t \in Requests : Fail(t)
  BY <1>3, RollbackIInv DEF Fail, Running, InTx
<1>4. CASE \E t \in Requests : EmitOutbox(t)
  BY <1>4, EmitOutboxIInv
<1>5. CASE UNCHANGED vars
  BY <1>5, StutterIInv
<1>6. QED
  BY <1>1, <1>2, <1>3, <1>4, <1>5 DEF Next, Terminating

\* The strengthened invariant holds of every reachable state.
THEOREM InvariantHolds == Spec => []IInv
BY InitIInv, NextIInv, PTL DEF Spec

\* No confirmation, whatever it interleaves with, drives a committed or uncommitted
\* quantity out of 0 .. MaxQty, and every table, lock and handler has its type.
THEOREM TypeCorrect == Spec => []MovementTypeOK
<1>1. IInv => MovementTypeOK
  BY DEF IInv
<1>2. QED
  BY <1>1, InvariantHolds, PTL

\* Every lock belongs to an open transaction, on its own movement, and what nobody
\* holds is what was committed.
THEOREM LocksCorrect == Spec => []LocksHaveOwners
<1>1. IInv => LocksHaveOwners
  BY DEF IInv
<1>2. QED
  BY <1>1, InvariantHolds, PTL

-----------------------------------------------------------------------------
\* The ledger is implemented.  Only the commit of a confirmation and the UPDATE of a
\* cancellation are steps of the ledger, the others are stutters.

\* A commit adds the effect of the whole document to every balance.
LEMMA CommitPosts ==
  ASSUME IInv, NEW t \in Requests, Commit(t)
  PROVE  Abstract!Post(target[t])
<1> DEFINE m == target[t]
<1>1. /\ m \in Movements /\ pc[t] = "commit" /\ status[m] = "draft"
      /\ status' = [status EXCEPT ![m] = "confirmed"]
      /\ stock' = [k \in Keys |-> IF rowLock[k] = t THEN work[k] ELSE stock[k]]
  BY DEF Commit, IInv, HeaderHeld, InTx
<1>2. done[t] = Doc[m].lines
  BY <1>1 DEF IInv, AppliedLines
<1>3. ASSUME NEW k \in Keys
      PROVE  /\ stock[k] \in 0 .. MaxQty /\ work[k] \in 0 .. MaxQty
             /\ Effect[m][k] = Net[m][Doc[m].lines][k] /\ Effect[m][k] \in Int
             /\ rowLock[k] = t => work[k] = stock[k] + Effect[m][k]
             /\ rowLock[k] # t => Effect[m][k] = 0
  <2>1. stock[k] \in 0 .. MaxQty /\ work[k] \in 0 .. MaxQty
    BY DEF IInv, MovementTypeOK
  <2>2. Effect[m][k] = Net[m][Doc[m].lines][k]
    BY <1>1 DEF Effect
  <2>3. Net[m][Doc[m].lines][k] \in Int
    BY <1>1, NetInt
  <2>4. IF rowLock[k] = t
          THEN work[k] = stock[k] + Net[m][done[t]][k]
          ELSE Net[m][done[t]][k] = 0
    BY <1>1 DEF IInv, AppliedLines, InTx
  <2>5. QED
    BY <1>2, <2>1, <2>2, <2>3, <2>4
<1> HIDE DEF m
<1>4. ASSUME NEW k \in Keys
      PROVE  stock'[k] = stock[k] + Effect[m][k] /\ stock[k] + Effect[m][k] \in 0 .. MaxQty
  <2>1. CASE rowLock[k] = t
    BY <1>1, <1>3, <2>1
  <2>2. CASE rowLock[k] # t
    BY <1>1, <1>3, <2>2, SetsAssumption
  <2>3. QED
    BY <2>1, <2>2
<1>5. stock' = [k \in Keys |-> stock[k] + Effect[m][k]]
  BY <1>1, <1>4
<1>6. QED
  BY <1>1, <1>4, <1>5 DEF Abstract!Post, m

\* A cancellation voids a draft or changes nothing of the ledger.
LEMMA CancelVoids ==
  ASSUME IInv, NEW t \in Requests, CancelUpdateStatus(t)
  PROVE  Abstract!Void(target[t]) \/ UNCHANGED <<stock, status>>
BY DEF CancelUpdateStatus, Abstract!Void

\* For every number of requests, rows and lines, and however the transactions
\* interleave, wait, deadlock or crash, confirm and cancel implement the ledger.
THEOREM ImplementsLedger == Spec => LedgerSpec
<1>1. Init => Abstract!Init
  BY DEF Init, Abstract!Init
<1>2. IInv /\ [Next]_vars => [Abstract!Next]_(Abstract!vars)
  <2> SUFFICES ASSUME IInv, [Next]_vars
               PROVE  Abstract!Next \/ UNCHANGED <<stock, status>>
    BY DEF Abstract!vars
  <2>1. CASE \E t \in Requests : Commit(t)
    <3> PICK t \in Requests : Commit(t)
      BY <2>1
    <3>1. target[t] \in Movements
      BY DEF IInv, HeaderHeld, Commit
    <3>2. QED
      BY <3>1, CommitPosts DEF Abstract!Next
  <2>2. CASE \E t \in Requests : CancelUpdateStatus(t)
    <3> PICK t \in Requests : CancelUpdateStatus(t)
      BY <2>2
    <3>1. target[t] \in Movements
      BY DEF IInv, HeaderHeld, CancelUpdateStatus
    <3>2. QED
      BY <3>1, CancelVoids DEF Abstract!Next
  <2>3. CASE \E t \in Requests : Rollback(t)
    BY <2>3 DEF Rollback, tables
  <2>4. CASE \E t \in Requests :
               \/ \E o \in {"confirm", "cancel"}, m \in Movements : Call(t, o, m)
               \/ \E ln \in Lines : NextLine(t, ln)
               \/ Begin(t) \/ GetByIDForUpdate(t) \/ ValidateWarehousesActive(t)
               \/ GetBalanceRowForUpdate(t) \/ ApplyLine(t) \/ UpdateStatus(t)
               \/ EmitOutbox(t) \/ PublishStockChanged(t) \/ CancelRead(t) \/ CancelAudit(t)
    BY <2>4 DEF Call, Begin, NextLine, GetByIDForUpdate, ValidateWarehousesActive,
                GetBalanceRowForUpdate, ApplyLine, UpdateStatus, EmitOutbox,
                PublishStockChanged, CancelRead, CancelAudit, tables
  <2>5. CASE UNCHANGED vars
    BY <2>5 DEF vars, tables
  <2>6. QED
    BY <2>1, <2>2, <2>3, <2>4, <2>5
       DEF Next, Step, EmitWithLookup, MapStockNotFound, RejectQuantity, DeadlockDetected, Fail, Terminating
<1>3. QED
  BY <1>1, <1>2, InvariantHolds, PTL DEF Spec, LedgerSpec, Abstract!Spec

-----------------------------------------------------------------------------
(***************************************************************************)
(* What the world outside the transactions of Movement may rely on: the    *)
(* answers, the stock notifications, the outbox and the audit trail.       *)
(*                                                                         *)
(* The argument.  A request wins a movement when it takes the status away  *)
(* from draft, which is a commit or the UPDATE of a cancellation, and no   *)
(* status ever changes again, so that two winners of one movement are one  *)
(* (WinnerInv); notifications come from winners (FeedInv).  The rows that  *)
(* a commit adds to the outbox were numbered together when they were       *)
(* emitted, from a sequence that has moved on since (BatchInv), and tell   *)
(* the changes of the transaction in their order.  Those changes start at  *)
(* the committed quantity of a row and end at the one its holder sees      *)
(* (ChangesInv), and the committed events of a row end at its committed    *)
(* quantity (ChainInv).  The number sequence knows no locks; what orders   *)
(* the events of one row is that the row stays locked from before they are *)
(* numbered until they are committed (HeldRowsAreLast).                    *)
(***************************************************************************)

Outcome(t) == IF op[t] = "confirm" THEN "confirmed" ELSE "cancelled"

\* The request has taken its movement out of draft and is, or may yet be, told so.
Won(t) == pc[t] \in {"publish", "audit", "ok"}

\* Handlers are at places of their own operation; a winner's movement has the
\* status that was asked for, and no movement has two winners.
WinnerInv ==
  \A t \in Requests :
    /\ pc[t] \in InTx \cup {"begin", "lock", "publish"} => op[t] = "confirm"
    /\ pc[t] \in {"read", "update", "cas", "audit"} => op[t] = "cancel"
    /\ Won(t) => status[target[t]] = Outcome(t)
    /\ \A u \in Requests : Won(t) /\ Won(u) /\ target[t] = target[u] => t = u

\* Listeners have not heard of the movement of a commit that is still to be told.
FeedInv ==
  /\ FeedAfterCommit
  /\ \A t \in Requests : pc[t] = "publish" => \A i \in DOMAIN feed : feed[i] # target[t]

-----------------------------------------------------------------------------
\* The outbox row of the i-th change of t, and all rows of t, numbered from n.
ChangeRow(t, n, i) ==
  [type |-> "StockChanged", id |-> n + i, mv |-> target[t],
   key |-> changes[t][i].key, old |-> changes[t][i].old, new |-> changes[t][i].new,
   low |-> changes[t][i].new < ReorderLevel[changes[t][i].key[2]]]

RowsFrom(t, n) ==
  {[type |-> "MovementCreated", id |-> n, mv |-> target[t]]}
    \cup {ChangeRow(t, n, i) : i \in DOMAIN changes[t]}

\* Rows waiting for their commit are those of the changes of t, numbered in one
\* block below nextId.
BatchInv ==
  \A t \in Requests :
    /\ pc[t] # "commit" => batch[t] = {}
    /\ pc[t] = "commit" =>
         \E n \in 0 .. nextId : batch[t] = RowsFrom(t, n) /\ n + Len(changes[t]) < nextId

\* Every outbox row, committed or not, has an id of its own below nextId.
AllRows == outbox \cup UNION {batch[t] : t \in Requests}
IdsInv ==
  /\ \A r \in AllRows : r.id < nextId
  /\ \A r1, r2 \in AllRows : r1.id = r2.id => r1 = r2

-----------------------------------------------------------------------------
\* What the first n changes of s say of row k, when it is at quantity start before.
Told(s, k, start, n, q) ==
  \/ /\ q = start
     /\ \A j \in 1 .. n : s[j].key # k
  \/ \E j \in 1 .. n :
       /\ s[j].key = k /\ s[j].new = q
       /\ \A l \in j + 1 .. n : s[l].key # k

\* The changes of t are of rows that it holds, and lead in their order from the
\* committed quantity to the one that t sees.
ChangesInv ==
  \A t \in Requests :
    /\ pc[t] \notin InTx \cup {"publish"} \/ pc[t] = "check" => changes[t] = <<>>
    /\ pc[t] \in InTx => \A i \in DOMAIN changes[t] :
         LET c == changes[t][i] IN
         rowLock[c.key] = t /\ Told(changes[t], c.key, stock[c.key], i - 1, c.old)
    /\ pc[t] \in InTx => \A k \in Keys :
         rowLock[k] = t => Told(changes[t], k, stock[k], Len(changes[t]), work[k])

\* A row that t has locked and is about to tell of has no younger event.
HeldRowsAreLast ==
  \A t \in Requests : \A b \in batch[t] :
    b.type = "StockChanged" => \A r \in StockEvents(b.key) : r.id < b.id

\* Those of the events E of row k with ids below n end at quantity q.
EndsAt(E, k, n, q) ==
  \/ q = Opening[k] /\ \A r \in E : r.id >= n
  \/ \E r \in E :
       /\ r.id < n /\ r.new = q
       /\ \A e \in E : e.id < n => e.id <= r.id

ChainInv ==
  \A k \in Keys :
    /\ \A r \in StockEvents(k) : EndsAt(StockEvents(k), k, r.id, r.old)
    /\ EndsAt(StockEvents(k), k, nextId, stock[k])

-----------------------------------------------------------------------------
\* Every step is one of these.
LEMMA StepCases ==
  ASSUME IInv, [Next]_vars
  PROVE  \/ UNCHANGED vars
         \/ \E t \in Requests :
              \/ \E o \in {"confirm", "cancel"}, m \in Movements : Call(t, o, m)
              \/ \E ln \in Lines : NextLine(t, ln)
              \/ Begin(t) \/ GetByIDForUpdate(t) \/ ValidateWarehousesActive(t)
              \/ GetBalanceRowForUpdate(t) \/ ApplyLine(t) \/ UpdateStatus(t)
              \/ EmitOutbox(t) \/ Commit(t) \/ PublishStockChanged(t)
              \/ CancelRead(t) \/ CancelUpdateStatus(t) \/ CancelAudit(t)
              \/ pc[t] # "idle" /\ Rollback(t)
BY DEF Next, Step, EmitWithLookup, MapStockNotFound, RejectQuantity, DeadlockDetected,
       Deadlocked, WaitsFor, Fail, Running, InTx, Terminating

-----------------------------------------------------------------------------
\* Winners.

\* At the start nobody has won or heard of anything.
LEMMA InitWinner == Init => WinnerInv /\ FeedInv
BY DEF Init, WinnerInv, FeedInv, FeedAfterCommit, Won, InTx

\* A handler that goes from label to label without touching a status changes no
\* winner.
LEMMA MovesKeepWinners ==
  ASSUME IInv, WinnerInv, NEW t \in Requests, NEW label, Goto(t, label),
         UNCHANGED <<status, op, target>>,
         label \in InTx \cup {"lock"} => op[t] = "confirm",
         label \in {"update", "cas"} => op[t] = "cancel",
         label \notin {"begin", "read", "publish", "audit"},
         label = "ok" => Won(t)
  PROVE  WinnerInv'
<1>1. /\ pc'[t] = label
      /\ \A u \in Requests \ {t} : pc'[u] = pc[u]
  BY DEF IInv, MovementTypeOK, Goto
<1>2. \A u \in Requests : Won(u)' => Won(u)
  BY <1>1 DEF Won
<1>3. \A u \in Requests : Outcome(u)' = Outcome(u)
  BY DEF Outcome
<1>4. QED
  BY <1>1, <1>2, <1>3 DEF WinnerInv, InTx

\* A request that takes its movement out of draft is its only winner.
LEMMA NewWinner ==
  ASSUME IInv, WinnerInv, NEW t \in Requests, pc[t] # "idle", ~Won(t),
         NEW label, Goto(t, label), UNCHANGED <<op, target>>,
         status[target[t]] = "draft",
         status' = [status EXCEPT ![target[t]] = Outcome(t)],
         \/ label = "publish" /\ op[t] = "confirm"
         \/ label = "audit" /\ op[t] = "cancel"
  PROVE  WinnerInv'
<1>1. /\ pc'[t] = label /\ target[t] \in Movements
      /\ \A u \in Requests \ {t} : pc'[u] = pc[u]
  BY DEF IInv, MovementTypeOK, HeaderHeld, Goto
<1>2. /\ Won(t)' /\ \A u \in Requests \ {t} : Won(u)' = Won(u)
      /\ \A u \in Requests : Outcome(u)' = Outcome(u)
      /\ \A u \in Requests : Won(u) => target[u] \in Movements
  BY <1>1 DEF Won, Outcome, IInv, HeaderHeld
<1>3. \A u \in Requests : Won(u) => target[u] # target[t]
  BY DEF WinnerInv, Outcome
<1>4. /\ status'[target[t]] = Outcome(t)
      /\ \A m \in Movements \ {target[t]} : status'[m] = status[m]
  BY <1>1 DEF IInv, MovementTypeOK
<1>5. ASSUME NEW u \in Requests
      PROVE  /\ pc'[u] \in InTx \cup {"begin", "lock", "publish"} => op[u] = "confirm"
             /\ pc'[u] \in {"read", "update", "cas", "audit"} => op[u] = "cancel"
  BY <1>1 DEF WinnerInv, InTx
<1>6. ASSUME NEW u \in Requests, Won(u)'
      PROVE  status'[target[u]] = Outcome(u)
  <2>1. CASE u = t
    BY <1>4, <2>1
  <2>2. CASE u # t
    <3>1. Won(u) /\ target[u] \in Movements \ {target[t]}
      BY <1>2, <1>3, <1>6, <2>2
    <3>2. QED
      BY <1>4, <3>1 DEF WinnerInv
  <2>3. QED
    BY <2>1, <2>2
<1>7. ASSUME NEW u \in Requests, NEW v \in Requests, Won(u)', Won(v)', target[u] = target[v]
      PROVE  u = v
  BY <1>2, <1>3, <1>7 DEF WinnerInv
<1>8. QED
  BY <1>2, <1>5, <1>6, <1>7 DEF WinnerInv

\* No step makes a second winner or takes a victory back.
LEMMA WinnerStep ==
  ASSUME IInv, WinnerInv, [Next]_vars
  PROVE  WinnerInv'
<1>1. CASE UNCHANGED vars
  BY <1>1 DEF WinnerInv, Won, Outcome, vars, tables
<1>2. ASSUME NEW t \in Requests, NEW o \in {"confirm", "cancel"}, NEW m \in Movements,
             Call(t, o, m)
      PROVE  WinnerInv'
  <2>1. /\ pc[t] = "idle" /\ op'[t] = o /\ ~Won(t) /\ ~Won(t)'
        /\ pc'[t] = IF o = "confirm" THEN "begin" ELSE "read"
        /\ \A u \in Requests \ {t} : /\ pc'[u] = pc[u] /\ op'[u] = op[u]
                                     /\ target'[u] = target[u]
        /\ UNCHANGED status
    BY <1>2 DEF Call, Goto, IInv, MovementTypeOK, Won, tables
  <2>2. \A u \in Requests \ {t} : Won(u)' = Won(u) /\ Outcome(u)' = Outcome(u)
    BY <2>1 DEF Won, Outcome
  <2>3. QED
    BY <2>1, <2>2 DEF WinnerInv, InTx
<1>3. ASSUME NEW t \in Requests, NEW ln \in Lines, NextLine(t, ln)
      PROVE  WinnerInv'
  BY <1>3, MovesKeepWinners DEF NextLine, tables, WinnerInv, InTx
<1>4. ASSUME NEW t \in Requests, Begin(t)
      PROVE  WinnerInv'
  <2> DEFINE label == IF pc[t] = "begin" THEN "lock" ELSE "cas"
  <2>1. /\ pc[t] \in {"begin", "update"} /\ Goto(t, label)
        /\ UNCHANGED <<status, op, target>>
    BY <1>4 DEF Begin, tables
  <2>2. /\ label \in InTx \cup {"lock"} => op[t] = "confirm"
        /\ label \in {"update", "cas"} => op[t] = "cancel"
        /\ label \notin {"begin", "read", "publish", "audit", "ok"}
    BY <2>1 DEF WinnerInv, InTx
  <2> HIDE DEF label
  <2>3. QED
    BY <2>1, <2>2, MovesKeepWinners
<1>5. ASSUME NEW t \in Requests, GetByIDForUpdate(t)
      PROVE  WinnerInv'
  <2>1. /\ Goto(t, "check") \/ Goto(t, "failed")
        /\ op[t] = "confirm"
        /\ UNCHANGED <<status, op, target>>
    BY <1>5 DEF GetByIDForUpdate, tables, WinnerInv
  <2>2. QED
    BY <2>1, MovesKeepWinners DEF InTx
<1>6. ASSUME NEW t \in Requests, ValidateWarehousesActive(t)
      PROVE  WinnerInv'
  BY <1>6, MovesKeepWinners DEF ValidateWarehousesActive, tables, WinnerInv, InTx
<1>7. ASSUME NEW t \in Requests, GetBalanceRowForUpdate(t)
      PROVE  WinnerInv'
  BY <1>7 DEF GetBalanceRowForUpdate, tables, WinnerInv, Won, Outcome
<1>8. ASSUME NEW t \in Requests, ApplyLine(t)
      PROVE  WinnerInv'
  BY <1>8, MovesKeepWinners DEF ApplyLine, tables, WinnerInv, InTx
<1>9. ASSUME NEW t \in Requests, UpdateStatus(t)
      PROVE  WinnerInv'
  BY <1>9, MovesKeepWinners DEF UpdateStatus, tables, WinnerInv, InTx
<1>10. ASSUME NEW t \in Requests, EmitOutbox(t)
       PROVE  WinnerInv'
  BY <1>10, MovesKeepWinners DEF EmitOutbox, tables, WinnerInv, InTx
<1>11. ASSUME NEW t \in Requests, Commit(t)
       PROVE  WinnerInv'
  <2>1. /\ pc[t] = "commit" /\ Goto(t, "publish") /\ UNCHANGED <<op, target>>
        /\ status' = [status EXCEPT ![target[t]] = "confirmed"]
        /\ op[t] = "confirm" /\ status[target[t]] = "draft" /\ ~Won(t)
    BY <1>11 DEF Commit, WinnerInv, InTx, Won, IInv, HeaderHeld
  <2>2. Outcome(t) = "confirmed"
    BY <2>1 DEF Outcome
  <2>3. QED
    BY <2>1, <2>2, NewWinner
<1>12. ASSUME NEW t \in Requests, PublishStockChanged(t)
       PROVE  WinnerInv'
  <2>1. /\ Goto(t, "ok") \/ Goto(t, "failed")
        /\ Won(t) /\ UNCHANGED <<status, op, target>>
    BY <1>12 DEF PublishStockChanged, Answered, tables, Won
  <2>2. QED
    BY <2>1, MovesKeepWinners DEF InTx
<1>13. ASSUME NEW t \in Requests, CancelRead(t)
       PROVE  WinnerInv'
  <2>1. /\ Goto(t, "update") \/ Goto(t, "failed")
        /\ op[t] = "cancel" /\ UNCHANGED <<status, op, target>>
    BY <1>13 DEF CancelRead, tables, WinnerInv
  <2>2. QED
    BY <2>1, MovesKeepWinners DEF InTx
<1>14. ASSUME NEW t \in Requests, CancelUpdateStatus(t)
       PROVE  WinnerInv'
  <2>1. /\ pc[t] = "cas" /\ op[t] = "cancel" /\ UNCHANGED <<op, target>> /\ ~Won(t)
    BY <1>14 DEF CancelUpdateStatus, WinnerInv, Won
  <2>2. CASE /\ status[target[t]] = "draft" /\ Goto(t, "audit")
             /\ status' = [status EXCEPT ![target[t]] = "cancelled"]
    <3>1. Outcome(t) = "cancelled"
      BY <2>1 DEF Outcome
    <3>2. QED
      BY <2>1, <2>2, <3>1, NewWinner
  <2>3. CASE Goto(t, "failed") /\ UNCHANGED status
    BY <2>1, <2>3, MovesKeepWinners DEF InTx
  <2>4. QED
    BY <1>14, <2>2, <2>3 DEF CancelUpdateStatus
<1>15. ASSUME NEW t \in Requests, CancelAudit(t)
       PROVE  WinnerInv'
  BY <1>15, MovesKeepWinners DEF CancelAudit, Won, InTx
<1>16. ASSUME NEW t \in Requests, Rollback(t)
       PROVE  WinnerInv'
  BY <1>16, MovesKeepWinners DEF Rollback, tables, InTx
<1>17. QED
  BY <1>1, <1>2, <1>3, <1>4, <1>5, <1>6, <1>7, <1>8, <1>9, <1>10, <1>11, <1>12, <1>13,
     <1>14, <1>15, <1>16, StepCases

\* A success is answered to at most one of the requests about a movement, be they
\* confirmations or cancellations, whose status is then the one asked for.
THEOREM OneWinnerHolds == Spec => []OneWinner
<1>1. Init => WinnerInv
  BY InitWinner
<1>2. IInv /\ WinnerInv /\ [Next]_vars => WinnerInv'
  BY WinnerStep
<1>3. WinnerInv => OneWinner
  BY DEF WinnerInv, OneWinner, Won, Outcome
<1>4. QED
  BY <1>1, <1>2, <1>3, InvariantHolds, PTL DEF Spec

-----------------------------------------------------------------------------
\* Notifications.

\* A notification is of the movement of its sender, which nobody has told of yet.
LEMMA FeedStep ==
  ASSUME IInv, WinnerInv, FeedInv, [Next]_vars
  PROVE  FeedInv'
<1>1. feed \in Seq(Movements)
  BY DEF IInv, MovementTypeOK
<1>2. ASSUME NEW t \in Requests, PublishStockChanged(t)
      PROVE  FeedInv'
  <2>1. /\ pc[t] = "publish" /\ target[t] \in Movements
        /\ status[target[t]] = "confirmed"
        /\ \A i \in DOMAIN feed : feed[i] # target[t]
        /\ UNCHANGED <<status, target>>
        /\ feed' = Append(feed, target[t]) \/ feed' = feed
    <3>1. Won(t) /\ op[t] = "confirm"
      BY <1>2 DEF PublishStockChanged, Won, WinnerInv
    <3>2. QED
      BY <1>2, <3>1 DEF PublishStockChanged, FeedInv, IInv, HeaderHeld, WinnerInv, Outcome, tables
  <2>2. \A u \in Requests : pc'[u] = "publish" => u # t /\ pc[u] = "publish"
    BY <1>2 DEF PublishStockChanged, Goto, Answered, IInv, MovementTypeOK
  <2>3. \A u \in Requests : pc'[u] = "publish" => target[u] # target[t]
    BY <2>1, <2>2 DEF WinnerInv, Won
  <2>4. CASE feed' = feed
    BY <2>1, <2>2, <2>4 DEF FeedInv, FeedAfterCommit
  <2>5. CASE feed' = Append(feed, target[t])
    <3>1. /\ DOMAIN feed' = 1 .. Len(feed) + 1 /\ DOMAIN feed = 1 .. Len(feed)
          /\ Len(feed) \in Nat
          /\ feed'[Len(feed) + 1] = target[t]
          /\ \A i \in 1 .. Len(feed) : feed'[i] = feed[i]
      BY <1>1, <2>1, <2>5
    <3>2. \A i \in DOMAIN feed' : i = Len(feed) + 1 \/ i \in DOMAIN feed
      BY <3>1
    <3>3. FeedAfterCommit'
      BY <2>1, <3>1, <3>2 DEF FeedInv, FeedAfterCommit
    <3>4. QED
      BY <2>1, <2>2, <2>3, <3>1, <3>2, <3>3 DEF FeedInv
  <2>6. QED
    BY <2>1, <2>4, <2>5
<1>3. ASSUME NEW t \in Requests, Commit(t)
      PROVE  FeedInv'
  <2>1. /\ pc[t] = "commit" /\ target[t] \in Movements /\ status[target[t]] = "draft"
        /\ status' = [status EXCEPT ![target[t]] = "confirmed"]
        /\ UNCHANGED <<target, feed>>
        /\ \A u \in Requests \ {t} : pc'[u] = pc[u]
    BY <1>3 DEF Commit, Goto, IInv, MovementTypeOK, HeaderHeld, InTx
  <2>2. \A i \in DOMAIN feed : feed[i] # target[t] /\ feed[i] \in Movements
    BY <1>1, <2>1 DEF FeedInv, FeedAfterCommit
  <2>3. QED
    BY <2>1, <2>2 DEF FeedInv, FeedAfterCommit, IInv, MovementTypeOK
<1>4. ASSUME NEW t \in Requests, CancelUpdateStatus(t)
      PROVE  FeedInv'
  <2>1. /\ UNCHANGED <<target, feed>> /\ target[t] \in Movements
        /\ \/ UNCHANGED status
           \/ /\ status[target[t]] = "draft"
              /\ status' = [status EXCEPT ![target[t]] = "cancelled"]
        /\ \A u \in Requests : pc'[u] = "publish" => pc[u] = "publish"
    BY <1>4 DEF CancelUpdateStatus, Goto, IInv, MovementTypeOK, HeaderHeld
  <2>2. \A i \in DOMAIN feed : status[feed[i]] = "confirmed" /\ feed[i] \in Movements
    BY <1>1 DEF FeedInv, FeedAfterCommit
  <2>3. QED
    BY <2>1, <2>2 DEF FeedInv, FeedAfterCommit, IInv, MovementTypeOK
<1>5. ASSUME UNCHANGED <<status, feed>>,
             \A u \in Requests : pc'[u] = "publish" =>
               pc[u] = "publish" /\ target'[u] = target[u]
      PROVE  FeedInv'
  BY <1>5 DEF FeedInv, FeedAfterCommit
<1>6. ASSUME NEW t \in Requests,
             \/ \E o \in {"confirm", "cancel"}, m \in Movements : Call(t, o, m)
             \/ \E ln \in Lines : NextLine(t, ln)
             \/ Begin(t) \/ GetByIDForUpdate(t) \/ ValidateWarehousesActive(t)
             \/ GetBalanceRowForUpdate(t) \/ ApplyLine(t) \/ UpdateStatus(t)
             \/ EmitOutbox(t) \/ CancelRead(t) \/ CancelAudit(t) \/ Rollback(t)
      PROVE  FeedInv'
  <2>1. UNCHANGED <<status, feed>>
    BY <1>6 DEF Call, NextLine, Begin, GetByIDForUpdate, ValidateWarehousesActive,
                GetBalanceRowForUpdate, ApplyLine, UpdateStatus, EmitOutbox, CancelRead,
                CancelAudit, Rollback, tables
  <2>2. /\ \A u \in Requests \ {t} : pc'[u] = pc[u] /\ target'[u] = target[u]
        /\ \/ pc'[t] = pc[t] /\ UNCHANGED target
           \/ pc'[t] # "publish"
    BY <1>6 DEF Call, NextLine, Begin, GetByIDForUpdate, ValidateWarehousesActive,
                GetBalanceRowForUpdate, ApplyLine, UpdateStatus, EmitOutbox, CancelRead,
                CancelAudit, Rollback, Goto, IInv, MovementTypeOK
  <2>3. QED
    BY <2>1, <2>2, <1>5
<1>7. CASE UNCHANGED vars
  BY <1>5, <1>7 DEF vars, tables
<1>8. QED
  BY <1>2, <1>3, <1>4, <1>6, <1>7, StepCases

\* Listeners hear of a movement after its commit only, and not twice.
THEOREM FeedFollowsCommit == Spec => []FeedAfterCommit
<1>1. Init => WinnerInv /\ FeedInv
  BY InitWinner
<1>2. IInv /\ WinnerInv /\ [Next]_vars => WinnerInv'
  BY WinnerStep
<1>3. IInv /\ WinnerInv /\ FeedInv /\ [Next]_vars => FeedInv'
  BY FeedStep
<1>4. FeedInv => FeedAfterCommit
  BY DEF FeedInv
<1>5. QED
  BY <1>1, <1>2, <1>3, <1>4, InvariantHolds, PTL DEF Spec

-----------------------------------------------------------------------------
\* The outbox and the audit trail.

\* The rows of a transaction are about its movement, have ids of their own from n on,
\* and one of them tells of the movement as a whole.
LEMMA RowsFromFacts ==
  ASSUME NEW t \in Requests, changes[t] \in Seq(Changes), NEW n \in Nat
  PROVE  /\ \A r \in RowsFrom(t, n) : r.mv = target[t] /\ r.id \in n .. n + Len(changes[t])
         /\ \A r1, r2 \in RowsFrom(t, n) : r1.id = r2.id => r1 = r2
         /\ \E c \in RowsFrom(t, n) : \A r \in RowsFrom(t, n) :
              r.type = "MovementCreated" <=> r = c
         /\ \A r \in RowsFrom(t, n) : r.type = "StockChanged" =>
              \E i \in DOMAIN changes[t] : r = ChangeRow(t, n, i)
<1> DEFINE c == [type |-> "MovementCreated", id |-> n, mv |-> target[t]]
<1>1. DOMAIN changes[t] = 1 .. Len(changes[t]) /\ Len(changes[t]) \in Nat
  OBVIOUS
<1>2. /\ c \in RowsFrom(t, n)
      /\ \A r \in RowsFrom(t, n) : r = c \/ \E i \in DOMAIN changes[t] : r = ChangeRow(t, n, i)
  BY DEF RowsFrom
<1>3. c.type = "MovementCreated" /\ c.id = n /\ c.mv = target[t]
  OBVIOUS
<1>4. \A i \in DOMAIN changes[t] :
        /\ ChangeRow(t, n, i).type = "StockChanged"
        /\ ChangeRow(t, n, i).id = n + i
        /\ ChangeRow(t, n, i).mv = target[t]
  BY DEF ChangeRow
<1> HIDE DEF c
<1>5. \A r \in RowsFrom(t, n) : r.mv = target[t] /\ r.id \in n .. n + Len(changes[t])
  BY <1>1, <1>2, <1>3, <1>4
<1>6. \A r1, r2 \in RowsFrom(t, n) : r1.id = r2.id => r1 = r2
  <2> SUFFICES ASSUME NEW r1 \in RowsFrom(t, n), NEW r2 \in RowsFrom(t, n), r1.id = r2.id
               PROVE  r1 = r2
    OBVIOUS
  <2>1. CASE r1 = c \/ r2 = c
    BY <1>1, <1>2, <1>3, <1>4, <2>1
  <2>2. CASE r1 # c /\ r2 # c
    <3>1. PICK i \in DOMAIN changes[t] : r1 = ChangeRow(t, n, i)
      BY <1>2, <2>2
    <3>2. PICK j \in DOMAIN changes[t] : r2 = ChangeRow(t, n, j)
      BY <1>2, <2>2
    <3>3. i = j
      BY <1>1, <1>4, <3>1, <3>2
    <3>4. QED
      BY <3>1, <3>2, <3>3
  <2>3. QED
    BY <2>1, <2>2
<1>7. QED
  BY <1>2, <1>3, <1>4, <1>5, <1>6

\* An emission inserts the rows of the changes numbered from nextId.
LEMMA EmitNumbers ==
  ASSUME NEW t \in Requests
  PROVE  EventRows(t) = RowsFrom(t, nextId)
BY DEF EventRows, RowsFrom, ChangeRow

OutboxInv == BatchInv /\ IdsInv /\ OutboxMatchesConfirmed

\* Emissions, commits and rollbacks are all that touches outbox rows, confirms or
\* logs a confirmation.
LEMMA OutboxCases ==
  ASSUME IInv, [Next]_vars
  PROVE  \/ \E t \in Requests : EmitOutbox(t) \/ Commit(t) \/ Rollback(t)
         \/ /\ UNCHANGED <<stock, outbox, batch, nextId>>
            /\ Confirmed' = Confirmed
            /\ \A m \in Movements : <<"confirm", m>> \in audit' <=> <<"confirm", m>> \in audit
            /\ \A u \in Requests : pc'[u] = "commit" <=> pc[u] = "commit"
            /\ \A u \in Requests : pc[u] = "commit" =>
                 target'[u] = target[u] /\ changes'[u] = changes[u]
<1> DEFINE Quiet == /\ UNCHANGED <<stock, outbox, batch, nextId>>
                    /\ Confirmed' = Confirmed
                    /\ \A m \in Movements :
                         <<"confirm", m>> \in audit' <=> <<"confirm", m>> \in audit
                    /\ \A u \in Requests : pc'[u] = "commit" <=> pc[u] = "commit"
                    /\ \A u \in Requests : pc[u] = "commit" =>
                         target'[u] = target[u] /\ changes'[u] = changes[u]
<1>1. CASE UNCHANGED vars
  BY <1>1 DEF vars, tables, txState, progress, Confirmed
<1>2. ASSUME NEW t \in Requests, NEW o \in {"confirm", "cancel"}, NEW m \in Movements,
             Call(t, o, m)
      PROVE  Quiet
  BY <1>2 DEF Call, Goto, tables, txState, progress, Confirmed, IInv, MovementTypeOK
<1>3. ASSUME NEW t \in Requests, NEW ln \in Lines, NextLine(t, ln)
      PROVE  Quiet
  BY <1>3 DEF NextLine, Goto, tables, txState, Confirmed, IInv, MovementTypeOK
<1>4. ASSUME NEW t \in Requests, Begin(t) \/ ValidateWarehousesActive(t) \/ UpdateStatus(t)
                                 \/ CancelRead(t)
      PROVE  Quiet
  BY <1>4 DEF Begin, ValidateWarehousesActive, UpdateStatus, CancelRead, Goto, tables,
              txState, progress, Confirmed, IInv, MovementTypeOK
<1>5. ASSUME NEW t \in Requests, GetByIDForUpdate(t) \/ GetBalanceRowForUpdate(t)
      PROVE  Quiet
  BY <1>5 DEF GetByIDForUpdate, GetBalanceRowForUpdate, Goto, tables, progress, Confirmed,
              IInv, MovementTypeOK
<1>6. ASSUME NEW t \in Requests, ApplyLine(t)
      PROVE  Quiet
  BY <1>6 DEF ApplyLine, Goto, tables, Confirmed, IInv, MovementTypeOK
<1>7. ASSUME NEW t \in Requests, PublishStockChanged(t)
      PROVE  Quiet
  BY <1>7 DEF PublishStockChanged, Goto, Answered, tables, txState, Confirmed, IInv, MovementTypeOK
<1>8. ASSUME NEW t \in Requests, CancelUpdateStatus(t)
      PROVE  Quiet
  <2>1. /\ UNCHANGED <<stock, outbox, batch, nextId, audit, target, changes>>
        /\ \A u \in Requests : pc'[u] = "commit" <=> pc[u] = "commit"
    BY <1>8 DEF CancelUpdateStatus, Goto, txState, progress, IInv, MovementTypeOK
  <2>2. Confirmed' = Confirmed
    <3>1. \/ UNCHANGED status
          \/ /\ status[target[t]] = "draft"
             /\ status' = [status EXCEPT ![target[t]] = "cancelled"]
      BY <1>8 DEF CancelUpdateStatus
    <3>2. QED
      BY <3>1 DEF Confirmed, IInv, MovementTypeOK
  <2>3. QED
    BY <2>1, <2>2
<1>9. ASSUME NEW t \in Requests, CancelAudit(t)
      PROVE  Quiet
  BY <1>9 DEF CancelAudit, Goto, txState, progress, Confirmed, IInv, MovementTypeOK
<1>10. QED
  BY <1>1, <1>2, <1>3, <1>4, <1>5, <1>6, <1>7, <1>8, <1>9, StepCases

\* Nothing is emitted, stored or confirmed at the start.
LEMMA InitOutbox == Init => OutboxInv
BY DEF Init, OutboxInv, BatchInv, IdsInv, AllRows, OutboxMatchesConfirmed, Confirmed, Created

\* An emission takes a block of new numbers and shows nothing to anybody yet.
LEMMA EmitOutboxInv ==
  ASSUME IInv, OutboxInv, NEW t \in Requests, EmitOutbox(t)
  PROVE  OutboxInv'
<1>1. /\ pc[t] = "emit" /\ pc' = [pc EXCEPT ![t] = "commit"]
      /\ batch' = [batch EXCEPT ![t] = RowsFrom(t, nextId)]
      /\ nextId' = nextId + Len(changes[t]) + 1
      /\ UNCHANGED <<status, outbox, audit, target, changes>>
  BY EmitNumbers DEF EmitOutbox, Goto, tables, progress
<1>2. /\ nextId \in Nat /\ changes[t] \in Seq(Changes) /\ Len(changes[t]) \in Nat
      /\ outbox \subseteq OutboxRows /\ batch \in [Requests -> SUBSET OutboxRows]
      /\ pc \in [Requests -> {"idle"} \cup Running \cup Answered]
  BY DEF IInv, MovementTypeOK
<1>3. BatchInv'
  <2> SUFFICES ASSUME NEW u \in Requests PROVE BatchInv!(u)'
    BY DEF BatchInv
  <2>1. CASE u = t
    <3>1. /\ pc'[t] = "commit" /\ batch'[t] = RowsFrom(t, nextId) /\ nextId \in 0 .. nextId'
          /\ nextId + Len(changes'[t]) < nextId'
          /\ \A n : RowsFrom(t, n)' = RowsFrom(t, n)
      BY <1>1, <1>2 DEF RowsFrom, ChangeRow
    <3>2. QED
      BY <2>1, <3>1
  <2>2. CASE u # t
    <3>1. /\ batch'[u] = batch[u] /\ pc'[u] = pc[u]
          /\ \A n : RowsFrom(u, n)' = RowsFrom(u, n)
      BY <1>1, <1>2, <2>2 DEF RowsFrom, ChangeRow
    <3>2. BatchInv!(u)
      BY DEF OutboxInv, BatchInv
    <3>3. QED
      BY <1>1, <1>2, <3>1, <3>2
  <2>3. QED
    BY <2>1, <2>2
<1>4. IdsInv'
  <2>1. /\ \A r \in RowsFrom(t, nextId) : r.id \in nextId .. nextId + Len(changes[t])
        /\ \A r1, r2 \in RowsFrom(t, nextId) : r1.id = r2.id => r1 = r2
    BY <1>2, RowsFromFacts
  <2>2. AllRows' \subseteq AllRows \cup RowsFrom(t, nextId)
    BY <1>1, <1>2 DEF AllRows
  <2>3. \A r \in AllRows : r.id \in Nat /\ r.id < nextId
    BY <1>2 DEF OutboxInv, IdsInv, AllRows, OutboxRows
  <2>4. \A r1, r2 \in AllRows : r1.id = r2.id => r1 = r2
    BY DEF OutboxInv, IdsInv
  <2>5. \A r \in AllRows' : r.id < nextId'
    BY <1>1, <1>2, <2>1, <2>2, <2>3
  <2>6. \A r1, r2 \in AllRows' : r1.id = r2.id => r1 = r2
    <3> SUFFICES ASSUME NEW r1 \in AllRows', NEW r2 \in AllRows', r1.id = r2.id
                 PROVE  r1 = r2
      OBVIOUS
    <3>1. CASE r1 \in AllRows /\ r2 \in AllRows
      BY <2>4, <3>1
    <3>2. CASE r1 \in RowsFrom(t, nextId) /\ r2 \in RowsFrom(t, nextId)
      BY <2>1, <3>2
    <3>3. CASE \/ r1 \in AllRows /\ r2 \in RowsFrom(t, nextId)
               \/ r2 \in AllRows /\ r1 \in RowsFrom(t, nextId)
      BY <1>2, <2>1, <2>3, <3>3
    <3>4. QED
      BY <2>2, <3>1, <3>2, <3>3
  <2>7. QED
    BY <2>5, <2>6 DEF IdsInv
<1>5. OutboxMatchesConfirmed'
  BY <1>1 DEF OutboxInv, OutboxMatchesConfirmed, Confirmed, Created
<1>6. QED
  BY <1>3, <1>4, <1>5 DEF OutboxInv

\* A commit makes the rows of t visible with the confirmation they tell of.
LEMMA CommitOutboxInv ==
  ASSUME IInv, OutboxInv, NEW t \in Requests, Commit(t)
  PROVE  OutboxInv'
<1> DEFINE m == target[t]
<1>1. /\ pc[t] = "commit" /\ pc' = [pc EXCEPT ![t] = "publish"]
      /\ batch' = [batch EXCEPT ![t] = {}]
      /\ outbox' = outbox \cup batch[t]
      /\ status' = [status EXCEPT ![m] = "confirmed"]
      /\ audit' = audit \cup {<<"confirm", m>>}
      /\ UNCHANGED <<nextId, target, changes>>
  BY DEF Commit, Release, Goto
<1>2. m \in Movements /\ status[m] = "draft"
  BY <1>1 DEF IInv, HeaderHeld, InTx
<1>3. /\ nextId \in Nat /\ changes[t] \in Seq(Changes)
      /\ batch \in [Requests -> SUBSET OutboxRows]
      /\ pc \in [Requests -> {"idle"} \cup Running \cup Answered]
      /\ status \in [Movements -> {"draft", "confirmed", "cancelled"}]
  BY DEF IInv, MovementTypeOK
<1>4. PICK n \in 0 .. nextId : batch[t] = RowsFrom(t, n) /\ n + Len(changes[t]) < nextId
  BY <1>1 DEF OutboxInv, BatchInv
<1>5. /\ \A r \in batch[t] : r.mv = m
      /\ \E c \in batch[t] : \A r \in batch[t] : r.type = "MovementCreated" <=> r = c
  BY <1>3, <1>4, RowsFromFacts
<1> HIDE DEF m
<1>6. BatchInv'
  <2> SUFFICES ASSUME NEW u \in Requests PROVE BatchInv!(u)'
    BY DEF BatchInv
  <2>1. CASE u = t
    BY <1>1, <1>3, <2>1
  <2>2. CASE u # t
    <3>1. /\ batch'[u] = batch[u] /\ pc'[u] = pc[u]
          /\ \A i : RowsFrom(u, i)' = RowsFrom(u, i)
      BY <1>1, <1>3, <2>2 DEF RowsFrom, ChangeRow
    <3>2. BatchInv!(u)
      BY DEF OutboxInv, BatchInv
    <3>3. QED
      BY <1>1, <3>1, <3>2
  <2>3. QED
    BY <2>1, <2>2
<1>7. IdsInv'
  <2>1. AllRows' = AllRows
    BY <1>1, <1>3 DEF AllRows
  <2>2. QED
    BY <1>1, <2>1 DEF OutboxInv, IdsInv
<1>8. OutboxMatchesConfirmed'
  <2>1. Confirmed' = Confirmed \cup {m} /\ m \notin Confirmed
    BY <1>1, <1>2, <1>3 DEF Confirmed
  <2>2. {r.mv : r \in outbox'} = Confirmed'
    BY <1>1, <1>5, <2>1 DEF OutboxInv, OutboxMatchesConfirmed
  <2>3. ASSUME NEW x \in Confirmed'
        PROVE  \E r \in Created(x)' : Created(x)' = {r}
    <3>1. CASE x = m
      <4>1. \A r \in outbox : r.mv # m
        BY <2>1 DEF OutboxInv, OutboxMatchesConfirmed
      <4>2. QED
        BY <1>1, <1>5, <3>1, <4>1 DEF Created
    <3>2. CASE x # m
      <4>1. Created(x)' = Created(x)
        BY <1>1, <1>5, <3>2 DEF Created
      <4>2. x \in Confirmed
        BY <2>1, <2>3, <3>2
      <4>3. QED
        BY <4>1, <4>2 DEF OutboxInv, OutboxMatchesConfirmed
    <3>3. QED
      BY <3>1, <3>2
  <2>4. \A r1, r2 \in outbox' : r1.id = r2.id => r1 = r2
    BY <1>7 DEF IdsInv, AllRows
  <2>5. {x \in Movements : <<"confirm", x>> \in audit'} = Confirmed'
    BY <1>1, <1>2, <2>1 DEF OutboxInv, OutboxMatchesConfirmed
  <2>6. QED
    BY <2>2, <2>3, <2>4, <2>5 DEF OutboxMatchesConfirmed
<1>9. QED
  BY <1>6, <1>7, <1>8 DEF OutboxInv

\* A rollback takes its rows with it.
LEMMA RollbackOutboxInv ==
  ASSUME IInv, OutboxInv, NEW t \in Requests, Rollback(t)
  PROVE  OutboxInv'
<1>1. /\ pc' = [pc EXCEPT ![t] = "failed"]
      /\ batch' = [batch EXCEPT ![t] = {}]
      /\ changes' = [changes EXCEPT ![t] = <<>>]
      /\ UNCHANGED <<status, outbox, audit, nextId, target>>
  BY DEF Rollback, Release, Goto, tables
<1>2. /\ batch \in [Requests -> SUBSET OutboxRows]
      /\ pc \in [Requests -> {"idle"} \cup Running \cup Answered]
      /\ changes \in [Requests -> Seq(Changes)]
  BY DEF IInv, MovementTypeOK
<1>3. BatchInv'
  <2> SUFFICES ASSUME NEW u \in Requests PROVE BatchInv!(u)'
    BY DEF BatchInv
  <2>1. CASE u = t
    BY <1>1, <1>2, <2>1
  <2>2. CASE u # t
    <3>1. /\ batch'[u] = batch[u] /\ pc'[u] = pc[u] /\ changes'[u] = changes[u]
          /\ \A i : RowsFrom(u, i)' = RowsFrom(u, i)
      BY <1>1, <1>2, <2>2 DEF RowsFrom, ChangeRow
    <3>2. BatchInv!(u)
      BY DEF OutboxInv, BatchInv
    <3>3. QED
      BY <1>1, <3>1, <3>2
  <2>3. QED
    BY <2>1, <2>2
<1>4. AllRows' \subseteq AllRows
  BY <1>1, <1>2 DEF AllRows
<1>5. IdsInv' /\ OutboxMatchesConfirmed'
  BY <1>1, <1>4 DEF OutboxInv, IdsInv, OutboxMatchesConfirmed, Confirmed, Created
<1>6. QED
  BY <1>3, <1>5 DEF OutboxInv

\* Every step keeps outbox, audit trail and statuses together.
LEMMA OutboxStep ==
  ASSUME IInv, OutboxInv, [Next]_vars
  PROVE  OutboxInv'
<1>1. CASE \E t \in Requests : EmitOutbox(t) \/ Commit(t) \/ Rollback(t)
  BY <1>1, EmitOutboxInv, CommitOutboxInv, RollbackOutboxInv
<1>2. CASE /\ UNCHANGED <<stock, outbox, batch, nextId>>
           /\ Confirmed' = Confirmed
           /\ \A m \in Movements : <<"confirm", m>> \in audit' <=> <<"confirm", m>> \in audit
           /\ \A u \in Requests : pc'[u] = "commit" <=> pc[u] = "commit"
           /\ \A u \in Requests : pc[u] = "commit" =>
                target'[u] = target[u] /\ changes'[u] = changes[u]
  <2>1. BatchInv'
    <3> SUFFICES ASSUME NEW u \in Requests PROVE BatchInv!(u)'
      BY DEF BatchInv
    <3>1. pc[u] = "commit" => \A n : RowsFrom(u, n)' = RowsFrom(u, n)
      BY <1>2 DEF RowsFrom, ChangeRow
    <3>2. BatchInv!(u)
      BY DEF OutboxInv, BatchInv
    <3>3. QED
      BY <1>2, <3>1, <3>2
  <2>2. IdsInv'
    BY <1>2 DEF OutboxInv, IdsInv, AllRows
  <2>3. OutboxMatchesConfirmed'
    BY <1>2 DEF OutboxInv, OutboxMatchesConfirmed, Created
  <2>4. QED
    BY <2>1, <2>2, <2>3 DEF OutboxInv
<1>3. QED
  BY <1>1, <1>2, OutboxCases

\* The transactional outbox and the audit trail tell of exactly the confirmed
\* movements, each of them once, and no two rows share an id.
THEOREM OutboxTellsConfirmed == Spec => []OutboxMatchesConfirmed
<1>1. Init => OutboxInv
  BY InitOutbox
<1>2. IInv /\ OutboxInv /\ [Next]_vars => OutboxInv'
  BY OutboxStep
<1>3. OutboxInv => OutboxMatchesConfirmed
  BY DEF OutboxInv
<1>4. QED
  BY <1>1, <1>2, <1>3, InvariantHolds, PTL DEF Spec

-----------------------------------------------------------------------------
\* The changes of a transaction.

LEMMA InitChanges == Init => ChangesInv
BY DEF Init, ChangesInv, InTx

\* Changes are of rows of the database.
LEMMA ChangeTypes ==
  ASSUME IInv, NEW t \in Requests
  PROVE  /\ changes[t] \in Seq(Changes) /\ Len(changes[t]) \in Nat
         /\ DOMAIN changes[t] = 1 .. Len(changes[t])
         /\ \A i \in DOMAIN changes[t] :
              changes[t][i].key \in Keys /\ changes[t][i].old \in Int /\ changes[t][i].new \in Int
<1>1. changes[t] \in Seq(Changes)
  BY DEF IInv, MovementTypeOK
<1>2. \A i \in DOMAIN changes[t] : changes[t][i] \in Changes
  BY <1>1
<1>3. QED
  BY <1>1, <1>2 DEF Changes

\* A request keeps its part of ChangesInv while its changes, its place and the rows
\* that it holds stay as they are.
LEMMA SameChanges ==
  ASSUME IInv, ChangesInv, NEW u \in Requests,
         pc'[u] = pc[u], changes'[u] = changes[u],
         \A k \in Keys : rowLock'[k] = u <=> rowLock[k] = u,
         \A k \in Keys : rowLock[k] = u => stock'[k] = stock[k] /\ work'[k] = work[k]
  PROVE  ChangesInv!(u)'
BY ChangeTypes DEF ChangesInv

\* The rows that a line changes are rows of the database, different ones, and are
\* those on which it has an effect.
LEMMA TouchedFacts ==
  ASSUME NEW m \in Movements, NEW ln \in Doc[m].lines
  PROVE  /\ Touched(m, ln) \in Seq(Keys)
         /\ \A i, j \in DOMAIN Touched(m, ln) : Touched(m, ln)[i] = Touched(m, ln)[j] => i = j
         /\ \A i \in DOMAIN Touched(m, ln) : Delta(m, ln, Touched(m, ln)[i]) # 0
         /\ \A k \in Keys : Delta(m, ln, k) # 0 =>
              \E i \in DOMAIN Touched(m, ln) : Touched(m, ln)[i] = k
         /\ Len(Touched(m, ln)) \in {1, 2}
<1> DEFINE p == Item[ln].product
           src == <<Doc[m].src, p>>
           dst == <<Doc[m].dst, p>>
<1>1. /\ ln \in Lines /\ p \in Products /\ Item[ln].qty \in Nat \ {0}
      /\ Doc[m] \in Documents /\ ValidateMovementWarehouses(Doc[m])
  BY DocAssumption DEF Documents
<1>2. /\ Doc[m].src # None => src \in Keys
      /\ Doc[m].dst # None => dst \in Keys
  BY <1>1 DEF Documents, Keys
<1>3. /\ Doc[m].src # None \/ Doc[m].dst # None
      /\ Doc[m].src # None /\ Doc[m].dst # None => Doc[m].src # Doc[m].dst
  BY <1>1 DEF ValidateMovementWarehouses, Documents, Types
<1>4. ASSUME NEW k \in Keys, Delta(m, ln, k) # 0
      PROVE  \/ Doc[m].dst # None /\ k = dst
             \/ Doc[m].src # None /\ k = src
  BY <1>4, <1>1, SetsAssumption DEF Delta, Keys
<1>5. Delta(m, ln, dst) # 0 /\ (Doc[m].src # Doc[m].dst => Delta(m, ln, src) # 0)
  <2>1. dst[1] = Doc[m].dst /\ dst[2] = p /\ src[1] = Doc[m].src /\ src[2] = p
    OBVIOUS
  <2>2. QED
    BY <1>1, <2>1 DEF Delta
<1>6. CASE Doc[m].src = None
  <2>1. Touched(m, ln) = <<dst>>
    BY <1>6 DEF Touched
  <2>2. QED
    BY <2>1, <1>2, <1>3, <1>4, <1>5, <1>6
<1>7. CASE Doc[m].src # None /\ Doc[m].dst = None
  <2>1. Touched(m, ln) = <<src>>
    BY <1>7 DEF Touched
  <2>2. QED
    BY <2>1, <1>2, <1>4, <1>5, <1>7
<1>8. CASE Doc[m].src # None /\ Doc[m].dst # None
  <2>1. /\ Touched(m, ln) = <<src, dst>>
        /\ src # dst
    BY <1>3, <1>8 DEF Touched
  <2> HIDE DEF src, dst
  <2>2. /\ Touched(m, ln) \in Seq(Keys) /\ Len(Touched(m, ln)) = 2
        /\ DOMAIN Touched(m, ln) = 1 .. 2
        /\ Touched(m, ln)[1] = src /\ Touched(m, ln)[2] = dst
    BY <2>1, <1>2, <1>8
  <2>3. \A i \in DOMAIN Touched(m, ln) : i = 1 \/ i = 2
    BY <2>2
  <2>4. QED
    BY <2>1, <2>2, <2>3, <1>3, <1>4, <1>5, <1>8
<1>9. QED
  BY <1>6, <1>7, <1>8

\* More changes say nothing else about those before.
LEMMA ToldStays ==
  ASSUME NEW s \in Seq(Changes), NEW d \in Seq(Changes), NEW k, NEW start, NEW q,
         NEW n \in 0 .. Len(s), Told(s, k, start, n, q)
  PROVE  Told(s \o d, k, start, n, q)
<1>1. \A j \in 1 .. n : (s \o d)[j] = s[j]
  OBVIOUS
<1>2. \A j \in 1 .. n : \A l \in j + 1 .. n : (s \o d)[l] = s[l]
  OBVIOUS
<1> DEFINE r == s \o d
<1>3. \A j \in 1 .. n : r[j] = s[j] /\ \A l \in j + 1 .. n : r[l] = s[l]
  BY <1>1, <1>2
<1> HIDE DEF r
<1>4. Told(r, k, start, n, q)
  BY <1>3 DEF Told
<1>5. QED
  BY <1>4 DEF r

\* Changes of other rows say nothing about a row.
LEMMA ToldGrows ==
  ASSUME NEW s \in Seq(Changes), NEW d \in Seq(Changes), NEW k, NEW start, NEW q,
         NEW p \in 0 .. Len(d), \A j \in 1 .. p : d[j].key # k,
         Told(s, k, start, Len(s), q)
  PROVE  Told(s \o d, k, start, Len(s) + p, q)
<1> DEFINE r == s \o d
           L == Len(s)
<1>1. /\ L \in Nat /\ p \in Nat
      /\ \A j \in 1 .. L : r[j] = s[j]
      /\ \A j \in 1 .. p : r[L + j] = d[j]
  OBVIOUS
<1>2. Told(s, k, start, L, q)
  OBVIOUS
<1> HIDE DEF r, L
<1>3. \A l \in 1 .. L + p : l \in 1 .. L \/ (l - L \in 1 .. p /\ l = L + (l - L))
  BY <1>1
<1>4. \A l \in 1 .. L + p : l \notin 1 .. L => r[l].key # k
  BY <1>1, <1>3
<1>5. CASE q = start /\ \A j \in 1 .. L : s[j].key # k
  <2>1. \A j \in 1 .. L + p : r[j].key # k
    BY <1>1, <1>4, <1>5
  <2>2. Told(r, k, start, L + p, q)
    BY <1>5, <2>1 DEF Told
  <2>3. QED
    BY <2>2 DEF r, L
<1>6. CASE \E j \in 1 .. L : /\ s[j].key = k /\ s[j].new = q
                             /\ \A l \in j + 1 .. L : s[l].key # k
  <2>1. PICK j \in 1 .. L : /\ s[j].key = k /\ s[j].new = q
                            /\ \A l \in j + 1 .. L : s[l].key # k
    BY <1>6
  <2>2. /\ j \in 1 .. L + p /\ r[j].key = k /\ r[j].new = q
        /\ \A l \in j + 1 .. L + p : r[l].key # k
    BY <1>1, <1>4, <2>1
  <2>3. Told(r, k, start, L + p, q)
    BY <2>2 DEF Told
  <2>4. QED
    BY <2>3 DEF r, L
<1>7. QED
  BY <1>2, <1>5, <1>6 DEF Told

\* A line adds one change per row that it touches, from the quantity that t sees to
\* the one it sees then.
LEMMA ApplyLineChanges ==
  ASSUME IInv, ChangesInv, NEW t \in Requests, ApplyLine(t)
  PROVE  ChangesInv!(t)'
<1> DEFINE m == target[t]
           ln == line[t]
           ks == Touched(m, ln)
           s == changes[t]
           L == Len(s)
           d == LineChanges(t)
           r == changes'[t]
<1>1. /\ pc[t] = "rows" /\ pc'[t] = "lines" /\ plan[t] = <<>>
      /\ work' = [k \in Keys |-> work[k] + Delta(m, ln, k)]
      /\ r = s \o d
      /\ UNCHANGED <<stock, rowLock>>
  BY DEF ApplyLine, Goto, tables, IInv, MovementTypeOK
<1>2. /\ m \in Movements /\ ln \in Doc[m].lines
      /\ \A k \in Keys : Delta(m, ln, k) # 0 => rowLock[k] = t
  BY <1>1 DEF IInv, HeaderHeld, LineLocked
<1>3. /\ ks \in Seq(Keys) /\ Len(ks) \in {1, 2} /\ DOMAIN ks = 1 .. Len(ks)
      /\ \A i, j \in DOMAIN ks : ks[i] = ks[j] => i = j
      /\ \A i \in DOMAIN ks : ks[i] \in Keys /\ rowLock[ks[i]] = t
      /\ \A k \in Keys : Delta(m, ln, k) # 0 => \E i \in DOMAIN ks : ks[i] = k
  <2>1. /\ ks \in Seq(Keys) /\ Len(ks) \in {1, 2}
        /\ \A i, j \in DOMAIN ks : ks[i] = ks[j] => i = j
        /\ \A i \in DOMAIN ks : Delta(m, ln, ks[i]) # 0
        /\ \A k \in Keys : Delta(m, ln, k) # 0 => \E i \in DOMAIN ks : ks[i] = k
    BY <1>2, TouchedFacts
  <2> HIDE DEF ks
  <2>2. DOMAIN ks = 1 .. Len(ks) /\ \A i \in DOMAIN ks : ks[i] \in Keys
    BY <2>1
  <2>3. QED
    BY <1>2, <2>1, <2>2
<1>4. /\ s \in Seq(Changes) /\ L \in Nat /\ DOMAIN s = 1 .. L
      /\ \A i \in DOMAIN s : s[i].key \in Keys
  BY ChangeTypes
<1>5. /\ d \in Seq(Changes) /\ Len(d) = Len(ks)
      /\ \A i \in DOMAIN ks : d[i].key = ks[i] /\ d[i].old = work[ks[i]] /\ d[i].new = work'[ks[i]]
  <2>1. d = [i \in 1 .. Len(ks) |-> [key |-> ks[i], old |-> work[ks[i]],
                                     new |-> work[ks[i]] + Delta(m, ln, ks[i])]]
    BY <1>3 DEF LineChanges
  <2>2. \A i \in 1 .. Len(ks) : ks[i] \in Keys /\ work[ks[i]] \in Int /\ Delta(m, ln, ks[i]) \in Int
    <3>1. MaxQty \in Nat /\ work \in [Keys -> 0 .. MaxQty]
      BY SetsAssumption DEF IInv, MovementTypeOK
    <3>2. QED
      BY <1>2, <1>3, <3>1, DeltaInt
  <2> HIDE DEF ks, d
  <2>3. \A i \in 1 .. Len(ks) : [key |-> ks[i], old |-> work[ks[i]],
                                 new |-> work[ks[i]] + Delta(m, ln, ks[i])] \in Changes
    BY <2>2 DEF Changes
  <2>4. QED
    BY <1>1, <1>3, <2>1, <2>2, <2>3
<1>6. /\ \A k \in Keys : rowLock[k] = t => Told(s, k, stock[k], L, work[k])
      /\ \A i \in DOMAIN s : /\ rowLock[s[i].key] = t
                             /\ Told(s, s[i].key, stock[s[i].key], i - 1, s[i].old)
  BY <1>1 DEF ChangesInv, InTx
<1> HIDE DEF ks, d, s, L, m, ln, r
<1>7. /\ Len(r) = L + Len(ks) /\ DOMAIN r = 1 .. L + Len(ks)
      /\ \A i \in 1 .. L : r[i] = s[i]
      /\ \A i \in 1 .. Len(ks) : r[L + i] = d[i]
  BY <1>1, <1>3, <1>4, <1>5 DEF L
<1>8. ASSUME NEW i \in DOMAIN r
      PROVE  rowLock[r[i].key] = t /\ Told(r, r[i].key, stock[r[i].key], i - 1, r[i].old)
  <2>1. CASE i \in 1 .. L
    <3>1. /\ r[i] = s[i] /\ i - 1 \in 0 .. Len(s) /\ rowLock[s[i].key] = t
          /\ Told(s, s[i].key, stock[s[i].key], i - 1, s[i].old)
      BY <1>4, <1>6, <1>7, <2>1 DEF L
    <3>2. Told(s \o d, s[i].key, stock[s[i].key], i - 1, s[i].old)
      BY <1>4, <1>5, <3>1, ToldStays
    <3>3. QED
      BY <1>1, <3>1, <3>2
  <2>2. CASE i \notin 1 .. L
    <3> DEFINE p == i - L
    <3>1. p \in 1 .. Len(ks) /\ p - 1 \in 0 .. Len(d) /\ i = L + p /\ L + (p - 1) = i - 1
      BY <1>3, <1>4, <1>5, <1>7, <2>2
    <3> HIDE DEF p
    <3>2. r[i].key = ks[p] /\ r[i].old = work[ks[p]] /\ ks[p] \in Keys /\ rowLock[ks[p]] = t
      BY <1>3, <1>5, <1>7, <3>1
    <3>3. \A j \in 1 .. p - 1 : d[j].key # ks[p]
      BY <1>3, <1>5, <3>1
    <3>4. Told(s, ks[p], stock[ks[p]], Len(s), work[ks[p]])
      BY <1>6, <3>2 DEF L
    <3>5. Told(s \o d, ks[p], stock[ks[p]], Len(s) + (p - 1), work[ks[p]])
      BY <1>4, <1>5, <3>1, <3>3, <3>4, ToldGrows
    <3>6. QED
      BY <1>1, <3>1, <3>2, <3>5 DEF L
  <2>3. QED
    BY <2>1, <2>2
<1>9. ASSUME NEW k \in Keys, rowLock[k] = t
      PROVE  Told(r, k, stock[k], Len(r), work'[k])
  <2>1. CASE \E i \in DOMAIN ks : ks[i] = k
    <3>1. PICK i \in DOMAIN ks : ks[i] = k
      BY <2>1
    <3>2. L + i \in 1 .. Len(r) /\ r[L + i].key = k /\ r[L + i].new = work'[k]
      BY <1>3, <1>4, <1>5, <1>7, <3>1
    <3>3. ASSUME NEW l \in L + i + 1 .. Len(r)
          PROVE  r[l].key # k
      <4>1. l - L \in 1 .. Len(ks) /\ l - L # i /\ L + (l - L) = l
        BY <1>3, <1>4, <1>7
      <4>2. r[l].key = ks[l - L]
        BY <1>3, <1>5, <1>7, <4>1
      <4>3. QED
        BY <1>3, <3>1, <4>1, <4>2
    <3>4. QED
      BY <3>2, <3>3 DEF Told
  <2>2. CASE ~ \E i \in DOMAIN ks : ks[i] = k
    <3>1. work'[k] = work[k]
      <4>1. Delta(m, ln, k) = 0 /\ work[k] \in Int
        BY <1>3, <2>2, SetsAssumption DEF IInv, MovementTypeOK
      <4>2. QED
        BY <1>1, <4>1
    <3>2. Told(s, k, stock[k], Len(s), work[k])
      BY <1>6, <1>9 DEF L
    <3>3. Len(ks) \in 0 .. Len(d) /\ \A j \in 1 .. Len(ks) : d[j].key # k
      BY <1>3, <1>5, <2>2
    <3>4. Told(s \o d, k, stock[k], Len(s) + Len(ks), work[k])
      BY <1>4, <1>5, <3>2, <3>3, ToldGrows
    <3>5. QED
      BY <1>1, <1>7, <3>1, <3>4 DEF L
  <2>3. QED
    BY <2>1, <2>2
<1>10. QED
  BY <1>1, <1>8, <1>9 DEF InTx, r

\* Every step keeps the changes of all transactions together with their rows.
LEMMA ChangesStep ==
  ASSUME IInv, ChangesInv, [Next]_vars
  PROVE  ChangesInv'
<1>1. CASE UNCHANGED vars
  <2>1. UNCHANGED <<pc, changes, rowLock, stock, work>>
    BY <1>1 DEF vars, tables, txState, progress
  <2>2. ASSUME NEW u \in Requests PROVE ChangesInv!(u)'
    BY <2>1, SameChanges
  <2>3. QED
    BY <2>2 DEF ChangesInv
<1>2. ASSUME NEW t \in Requests, UNCHANGED <<stock, work, rowLock, changes>>,
             \A u \in Requests \ {t} : pc'[u] = pc[u],
             \/ pc'[t] \notin InTx \cup {"publish"} /\ changes[t] = <<>>
             \/ pc[t] \in InTx /\ pc'[t] \in InTx \ {"check"}
             \/ pc[t] \notin InTx /\ changes[t] = <<>>
      PROVE  ChangesInv'
  <2>1. ASSUME NEW u \in Requests \ {t} PROVE ChangesInv!(u)'
    BY <1>2, SameChanges
  <2>2. pc[t] \notin InTx => \A k \in Keys : rowLock[k] # t
    BY SetsAssumption DEF IInv, LocksHaveOwners
  <2>3. changes[t] = <<>> => DOMAIN changes[t] = {}
    OBVIOUS
  <2>4. ChangesInv!(t)'
    BY <1>2, <2>2, <2>3 DEF ChangesInv
  <2>5. QED
    BY <2>1, <2>4 DEF ChangesInv
<1>3. ASSUME NEW t \in Requests, NEW o \in {"confirm", "cancel"}, NEW m \in Movements,
             Call(t, o, m)
      PROVE  ChangesInv'
  <2>1. /\ pc[t] = "idle" /\ pc'[t] \in {"begin", "read"}
        /\ \A u \in Requests \ {t} : pc'[u] = pc[u]
        /\ UNCHANGED <<stock, work, rowLock, changes>>
    BY <1>3 DEF Call, Goto, tables, txState, progress, IInv, MovementTypeOK
  <2>2. changes[t] = <<>>
    BY <2>1 DEF ChangesInv, InTx
  <2>3. QED
    BY <2>1, <2>2, <1>2 DEF InTx
<1>4. ASSUME NEW t \in Requests,
             \/ \E ln \in Lines : NextLine(t, ln)
             \/ ValidateWarehousesActive(t) \/ UpdateStatus(t)
      PROVE  ChangesInv'
  <2>1. /\ pc[t] \in InTx /\ pc'[t] \in InTx \ {"check"}
        /\ \A u \in Requests \ {t} : pc'[u] = pc[u]
        /\ UNCHANGED <<stock, work, rowLock, changes>>
    BY <1>4 DEF NextLine, ValidateWarehousesActive, UpdateStatus, Goto, tables, txState,
                progress, IInv, MovementTypeOK, InTx
  <2>2. QED
    BY <2>1, <1>2
<1>5. ASSUME NEW t \in Requests, EmitOutbox(t)
      PROVE  ChangesInv'
  <2>1. /\ pc[t] \in InTx /\ pc'[t] \in InTx \ {"check"}
        /\ \A u \in Requests \ {t} : pc'[u] = pc[u]
        /\ UNCHANGED <<stock, work, rowLock, changes>>
    BY <1>5 DEF EmitOutbox, Goto, tables, progress, IInv, MovementTypeOK, InTx
  <2>2. QED
    BY <2>1, <1>2
<1>6. ASSUME NEW t \in Requests, Begin(t) \/ GetByIDForUpdate(t) \/ CancelRead(t)
      PROVE  ChangesInv'
  <2>1. /\ pc[t] \in {"begin", "update", "lock", "read"}
        /\ \A u \in Requests \ {t} : pc'[u] = pc[u]
        /\ UNCHANGED <<stock, work, rowLock, changes>>
    BY <1>6 DEF Begin, GetByIDForUpdate, CancelRead, Goto, tables, txState, progress, IInv, MovementTypeOK
  <2>2. pc[t] \notin InTx /\ changes[t] = <<>>
    BY <2>1 DEF ChangesInv, InTx
  <2>3. QED
    BY <2>1, <2>2, <1>2
<1>7. ASSUME NEW t \in Requests, CancelUpdateStatus(t) \/ CancelAudit(t)
      PROVE  ChangesInv'
  <2>1. /\ pc[t] \in {"cas", "audit"}
        /\ \A u \in Requests \ {t} : pc'[u] = pc[u]
        /\ UNCHANGED <<stock, work, rowLock, changes>>
    BY <1>7 DEF CancelUpdateStatus, CancelAudit, Goto, txState, progress, IInv, MovementTypeOK
  <2>2. pc[t] \notin InTx /\ changes[t] = <<>>
    BY <2>1 DEF ChangesInv, InTx
  <2>3. QED
    BY <2>1, <2>2, <1>2
<1>8. ASSUME NEW t \in Requests, GetBalanceRowForUpdate(t)
      PROVE  ChangesInv'
  <2> DEFINE r == Head(plan[t])
  <2>1. /\ pc[t] = "rows" /\ r \in Keys /\ rowLock[r] \in {None, t}
        /\ rowLock' = [rowLock EXCEPT ![r] = t]
        /\ UNCHANGED <<stock, work, pc, changes>>
    BY <1>8 DEF GetBalanceRowForUpdate, tables, IInv, MovementTypeOK
  <2> HIDE DEF r
  <2>2. ASSUME NEW u \in Requests \ {t} PROVE ChangesInv!(u)'
    <3>1. \A k \in Keys : rowLock'[k] = u <=> rowLock[k] = u
      BY <2>1, SetsAssumption DEF IInv, MovementTypeOK
    <3>2. QED
      BY <2>1, <3>1, SameChanges
  <2>3. ChangesInv!(t) /\ pc[t] \in InTx
    BY <2>1 DEF ChangesInv, InTx
  <2>4. ASSUME NEW k \in Keys, rowLock'[k] = t
        PROVE  Told(changes[t], k, stock[k], Len(changes[t]), work[k])
    <3>1. CASE rowLock[k] = t
      BY <2>3, <3>1
    <3>2. CASE rowLock[k] # t
      <4>1. rowLock[k] = None /\ work[k] = stock[k]
        BY <2>1, <2>4, <3>2 DEF IInv, MovementTypeOK, LocksHaveOwners
      <4>2. \A j \in 1 .. Len(changes[t]) : changes[t][j].key # k
        BY <2>3, <3>2, ChangeTypes
      <4>3. QED
        BY <4>1, <4>2 DEF Told
    <3>3. QED
      BY <3>1, <3>2
  <2>5. \A i \in DOMAIN changes[t] : rowLock'[changes[t][i].key] = t
    BY <2>1, <2>3, ChangeTypes DEF IInv, MovementTypeOK
  <2>6. ChangesInv!(t)'
    BY <2>1, <2>3, <2>4, <2>5
  <2>7. QED
    BY <2>2, <2>6 DEF ChangesInv
<1>9. ASSUME NEW t \in Requests, ApplyLine(t)
      PROVE  ChangesInv'
  <2>1. /\ \A u \in Requests \ {t} : pc'[u] = pc[u] /\ changes'[u] = changes[u]
        /\ UNCHANGED <<stock, rowLock>>
        /\ work' = [k \in Keys |-> work[k] + Delta(target[t], line[t], k)]
    BY <1>9 DEF ApplyLine, Goto, tables, IInv, MovementTypeOK
  <2>2. \A k \in Keys : rowLock[k] # t => work'[k] = work[k]
    <3>1. /\ line[t] \in Doc[target[t]].lines
          /\ \A k \in Keys : Delta(target[t], line[t], k) # 0 => rowLock[k] = t
      BY <1>9 DEF ApplyLine, IInv, LineLocked
    <3>2. QED
      BY <2>1, <3>1, SetsAssumption DEF IInv, MovementTypeOK
  <2>3. ASSUME NEW u \in Requests \ {t} PROVE ChangesInv!(u)'
    BY <2>1, <2>2, SameChanges
  <2>4. QED
    BY <1>9, <2>3, ApplyLineChanges DEF ChangesInv
<1>10. ASSUME NEW t \in Requests, Commit(t)
       PROVE  ChangesInv'
  <2>1. /\ pc'[t] = "publish" /\ UNCHANGED <<changes, work>>
        /\ \A u \in Requests \ {t} : pc'[u] = pc[u]
        /\ rowLock' = [k \in Keys |-> IF rowLock[k] = t THEN None ELSE rowLock[k]]
        /\ stock' = [k \in Keys |-> IF rowLock[k] = t THEN work[k] ELSE stock[k]]
    BY <1>10 DEF Commit, Release, Goto, IInv, MovementTypeOK
  <2>2. ASSUME NEW u \in Requests \ {t} PROVE ChangesInv!(u)'
    <3>1. \A k \in Keys : rowLock'[k] = u <=> rowLock[k] = u
      BY <2>1, SetsAssumption
    <3>2. \A k \in Keys : rowLock[k] = u => stock'[k] = stock[k] /\ work'[k] = work[k]
      BY <2>1
    <3>3. pc'[u] = pc[u] /\ changes'[u] = changes[u]
      BY <2>1
    <3>4. QED
      BY <3>1, <3>2, <3>3, SameChanges
  <2>3. ChangesInv!(t)'
    BY <2>1 DEF InTx
  <2>4. QED
    BY <2>2, <2>3 DEF ChangesInv
<1>11. ASSUME NEW t \in Requests, PublishStockChanged(t)
       PROVE  ChangesInv'
  <2>1. /\ pc[t] = "publish" /\ pc'[t] \in Answered /\ changes'[t] = <<>>
        /\ \A u \in Requests \ {t} : pc'[u] = pc[u] /\ changes'[u] = changes[u]
        /\ UNCHANGED <<stock, work, rowLock>>
    BY <1>11 DEF PublishStockChanged, Goto, tables, txState, IInv, MovementTypeOK
  <2>2. ASSUME NEW u \in Requests \ {t} PROVE ChangesInv!(u)'
    BY <2>1, SameChanges
  <2>3. ChangesInv!(t)'
    BY <2>1 DEF InTx, Answered
  <2>4. QED
    BY <2>2, <2>3 DEF ChangesInv
<1>12. ASSUME NEW t \in Requests, Rollback(t)
       PROVE  ChangesInv'
  <2>1. /\ pc'[t] = "failed" /\ changes'[t] = <<>> /\ UNCHANGED stock
        /\ \A u \in Requests \ {t} : pc'[u] = pc[u] /\ changes'[u] = changes[u]
        /\ rowLock' = [k \in Keys |-> IF rowLock[k] = t THEN None ELSE rowLock[k]]
        /\ work' = [k \in Keys |-> IF rowLock[k] = t THEN stock[k] ELSE work[k]]
    BY <1>12 DEF Rollback, Release, Goto, tables, IInv, MovementTypeOK
  <2>2. ASSUME NEW u \in Requests \ {t} PROVE ChangesInv!(u)'
    BY <2>1, SetsAssumption, SameChanges
  <2>3. ChangesInv!(t)'
    BY <2>1 DEF InTx
  <2>4. QED
    BY <2>2, <2>3 DEF ChangesInv
<1>13. QED
  BY <1>1, <1>3, <1>4, <1>5, <1>6, <1>7, <1>8, <1>9, <1>10, <1>11, <1>12, StepCases

-----------------------------------------------------------------------------
\* The chain of the events of a row.

\* Where the events below an id end is the quantity that consumers compute.
LEMMA EndsAtIsQuantity ==
  ASSUME IInv, OutboxMatchesConfirmed, NEW k \in Keys, NEW n \in Nat, NEW q,
         EndsAt(StockEvents(k), k, n, q)
  PROVE  QuantityBefore(k, n) = q
<1> DEFINE earlier == {r \in StockEvents(k) : r.id < n}
<1>1. \A r \in StockEvents(k) : r \in outbox /\ r.id \in Nat
  BY DEF StockEvents, IInv, MovementTypeOK, OutboxRows
<1>2. CASE q = Opening[k] /\ \A r \in StockEvents(k) : r.id >= n
  <2>1. earlier = {}
    BY <1>1, <1>2
  <2>2. QED
    BY <1>2, <2>1 DEF QuantityBefore
<1>3. CASE \E r \in StockEvents(k) :
             /\ r.id < n /\ r.new = q
             /\ \A e \in StockEvents(k) : e.id < n => e.id <= r.id
  <2>1. PICK r \in earlier : r.new = q /\ \A e \in earlier : e.id <= r.id
    BY <1>3
  <2> DEFINE last == CHOOSE x \in earlier : \A e \in earlier : e.id <= x.id
  <2>2. last \in earlier /\ \A e \in earlier : e.id <= last.id
    BY <2>1
  <2> HIDE DEF last
  <2>3. last.id = r.id /\ last \in outbox /\ r \in outbox
    BY <1>1, <2>1, <2>2
  <2>4. last = r
    BY <2>3 DEF OutboxMatchesConfirmed
  <2>5. QED
    BY <2>1, <2>4 DEF QuantityBefore, last
<1>4. QED
  BY <1>2, <1>3 DEF EndsAt

EventsInv == ChangesInv /\ OutboxInv /\ HeldRowsAreLast /\ ChainInv

LEMMA InitEvents == Init => EventsInv
BY InitChanges, InitOutbox
   DEF EventsInv, Init, HeldRowsAreLast, ChainInv, StockEvents, EndsAt

\* Rows that wait for their commit tell of rows that the transaction holds.
LEMMA BatchIsHeld ==
  ASSUME IInv, ChangesInv, OutboxInv, NEW t \in Requests, NEW b \in batch[t],
         b.type = "StockChanged"
  PROVE  pc[t] = "commit" /\ b.key \in Keys /\ rowLock[b.key] = t
<1>1. pc[t] = "commit"
  BY DEF OutboxInv, BatchInv
<1>2. PICK n \in 0 .. nextId : batch[t] = RowsFrom(t, n)
  BY <1>1 DEF OutboxInv, BatchInv
<1>3. PICK i \in DOMAIN changes[t] : b = ChangeRow(t, n, i)
  <2>1. n \in Nat /\ changes[t] \in Seq(Changes)
    BY ChangeTypes DEF IInv, MovementTypeOK
  <2>2. QED
    BY <1>2, <2>1, RowsFromFacts
<1>4. b.key = changes[t][i].key
  BY <1>3 DEF ChangeRow
<1>5. QED
  BY <1>1, <1>3, <1>4, ChangeTypes DEF ChangesInv, InTx

\* New numbers are above all that are known.
LEMMA EmitKeepsChain ==
  ASSUME IInv, EventsInv, NEW t \in Requests, EmitOutbox(t)
  PROVE  HeldRowsAreLast' /\ ChainInv'
<1>1. /\ batch' = [batch EXCEPT ![t] = RowsFrom(t, nextId)]
      /\ nextId' = nextId + Len(changes[t]) + 1
      /\ UNCHANGED <<stock, outbox>>
  BY EmitNumbers DEF EmitOutbox, tables
<1>2. nextId \in Nat /\ Len(changes[t]) \in Nat /\ batch \in [Requests -> SUBSET OutboxRows]
  BY ChangeTypes DEF IInv, MovementTypeOK
<1>3. \A k : \A r \in StockEvents(k) : r.id \in Nat /\ r.id < nextId
  BY DEF EventsInv, OutboxInv, IdsInv, AllRows, StockEvents, IInv, MovementTypeOK, OutboxRows
<1>4. \A k : StockEvents(k)' = StockEvents(k)
  BY <1>1 DEF StockEvents
<1>5. HeldRowsAreLast'
  <2> SUFFICES ASSUME NEW u \in Requests, NEW b \in batch'[u], b.type = "StockChanged",
                      NEW r \in StockEvents(b.key)
               PROVE  r.id < b.id
    BY <1>4 DEF HeldRowsAreLast
  <2>1. CASE u = t
    <3>1. b.id \in nextId .. nextId + Len(changes[t])
      BY <1>1, <1>2, <2>1, ChangeTypes, RowsFromFacts
    <3>2. QED
      BY <1>2, <1>3, <3>1
  <2>2. CASE u # t
    BY <1>1, <1>2, <2>2 DEF EventsInv, HeldRowsAreLast
  <2>3. QED
    BY <2>1, <2>2
<1>6. ASSUME NEW k \in Keys
      PROVE  EndsAt(StockEvents(k)', k, nextId', stock'[k])
  <2>1. EndsAt(StockEvents(k), k, nextId, stock[k])
    BY DEF EventsInv, ChainInv
  <2>2. CASE \A r \in StockEvents(k) : r.id >= nextId
    <3>1. StockEvents(k) = {}
      BY <1>2, <1>3, <2>2
    <3>2. QED
      BY <1>1, <1>4, <2>1, <3>1 DEF EndsAt
  <2>3. CASE ~ \A r \in StockEvents(k) : r.id >= nextId
    <3>1. PICK r \in StockEvents(k) :
                 /\ r.id < nextId /\ r.new = stock[k]
                 /\ \A e \in StockEvents(k) : e.id < nextId => e.id <= r.id
      BY <2>1, <2>3 DEF EndsAt
    <3>2. r.id < nextId' /\ \A e \in StockEvents(k) : e.id <= r.id
      BY <1>1, <1>2, <1>3, <3>1
    <3>3. QED
      BY <1>1, <1>4, <3>1, <3>2 DEF EndsAt
  <2>4. QED
    BY <2>2, <2>3
<1>7. ChainInv'
  <2>1. \A k \in Keys : \A r \in StockEvents(k)' : EndsAt(StockEvents(k)', k, r.id, r.old)
    BY <1>4 DEF EventsInv, ChainInv
  <2>2. QED
    BY <1>6, <2>1 DEF ChainInv
<1>8. QED
  BY <1>5, <1>7

\* A commit appends to the chain of every row that it changes.
LEMMA CommitKeepsChain ==
  ASSUME IInv, EventsInv, NEW t \in Requests, Commit(t)
  PROVE  HeldRowsAreLast' /\ ChainInv'
<1> DEFINE s == changes[t]
           L == Len(s)
<1>1. /\ pc[t] = "commit" /\ pc[t] \in InTx
      /\ batch' = [batch EXCEPT ![t] = {}]
      /\ outbox' = outbox \cup batch[t]
      /\ stock' = [k \in Keys |-> IF rowLock[k] = t THEN work[k] ELSE stock[k]]
      /\ UNCHANGED nextId
  BY DEF Commit, Release, InTx
<1>2. /\ nextId \in Nat /\ batch \in [Requests -> SUBSET OutboxRows]
      /\ s \in Seq(Changes) /\ L \in Nat /\ DOMAIN s = 1 .. L
      /\ \A i \in DOMAIN s : s[i].key \in Keys
  BY ChangeTypes DEF IInv, MovementTypeOK
<1>3. PICK n \in 0 .. nextId : batch[t] = RowsFrom(t, n) /\ n + L < nextId
  BY <1>1 DEF EventsInv, OutboxInv, BatchInv
<1>4. n \in Nat
  BY <1>2
<1> DEFINE New(k) == {b \in batch[t] : b.type = "StockChanged" /\ b.key = k}
<1>5. \A k : StockEvents(k)' = StockEvents(k) \cup New(k)
  BY <1>1 DEF StockEvents
<1>6. ASSUME NEW k
      PROVE  \A b : b \in New(k) <=> \E i \in 1 .. L : s[i].key = k /\ b = ChangeRow(t, n, i)
  <2>1. \A i \in 1 .. L : /\ ChangeRow(t, n, i).type = "StockChanged"
                          /\ ChangeRow(t, n, i).key = s[i].key
                          /\ ChangeRow(t, n, i) \in RowsFrom(t, n)
    BY <1>2 DEF ChangeRow, RowsFrom
  <2>2. \A b \in RowsFrom(t, n) : b.type = "StockChanged" =>
          \E i \in 1 .. L : b = ChangeRow(t, n, i)
    BY <1>2, <1>4, RowsFromFacts
  <2>3. QED
    BY <1>3, <2>1, <2>2
<1>7. \A i : /\ ChangeRow(t, n, i).id = n + i
             /\ ChangeRow(t, n, i).old = s[i].old
             /\ ChangeRow(t, n, i).new = s[i].new
  BY DEF ChangeRow
<1>8. /\ \A k : \A r \in StockEvents(k) : r.id \in Nat /\ r.id < nextId
      /\ \A k : \A r \in StockEvents(k) : \A b \in New(k) : r.id < b.id
  <2>1. \A r \in outbox : r.id \in Nat
    BY DEF IInv, MovementTypeOK, OutboxRows
  <2>2. QED
    BY <2>1 DEF EventsInv, OutboxInv, IdsInv, AllRows, StockEvents, HeldRowsAreLast
<1>9. HeldRowsAreLast'
  <2> SUFFICES ASSUME NEW u \in Requests, NEW b \in batch'[u], b.type = "StockChanged",
                      NEW r \in StockEvents(b.key)'
               PROVE  r.id < b.id
    BY DEF HeldRowsAreLast
  <2>1. u # t /\ b \in batch[u]
    BY <1>1, <1>2
  <2>2. rowLock[b.key] = u
    BY <2>1, BatchIsHeld DEF EventsInv
  <2>3. CASE r \in StockEvents(b.key)
    BY <2>1, <2>3 DEF EventsInv, HeldRowsAreLast
  <2>4. CASE r \in New(b.key)
    <3>1. rowLock[b.key] = t
      BY <2>4, BatchIsHeld DEF EventsInv
    <3>2. QED
      BY <2>1, <2>2, <3>1
  <2>5. QED
    BY <1>5, <2>3, <2>4
<1> HIDE DEF s, L, New
<1>10. ASSUME NEW k \in Keys, NEW i \in 0 .. L, NEW N \in Nat, NEW q,
              n + i < N, \A j \in 1 .. L : n + j < N => j <= i,
              \A r \in StockEvents(k) : r.id < N,
              Told(s, k, stock[k], i, q)
       PROVE  EndsAt(StockEvents(k)', k, N, q)
  <2>1. CASE q = stock[k] /\ \A j \in 1 .. i : s[j].key # k
    <3>1. \A b \in New(k) : b.id \in Nat /\ b.id >= N
      <4>1. SUFFICES ASSUME NEW b \in New(k) PROVE b.id \in Nat /\ b.id >= N
        OBVIOUS
      <4>2. PICK j \in 1 .. L : s[j].key = k /\ b = ChangeRow(t, n, j)
        BY <1>6
      <4>3. b.id = n + j /\ j \in Nat
        BY <1>2, <1>7, <4>2
      <4>4. ~(j <= i)
        BY <1>2, <2>1, <4>2, <4>3
      <4>5. QED
        BY <1>4, <1>10, <4>2, <4>3, <4>4
    <3>2. EndsAt(StockEvents(k), k, nextId, q)
      BY <2>1 DEF EventsInv, ChainInv
    <3>3. CASE StockEvents(k) = {}
      <4>1. q = Opening[k]
        BY <3>2, <3>3 DEF EndsAt
      <4>2. QED
        BY <1>5, <3>1, <3>3, <4>1 DEF EndsAt
    <3>4. CASE StockEvents(k) # {}
      <4>1. PICK r \in StockEvents(k) : r.new = q /\ \A e \in StockEvents(k) : e.id <= r.id
        BY <1>2, <1>8, <3>2, <3>4 DEF EndsAt
      <4>2. \A e \in StockEvents(k)' : e.id < N => e \in StockEvents(k)
        BY <1>5, <1>10, <3>1
      <4>3. QED
        BY <1>5, <1>10, <4>1, <4>2 DEF EndsAt
    <3>5. QED
      BY <3>3, <3>4
  <2>2. CASE \E j \in 1 .. i : /\ s[j].key = k /\ s[j].new = q
                               /\ \A l \in j + 1 .. i : s[l].key # k
    <3>1. PICK j \in 1 .. i : /\ s[j].key = k /\ s[j].new = q
                              /\ \A l \in j + 1 .. i : s[l].key # k
      BY <2>2
    <3> DEFINE r == ChangeRow(t, n, j)
    <3>2. r \in New(k)
      BY <1>2, <1>6, <3>1
    <3>3. r.new = q /\ r.id = n + j /\ n + j < N
      BY <1>2, <1>4, <1>7, <1>10, <3>1
    <3> HIDE DEF r
    <3>4. \A e \in StockEvents(k) : e.id <= r.id
      BY <1>2, <1>4, <1>8, <3>2, <3>3
    <3>5. \A e \in New(k) : e.id < N => e.id <= r.id
      <4> SUFFICES ASSUME NEW e \in New(k), e.id < N PROVE e.id <= r.id
        OBVIOUS
      <4>1. PICK l \in 1 .. L : s[l].key = k /\ e = ChangeRow(t, n, l)
        BY <1>6
      <4>2. e.id = n + l /\ l <= i
        BY <1>7, <1>10, <4>1
      <4>3. l <= j
        BY <1>2, <3>1, <4>1, <4>2
      <4>4. QED
        BY <1>4, <3>1, <3>3, <4>2, <4>3
    <3>6. QED
      BY <1>5, <3>2, <3>3, <3>4, <3>5 DEF EndsAt
  <2>3. QED
    BY <1>10, <2>1, <2>2 DEF Told
<1>11. ASSUME NEW k \in Keys, NEW r \in StockEvents(k)'
       PROVE  EndsAt(StockEvents(k)', k, r.id, r.old)
  <2>1. CASE r \in StockEvents(k)
    <3>1. EndsAt(StockEvents(k), k, r.id, r.old)
      BY <2>1 DEF EventsInv, ChainInv
    <3>2. \A e \in StockEvents(k)' : e \in StockEvents(k) \/ r.id < e.id
      BY <1>5, <1>8, <2>1
    <3>3. r.id \in Nat /\ \A e \in StockEvents(k)' : e.id \in Nat
      BY <1>2, <1>4, <1>5, <1>6, <1>7, <1>8, <2>1
    <3>4. CASE r.old = Opening[k] /\ \A e \in StockEvents(k) : e.id >= r.id
      BY <3>2, <3>3, <3>4 DEF EndsAt
    <3>5. CASE \E x \in StockEvents(k) :
                 /\ x.id < r.id /\ x.new = r.old
                 /\ \A e \in StockEvents(k) : e.id < r.id => e.id <= x.id
      <4>1. PICK x \in StockEvents(k) :
                   /\ x.id < r.id /\ x.new = r.old
                   /\ \A e \in StockEvents(k) : e.id < r.id => e.id <= x.id
        BY <3>5
      <4>2. x \in StockEvents(k)' /\ \A e \in StockEvents(k)' : e.id < r.id => e.id <= x.id
        BY <1>5, <3>2, <3>3, <4>1
      <4>3. QED
        BY <4>1, <4>2 DEF EndsAt
    <3>6. QED
      BY <3>1, <3>4, <3>5 DEF EndsAt
  <2>2. CASE r \in New(k)
    <3>1. PICK i \in 1 .. L : s[i].key = k /\ r = ChangeRow(t, n, i)
      BY <1>6, <2>2
    <3>2. Told(s, k, stock[k], i - 1, r.old)
      BY <1>1, <1>2, <1>7, <3>1 DEF EventsInv, ChangesInv, s
    <3>3. /\ r.id = n + i /\ i - 1 \in 0 .. L /\ r.id \in Nat /\ n + (i - 1) < r.id
          /\ \A j \in 1 .. L : n + j < r.id => j <= i - 1
          /\ \A e \in StockEvents(k) : e.id < r.id
      BY <1>2, <1>4, <1>7, <1>8, <2>2, <3>1
    <3>4. QED
      BY <1>10, <3>2, <3>3
  <2>3. QED
    BY <1>5, <2>1, <2>2
<1>12. ASSUME NEW k \in Keys
       PROVE  EndsAt(StockEvents(k)', k, nextId', stock'[k])
  <2>1. CASE rowLock[k] = t
    <3>1. Told(s, k, stock[k], L, stock'[k])
      BY <1>1, <2>1 DEF EventsInv, ChangesInv, s, L
    <3>2. /\ L \in 0 .. L /\ n + L < nextId
          /\ \A j \in 1 .. L : n + j < nextId => j <= L
          /\ \A e \in StockEvents(k) : e.id < nextId
      BY <1>2, <1>3, <1>8 DEF s, L
    <3>3. EndsAt(StockEvents(k)', k, nextId, stock'[k])
      BY <1>2, <1>10, <3>1, <3>2
    <3>4. QED
      BY <1>1, <3>3
  <2>2. CASE rowLock[k] # t
    <3>1. New(k) = {}
      BY <2>2, BatchIsHeld DEF New, EventsInv
    <3>2. stock'[k] = stock[k] /\ StockEvents(k)' = StockEvents(k)
      BY <1>1, <1>5, <2>2, <3>1
    <3>3. EndsAt(StockEvents(k), k, nextId, stock[k])
      BY DEF EventsInv, ChainInv
    <3>4. QED
      BY <1>1, <3>2, <3>3 DEF EndsAt
  <2>3. QED
    BY <2>1, <2>2
<1>13. QED
  BY <1>9, <1>11, <1>12 DEF ChainInv

\* Every step keeps the chains: emissions and commits extend them, the rest leaves
\* events, numbers and committed quantities alone.
LEMMA EventsStep ==
  ASSUME IInv, EventsInv, [Next]_vars
  PROVE  EventsInv'
<1>1. ChangesInv' /\ OutboxInv'
  BY ChangesStep, OutboxStep DEF EventsInv
<1>2. ASSUME NEW t \in Requests, EmitOutbox(t) \/ Commit(t)
      PROVE  HeldRowsAreLast' /\ ChainInv'
  BY <1>2, EmitKeepsChain, CommitKeepsChain
<1>3. ASSUME UNCHANGED <<stock, outbox, nextId>>, \A u \in Requests : batch'[u] \subseteq batch[u]
      PROVE  HeldRowsAreLast' /\ ChainInv'
  <2>1. \A k : StockEvents(k)' = StockEvents(k)
    BY <1>3 DEF StockEvents
  <2>2. QED
    BY <1>3, <2>1 DEF EventsInv, HeldRowsAreLast, ChainInv
<1>4. ASSUME NEW t \in Requests, Rollback(t)
      PROVE  HeldRowsAreLast' /\ ChainInv'
  <2>1. UNCHANGED <<stock, outbox, nextId>> /\ \A u \in Requests : batch'[u] \subseteq batch[u]
    BY <1>4 DEF Rollback, Release, tables, IInv, MovementTypeOK
  <2>2. QED
    BY <1>3, <2>1
<1>5. HeldRowsAreLast' /\ ChainInv'
  BY <1>2, <1>3, <1>4, OutboxCases
<1>6. QED
  BY <1>1, <1>5 DEF EventsInv

\* Read in the order of their ids, the StockChanged events of a row form a chain from
\* its opening quantity to the committed one, however confirmations interleave.
THEOREM EventsChain == Spec => []StockChangedChain
<1>1. Init => EventsInv
  BY InitEvents
<1>2. IInv /\ EventsInv /\ [Next]_vars => EventsInv'
  BY EventsStep
<1>3. IInv /\ EventsInv => StockChangedChain
  <2> SUFFICES ASSUME IInv, EventsInv PROVE StockChangedChain
    OBVIOUS
  <2>1. OutboxMatchesConfirmed /\ nextId \in Nat
    BY DEF EventsInv, OutboxInv, IInv, MovementTypeOK
  <2>2. \A k : \A r \in StockEvents(k) : r.id \in Nat
    BY DEF StockEvents, IInv, MovementTypeOK, OutboxRows
  <2>3. ASSUME NEW k \in Keys, NEW r \in StockEvents(k)
        PROVE  r.old = QuantityBefore(k, r.id)
    BY <2>1, <2>2, EndsAtIsQuantity DEF EventsInv, ChainInv
  <2>4. ASSUME NEW k \in Keys
        PROVE  stock[k] = QuantityBefore(k, nextId)
    BY <2>1, EndsAtIsQuantity DEF EventsInv, ChainInv
  <2>5. QED
    BY <2>3, <2>4 DEF StockChangedChain
<1>4. QED
  BY <1>1, <1>2, <1>3, InvariantHolds, PTL DEF Spec
=============================================================================
