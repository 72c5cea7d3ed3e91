------------------------------- MODULE Ledger -------------------------------
(***************************************************************************)
(* What the movement component promises, with no transactions, locks or    *)
(* rows: every draft is posted to the on-hand balances exactly once and as *)
(* a whole, or voided, and no balance ever leaves 0 .. MaxQty.             *)
(***************************************************************************)
EXTENDS Integers

CONSTANTS
  Movements,  \* movement documents
  Keys,       \* (warehouse, product) pairs
  MaxQty,     \* math.MaxInt32 in the code
  Opening,    \* balances before the first posting
  Effect      \* Effect[m][k]: what posting m does to balance k

VARIABLES
  balance,    \* [Keys -> 0 .. MaxQty]
  status      \* [Movements -> {"draft", "confirmed", "cancelled"}]

vars == <<balance, status>>

Init ==
  /\ balance = Opening
  /\ status = [m \in Movements |-> "draft"]

\* Posting applies the whole document or is not possible at all.
Post(m) ==
  /\ status[m] = "draft"
  /\ \A k \in Keys : balance[k] + Effect[m][k] \in 0 .. MaxQty
  /\ balance' = [k \in Keys |-> balance[k] + Effect[m][k]]
  /\ status' = [status EXCEPT ![m] = "confirmed"]

Void(m) ==
  /\ status[m] = "draft"
  /\ status' = [status EXCEPT ![m] = "cancelled"]
  /\ UNCHANGED balance

Next == \E m \in Movements : Post(m) \/ Void(m)

Spec == Init /\ [][Next]_vars
=============================================================================
