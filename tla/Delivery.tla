------------------------------ MODULE Delivery ------------------------------
(***************************************************************************)
(* What a stream and the consumers of its groups promise together, without *)
(* a word about consumers, batches, errors or crashes: the entries are     *)
(* given to every group in their order, what was given is kept until it    *)
(* was handled, and nothing is handled twice.  An entry that is kept may   *)
(* never be handled.                                                       *)
(***************************************************************************)
EXTENDS Naturals, Sequences

CONSTANT Groups

VARIABLES
  length,  \* how many entries there are
  given,   \* up to which entry a group has been given them
  kept,    \* entries that are kept for a group
  done     \* what a group has handled, in order

vars == <<length, given, kept, done>>

Done(g, i) == \E k \in DOMAIN done[g] : done[g][k] = i

Init ==
  /\ length = 0
  /\ given = [g \in Groups |-> 0]
  /\ kept = [g \in Groups |-> {}]
  /\ done = [g \in Groups |-> <<>>]

Add ==
  /\ length' = length + 1
  /\ UNCHANGED <<given, kept, done>>

Give(g, n) ==
  /\ n \in given[g] + 1 .. length
  /\ given' = [given EXCEPT ![g] = n]
  /\ kept' = [kept EXCEPT ![g] = @ \cup (given[g] + 1 .. n)]
  /\ UNCHANGED <<length, done>>

Handle(g, i) ==
  /\ i \in kept[g]
  /\ ~Done(g, i)
  /\ done' = [done EXCEPT ![g] = Append(@, i)]
  /\ UNCHANGED <<length, given, kept>>

Drop(g, i) ==
  /\ Done(g, i)
  /\ kept' = [kept EXCEPT ![g] = @ \ {i}]
  /\ UNCHANGED <<length, given, done>>

Next ==
  \/ Add
  \/ \E g \in Groups, i \in 1 .. length :
       Give(g, i) \/ Handle(g, i) \/ Drop(g, i)

Spec == Init /\ [][Next]_vars
=============================================================================
