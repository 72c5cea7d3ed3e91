-------------------------- MODULE MCMovementCreate --------------------------
(***************************************************************************)
(* Three calls, two keys, three bodies.  Two of them share their reference    *)
(* number, so that both unique constraints can be the one that is met, and *)
(* one has two lines, so that a movement can be seen half created.         *)
(***************************************************************************)
EXTENDS MovementCreate, TLC

CONSTANTS b1, b2, b3, l1, l2

MCRef == b1 :> "A" @@ b2 :> "A" @@ b3 :> "B"
MCLinesOf == b1 :> {l1, l2} @@ b2 :> {l1} @@ b3 :> {l1}

\* Calls and keys are interchangeable.
Symmetry == Permutations(Requests) \cup Permutations(IdemKeys)
=============================================================================
