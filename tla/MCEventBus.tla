------------------------------ MODULE MCEventBus ------------------------------
(***************************************************************************)
(* EventBus for TLC: a group with keys and two consumers next to one       *)
(* without keys, over an event that can be decoded and one that cannot.    *)
(***************************************************************************)
EXTENDS EventBus, TLC

CONSTANTS c1, c2, c3, mail, audit, e1, o1

MCGroupOf == [c \in Consumers |-> IF c = c3 THEN audit ELSE mail]

\* The two consumers of a group are alike.
MCSymmetry == Permutations({c1, c2})
=============================================================================
