---------------------------- MODULE MCOutboxRelay ----------------------------
(***************************************************************************)
(* OutboxRelay for TLC: two relays over three rows, three failures, so     *)
(* that one row can fail at every point of its way and another meanwhile.  *)
(***************************************************************************)
EXTENDS OutboxRelay
=============================================================================
