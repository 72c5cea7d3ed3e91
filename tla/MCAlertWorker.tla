---------------------------- MODULE MCAlertWorker ----------------------------
(***************************************************************************)
(* Instances of AlertWorker for TLC: two consumers of one group and one of *)
(* another, batches of two entries out of three.                           *)
(***************************************************************************)
EXTENDS AlertWorker

CONSTANTS c1, c2, c3, alerts, notification

MCGroupOf == [c \in Consumers |-> IF c = c3 THEN notification ELSE alerts]

=============================================================================
