------------------------------- MODULE Outbox -------------------------------
(***************************************************************************)
(* What the transactional outbox promises, without a word about relays,    *)
(* locks or crashes: only events of committed transactions are sent, each  *)
(* may be sent more than once, and an event is checked off only after it   *)
(* has been sent.                                                          *)
(***************************************************************************)
EXTENDS Sequences

CONSTANT Events

VARIABLES
  committed,  \* events whose transaction has committed
  sent,       \* what has been sent, in order
  settled     \* events that are checked off

Init == committed = {} /\ sent = <<>> /\ settled = {}

Commit(e) ==
  /\ e \in Events \ committed
  /\ committed' = committed \cup {e}
  /\ UNCHANGED <<sent, settled>>

Send(e) ==
  /\ e \in committed
  /\ sent' = Append(sent, e)
  /\ UNCHANGED <<committed, settled>>

Settle(e) ==
  /\ \E i \in DOMAIN sent : sent[i] = e
  /\ settled' = settled \cup {e}
  /\ UNCHANGED <<committed, sent>>

Next == \E e \in Events : Commit(e) \/ Send(e) \/ Settle(e)

Spec == Init /\ [][Next]_<<committed, sent, settled>>
=============================================================================
