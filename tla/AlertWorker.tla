----------------------------- MODULE AlertWorker -----------------------------
(***************************************************************************)
(* The consumers of the stream inventory.events: alertworker.Run, run by   *)
(* the worker (group "alerts") and by the notification service (group      *)
(* "notification").  A consumer takes a batch of entries that its group    *)
(* has not been given yet (XREADGROUP with ">"), which puts them on the    *)
(* group's pending list, and decodes, verifies, handles and acknowledges   *)
(* them one after the other.                                               *)
(*                                                                         *)
(* Entries are named by their position in the stream; what is in them      *)
(* matters only for whether handling ends in an error.                     *)
(*                                                                         *)
(* Definitions marked FAULTY are not part of the specification: each is    *)
(* the one after it with a plausible slip.                                 *)
(***************************************************************************)
EXTENDS Naturals, Sequences, FiniteSets

CONSTANTS
  Groups,     \* consumer groups
  Consumers,  \* consumer processes
  GroupOf,    \* GroupOf[c]: the group of consumer c
  Batch,      \* Config.Batch
  MaxEntries, \* bound on the length of the stream, not in the code
  MaxErrors   \* bound on errors and crashes, not in the code

ASSUME WorkerAssumption ==
  /\ GroupOf \in [Consumers -> Groups]
  /\ Batch \in Nat \ {0} /\ MaxEntries \in Nat /\ MaxErrors \in Nat

VARIABLES
  length,   \* how many entries the stream has
  last,     \* last-delivered-id of a group
  pending,  \* pending entries of a group
  pc,       \* where Run is in a consumer
  inbox,    \* entries of its batch that a consumer has not finished
  handled,  \* entries the handler of a group accepted, in order (history)
  errors    \* how many errors and crashes there have been (bound)

vars == <<length, last, pending, pc, inbox, handled, errors>>

Entries == 1 .. length
Stopped == {"down", "returned"}

TypeOK ==
  /\ length \in 0 .. MaxEntries
  /\ last \in [Groups -> 0 .. MaxEntries]
  /\ pending \in [Groups -> SUBSET Entries]
  /\ pc \in [Consumers -> {"start", "read", "handle", "ack"} \cup Stopped]
  /\ inbox \in [Consumers -> Seq(Entries)]
  /\ handled \in [Groups -> Seq(Entries)]
  /\ errors \in 0 .. MaxErrors
  /\ \A g \in Groups : last[g] <= length
  /\ \A c \in Consumers : pc[c] \in {"handle", "ack"} => inbox[c] # <<>>

Init ==
  /\ length = 0
  /\ last = [g \in Groups |-> 0]
  /\ pending = [g \in Groups |-> {}]
  /\ pc = [c \in Consumers |-> "start"]
  /\ inbox = [c \in Consumers |-> <<>>]
  /\ handled = [g \in Groups |-> <<>>]
  /\ errors = 0

-----------------------------------------------------------------------------
Goto(c, label) == pc' = [pc EXCEPT ![c] = label]
Error == errors < MaxErrors /\ errors' = errors + 1

\* A relay adds an entry (module OutboxRelay).
XAdd ==
  /\ length < MaxEntries
  /\ length' = length + 1
  /\ UNCHANGED <<last, pending, pc, inbox, handled, errors>>

\* FAULTY: a group that exists is created anew, from the start of the stream.
EnsureGroupAnew(c) ==
  /\ pc[c] = "start"
  /\ last' = [last EXCEPT ![GroupOf[c]] = 0]
  /\ Goto(c, "read")
  /\ UNCHANGED <<length, pending, inbox, handled, errors>>

\* A new group starts at 0, where last is anyway; BUSYGROUP leaves an old one as
\* it is.
EnsureGroup(c) ==
  /\ pc[c] = "start"
  /\ Goto(c, "read")
  /\ UNCHANGED <<length, last, pending, inbox, handled, errors>>

SmallerOf(a, b) == IF a < b THEN a ELSE b

\* Redis hands the next entries of the stream to a consumer of g.
Deliver(g) ==
  /\ last' = [last EXCEPT ![g] = SmallerOf(last[g] + Batch, length)]
  /\ pending' = [pending EXCEPT ![g] = @ \cup (last[g] + 1 .. last'[g])]

\* FAULTY: the consumer waits until a batch is full.
ReadFullBatch(c) ==
  LET g == GroupOf[c] IN
  /\ pc[c] = "read"
  /\ last[g] + Batch <= length
  /\ Deliver(g)
  /\ inbox' = [inbox EXCEPT ![c] = [i \in 1 .. last'[g] - last[g] |-> last[g] + i]]
  /\ Goto(c, "handle")
  /\ UNCHANGED <<length, handled, errors>>

\* With nothing to deliver the consumer blocks and asks again.
ReadGroup(c) ==
  LET g == GroupOf[c] IN
  /\ pc[c] = "read"
  /\ last[g] < length
  /\ Deliver(g)
  /\ inbox' = [inbox EXCEPT ![c] = [i \in 1 .. last'[g] - last[g] |-> last[g] + i]]
  /\ Goto(c, "handle")
  /\ UNCHANGED <<length, handled, errors>>

\* XREADGROUP or XGROUP CREATE returns an error and so does Run; the entries may
\* have been delivered all the same.  Nobody calls Run again.
RunReturns(c) ==
  LET g == GroupOf[c] IN
  /\ pc[c] \in {"start", "read"}
  /\ \/ pc[c] = "read" /\ last[g] < length /\ Deliver(g)
     \/ UNCHANGED <<last, pending>>
  /\ Goto(c, "returned")
  /\ Error
  /\ UNCHANGED <<length, inbox, handled>>

\* FAULTY: the end of the batch is not noticed.
FinishUnchecked(c) ==
  /\ inbox' = [inbox EXCEPT ![c] = Tail(@)]
  /\ Goto(c, "handle")

\* On to the next entry of the batch, or to the next batch.
Finish(c) ==
  /\ inbox' = [inbox EXCEPT ![c] = Tail(@)]
  /\ Goto(c, IF Tail(inbox[c]) = <<>> THEN "read" ELSE "handle")

HandleMessage(c) ==
  /\ pc[c] = "handle"
  /\ handled' = [handled EXCEPT ![GroupOf[c]] = Append(@, Head(inbox[c]))]
  /\ Goto(c, "ack")
  /\ UNCHANGED <<length, last, pending, inbox, errors>>

\* FAULTY: an entry that cannot be handled is acknowledged.
SkipAndAck(c) ==
  /\ pc[c] = "handle"
  /\ Goto(c, "ack")
  /\ Error
  /\ UNCHANGED <<length, last, pending, inbox, handled>>

\* Decoding, the signature or the handler fails: the entry is logged and left
\* pending.
SkipMessage(c) ==
  /\ pc[c] = "handle"
  /\ Finish(c)
  /\ Error
  /\ UNCHANGED <<length, last, pending, handled>>

\* XACK.
Ack(c) ==
  /\ pc[c] = "ack"
  /\ pending' = [pending EXCEPT ![GroupOf[c]] = @ \ {Head(inbox[c])}]
  /\ Finish(c)
  /\ UNCHANGED <<length, last, handled, errors>>

\* XACK returns an error, which is logged; the entry stays pending.
AckError(c) ==
  /\ pc[c] = "ack"
  /\ Finish(c)
  /\ Error
  /\ UNCHANGED <<length, last, pending, handled>>

\* The process dies, and its batch with it.
Crash(c) ==
  /\ pc[c] # "down"
  /\ inbox' = [inbox EXCEPT ![c] = <<>>]
  /\ Goto(c, "down")
  /\ Error
  /\ UNCHANGED <<length, last, pending, handled>>

Restart(c) ==
  /\ pc[c] = "down"
  /\ Goto(c, "start")
  /\ UNCHANGED <<length, last, pending, inbox, handled, errors>>

Run(c) == EnsureGroup(c) \/ ReadGroup(c) \/ HandleMessage(c) \/ Ack(c)

Next ==
  \/ XAdd
  \/ \E c \in Consumers :
       \/ Run(c)
       \/ RunReturns(c) \/ SkipMessage(c) \/ AckError(c)
       \/ Crash(c) \/ Restart(c)

Spec == Init /\ [][Next]_vars

\* A consumer that runs keeps running; nobody need start one again that died, and
\* nothing restarts a Run that returned in a process that lives on.
Fairness == \A c \in Consumers : WF_vars(Run(c))
FairSpec == Spec /\ Fairness

-----------------------------------------------------------------------------
\* Properties

HandledBy(g) == {handled[g][i] : i \in DOMAIN handled[g]}

\* Whatever its consumers do, fail to do or leave behind, a group is given the stream in
\* its order, and an entry is handled once at most and leaves the pending list only
\* after that.
Promise == INSTANCE Delivery WITH given <- last, kept <- pending, done <- handled
DeliverySpec == Promise!Spec

\* No entry is dropped without a trace: what a group was given and did not handle
\* is on its pending list.  It follows from DeliverySpec (module AlertWorkerProofs).
UnhandledStaysPending ==
  \A g \in Groups : (1 .. last[g]) \ HandledBy(g) \subseteq pending[g]

\* No entry is handled twice by a group, nor is one in the hands of two of its
\* consumers, although they crash, restart and read side by side.
HandledOnce ==
  /\ \A g \in Groups : Cardinality(HandledBy(g)) = Len(handled[g])
  /\ \A c, d \in Consumers : c # d /\ GroupOf[c] = GroupOf[d] =>
       \A i \in DOMAIN inbox[c], j \in DOMAIN inbox[d] : inbox[c][i] # inbox[d][j]

\* Every entry is given to every group that has a consumer left.
EventuallyDelivered ==
  \A g \in Groups, n \in 1 .. MaxEntries :
    n <= length ~> \/ n <= last[g]
                   \/ [](\A c \in Consumers : GroupOf[c] = g => pc[c] \in Stopped)
=============================================================================
