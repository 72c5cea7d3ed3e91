------------------------------- MODULE EventBus -------------------------------
(***************************************************************************)
(* eventbus.HandleMessage: idempotency keys, retries and dead letters over *)
(* Redis Streams.  A consumer reads one entry of a stream for its group,   *)
(* takes the key of its event, runs the handler, and acknowledges; what    *)
(* failed is appended to the stream once more, or to the dead letter       *)
(* stream when it failed for good or too often.                            *)
(*                                                                         *)
(* Consumers choose whether they use keys (HandleOptions); those that do   *)
(* are in a group of Keyed and take them from BuildIdempotencyKey.  Nothing*)
(* in the services calls HandleMessage: a consumer here reads and handles  *)
(* as its tests and alertworker.Run do, one entry at a time.               *)
(*                                                                         *)
(* Definitions marked FAULTY are not part of the specification: each is    *)
(* the one after it with a plausible slip.                                 *)
(***************************************************************************)
EXTENDS Naturals, Sequences, FiniteSets

CONSTANTS
  Events,     \* event ids
  Opaque,     \* events whose envelope DecodeEvent cannot read
  Groups,     \* consumer groups
  Keyed,      \* groups that set IdempotencyKey
  Consumers,  \* consumer processes
  GroupOf,    \* GroupOf[c]: the group of consumer c
  MaxRetry,   \* HandleOptions.MaxRetry
  MaxEvents,  \* bound on the number of events, not in the code
  MaxFaults   \* bound on faults and expiries, not in the code

ASSUME BusAssumption ==
  /\ Opaque \subseteq Events /\ Keyed \subseteq Groups
  /\ GroupOf \in [Consumers -> Groups]
  /\ MaxRetry \in Nat /\ MaxEvents \in Nat /\ MaxFaults \in Nat

VARIABLES
  stream,   \* its entries: an event, and how often it was requeued
  last,     \* last-delivered-id of a group
  pending,  \* pending entries of a group
  keys,     \* idempotency keys in Redis
  dead,     \* the dead letter stream, with the group that gave up (history)
  pc, msg,  \* where a consumer is, and the entry it works on
  handled,  \* events the handler of a group accepted (history)
  runs,     \* runs of the handler of a keyed group, per event (history)
  expired,  \* keys that outlived their TTL, per keyed group and event (history)
  failed,   \* failed handler runs of an event, over all groups (history)
  faults    \* how many faults and expiries there have been (bound)

vars == <<stream, last, pending, keys, dead, pc, msg, handled, runs,
          expired, failed, faults>>

Entry == [event : Events, retry : 0 .. MaxRetry]
Entries == DOMAIN stream
Copies(e) == {i \in Entries : stream[i].event = e}

TypeOK ==
  /\ stream \in Seq(Entry)
  /\ last \in [Groups -> {0} \cup Entries]
  /\ pending \in [Groups -> SUBSET Entries]
  /\ keys \subseteq [group : Keyed, event : Events, entry : {0} \cup Entries]
  /\ dead \subseteq [group : Groups, event : Events, reason : {"exhausted", "permanent"}]
  /\ pc \in [Consumers -> {"read", "acquire", "handle", "requeue", "bury", "ack", "down"}]
  /\ msg \in [Consumers -> {0} \cup Entries]
  /\ \A c \in Consumers : msg[c] = 0 <=> pc[c] \in {"read", "down"}
  /\ \A c \in Consumers : pc[c] = "acquire" => GroupOf[c] \in Keyed
  /\ handled \in [Groups -> SUBSET Events]
  /\ runs \in [Keyed -> [Events -> Nat]]
  /\ expired \in [Keyed -> [Events -> Nat]]
  /\ failed \in [Events -> Nat]
  /\ faults \in 0 .. MaxFaults

Init ==
  /\ stream = <<>>
  /\ last = [g \in Groups |-> 0]
  /\ pending = [g \in Groups |-> {}]
  /\ keys = {}
  /\ dead = {}
  /\ pc = [c \in Consumers |-> "read"]
  /\ msg = [c \in Consumers |-> 0]
  /\ handled = [g \in Groups |-> {}]
  /\ runs = [g \in Keyed |-> [e \in Events |-> 0]]
  /\ expired = [g \in Keyed |-> [e \in Events |-> 0]]
  /\ failed = [e \in Events |-> 0]
  /\ faults = 0

-----------------------------------------------------------------------------
Goto(c, label) == pc' = [pc EXCEPT ![c] = label]
Fault == faults < MaxFaults /\ faults' = faults + 1

EventOf(c) == stream[msg[c]].event

\* HandleMessage returns and its caller asks for the next entry.
Return(c) ==
  /\ Goto(c, "read")
  /\ msg' = [msg EXCEPT ![c] = 0]

XAdd(e, retry) == stream' = Append(stream, [event |-> e, retry |-> retry])

\* PublishEvent for the first time.
Publish(e) ==
  /\ Copies(e) = {}
  /\ Cardinality({f \in Events : Copies(f) # {}}) < MaxEvents
  /\ XAdd(e, 0)
  /\ UNCHANGED <<last, pending, keys, dead, pc, msg, handled, runs,
                 expired, failed, faults>>

\* A relay sends an event again (module OutboxRelay).
PublishAgain(e) ==
  /\ Copies(e) # {} /\ Fault
  /\ XAdd(e, 0)
  /\ UNCHANGED <<last, pending, keys, dead, pc, msg, handled, runs, expired, failed>>

\* XREADGROUP with ">" hands over the next entry and makes it pending.
ReadGroup(c) ==
  LET g == GroupOf[c] IN
  /\ pc[c] = "read"
  /\ last[g] < Len(stream)
  /\ last' = [last EXCEPT ![g] = @ + 1]
  /\ pending' = [pending EXCEPT ![g] = @ \cup {last'[g]}]
  /\ msg' = [msg EXCEPT ![c] = last'[g]]
  /\ Goto(c, IF g \in Keyed THEN "acquire" ELSE "handle")
  /\ UNCHANGED <<stream, keys, dead, handled, runs, expired, failed, faults>>

\* FAULTY: the key is always that of the entry.
KeyOfEntry(c) ==
  [group |-> GroupOf[c], event |-> EventOf(c), entry |-> msg[c]]

\* BuildIdempotencyKey: stream, group and event id, or the entry's own id when the
\* envelope cannot be decoded.
KeyOf(c) ==
  [group |-> GroupOf[c], event |-> EventOf(c),
   entry |-> IF EventOf(c) \in Opaque THEN msg[c] ELSE 0]

TakeKey(c) == keys' = keys \cup {KeyOf(c)}

\* SETNX answers whether the key was new; if not the entry is a duplicate and is
\* acknowledged without being handled.
AcquireIdempotency(c) ==
  /\ pc[c] = "acquire"
  /\ \/ KeyOf(c) \notin keys /\ TakeKey(c) /\ Goto(c, "handle")
     \/ KeyOf(c) \in keys /\ Goto(c, "ack") /\ UNCHANGED keys
  /\ UNCHANGED <<stream, last, pending, dead, msg, handled, runs, expired, failed, faults>>

\* The answer to a SETNX that took the key is lost: the call returns an error, or
\* the Redis library repeats it and is told that the key exists.  Or the SETNX is
\* lost itself.
AcquireError(c) ==
  /\ pc[c] = "acquire" /\ Fault
  /\ \/ KeyOf(c) \notin keys /\ TakeKey(c) /\ Return(c)
     \/ KeyOf(c) \notin keys /\ TakeKey(c) /\ Goto(c, "ack") /\ UNCHANGED msg
     \/ Return(c) /\ UNCHANGED keys
  /\ UNCHANGED <<stream, last, pending, dead, handled, runs, expired, failed>>

\* The key outlives its TTL of 24 hours, or what opts.IdempotencyTTL says.  A key made
\* of an entry's own id is asked for once, so nothing depends on its end.
Expire(k) ==
  /\ k \in keys /\ k.entry = 0 /\ Fault
  /\ keys' = keys \ {k}
  /\ expired' = [expired EXCEPT ![k.group][k.event] = @ + 1]
  /\ UNCHANGED <<stream, last, pending, dead, pc, msg, handled, runs, failed>>

Handle(c) ==
  LET g == GroupOf[c]
      e == EventOf(c)
  IN
  /\ pc[c] = "handle"
  /\ runs' = IF g \in Keyed THEN [runs EXCEPT ![g][e] = @ + 1] ELSE runs
  /\ \/ /\ handled' = [handled EXCEPT ![g] = @ \cup {e}]
        /\ Goto(c, "ack")
        /\ UNCHANGED failed
     \/ /\ \E step \in {"requeue", "bury"} : Goto(c, step)  \* transient, permanent
        /\ failed' = [failed EXCEPT ![e] = @ + 1]
        /\ UNCHANGED handled
  /\ UNCHANGED <<stream, last, pending, keys, dead, msg, expired, faults>>

\* The dead letter, with its dlq_reason.
Bury(c, reason) ==
  dead' = dead \cup {[group |-> GroupOf[c], event |-> EventOf(c), reason |-> reason]}

\* How often the entry has been requeued, 0 if it does not say.
RetryCount(c) == stream[msg[c]].retry

\* FAULTY: the last retry is given away.
NextRetryEarly(c) ==
  LET nextRetry == RetryCount(c) + 1 IN
  IF nextRetry < MaxRetry
  THEN XAdd(EventOf(c), nextRetry) /\ UNCHANGED dead
  ELSE Bury(c, "exhausted") /\ UNCHANGED stream

\* FAULTY: there is one retry too many.
NextRetryLate(c) ==
  IF RetryCount(c) <= MaxRetry
  THEN XAdd(EventOf(c), RetryCount(c) + 1) /\ UNCHANGED dead
  ELSE Bury(c, "exhausted") /\ UNCHANGED stream

\* RequeueOrDLQ: a copy for every group that reads the stream, or a dead letter.
NextRetry(c) ==
  LET nextRetry == RetryCount(c) + 1 IN
  IF nextRetry <= MaxRetry
  THEN XAdd(EventOf(c), nextRetry) /\ UNCHANGED dead
  ELSE Bury(c, "exhausted") /\ UNCHANGED stream

RequeueOrDLQ(c) ==
  /\ pc[c] = "requeue"
  /\ NextRetry(c)
  /\ Goto(c, "ack")
  /\ UNCHANGED <<last, pending, keys, msg, handled, runs, expired, failed, faults>>

\* A permanent error: no retry.
MoveToDLQ(c) ==
  /\ pc[c] = "bury"
  /\ Bury(c, "permanent")
  /\ Goto(c, "ack")
  /\ UNCHANGED <<stream, last, pending, keys, msg, handled, runs, expired, failed,
                 faults>>

\* FAULTY: the entry is acknowledged although it could not be published.
PublishErrorAcked(c) ==
  /\ pc[c] \in {"requeue", "bury"} /\ Fault
  /\ Goto(c, "ack")
  /\ UNCHANGED <<stream, last, pending, keys, dead, msg, handled, runs, expired, failed>>

\* The XADD of the copy or of the dead letter returns an error, carried out or not;
\* HandleMessage returns it and the entry stays pending.
PublishError(c) ==
  /\ pc[c] \in {"requeue", "bury"} /\ Fault
  /\ \/ pc[c] = "requeue" /\ NextRetry(c)
     \/ pc[c] = "bury" /\ Bury(c, "permanent") /\ UNCHANGED stream
     \/ UNCHANGED <<stream, dead>>
  /\ Return(c)
  /\ UNCHANGED <<last, pending, keys, handled, runs, expired, failed>>

\* XACK.
AckOne(c) == pending' = [pending EXCEPT ![GroupOf[c]] = @ \ {msg[c]}]

Ack(c) ==
  /\ pc[c] = "ack"
  /\ AckOne(c)
  /\ Return(c)
  /\ UNCHANGED <<stream, last, keys, dead, handled, runs, expired, failed, faults>>

AckError(c) ==
  /\ pc[c] = "ack" /\ Fault
  /\ AckOne(c) \/ UNCHANGED pending
  /\ Return(c)
  /\ UNCHANGED <<stream, last, keys, dead, handled, runs, expired, failed>>

\* The process dies; nobody reads its pending entries again.
Crash(c) ==
  /\ pc[c] # "down" /\ Fault
  /\ Goto(c, "down")
  /\ msg' = [msg EXCEPT ![c] = 0]
  /\ UNCHANGED <<stream, last, pending, keys, dead, handled, runs, expired, failed>>

Restart(c) ==
  /\ pc[c] = "down"
  /\ Goto(c, "read")
  /\ UNCHANGED <<stream, last, pending, keys, dead, msg, handled, runs, expired,
                 failed, faults>>

Run(c) ==
  \/ ReadGroup(c) \/ AcquireIdempotency(c) \/ Handle(c)
  \/ RequeueOrDLQ(c) \/ MoveToDLQ(c) \/ Ack(c)

Next ==
  \/ \E e \in Events : Publish(e) \/ PublishAgain(e)
  \/ \E k \in keys : Expire(k)
  \/ \E c \in Consumers :
       \/ Run(c)
       \/ AcquireError(c) \/ PublishError(c) \/ AckError(c)
       \/ Crash(c) \/ Restart(c)

Spec == Init /\ [][Next]_vars

-----------------------------------------------------------------------------
\* Properties

\* Some entry of e is on its way to g: unread, or pending and not about to be
\* acknowledged.
OnItsWay(g, e) ==
  \E i \in Copies(e) :
    \/ i > last[g]
    \/ /\ i \in pending[g]
       /\ \A c \in Consumers : GroupOf[c] = g /\ msg[c] = i => pc[c] # "ack"

\* g took a key for e at some time.
HadKey(g, e) ==
  expired[g][e] > 0 \/ \E k \in keys : k.group = g /\ k.event = e

\* HandleMessage acknowledges only what was handled, requeued or buried: an event
\* that a group neither handled nor buried is in the stream or on the pending list
\* for it, whatever fails.  The one way to lose an event is its own key, taken by a
\* run that did not end well or by a SETNX whose answer was lost.
UnhandledIsKept ==
  \A e \in Events, g \in Groups :
    Copies(e) # {} =>
      \/ e \in handled[g]
      \/ \E d \in dead : d.group = g /\ d.event = e
      \/ OnItsWay(g, e)
      \/ g \in Keyed /\ HadKey(g, e)

\* "Duplicates ACK without side effects" (HandleOptions.IdempotencyKey): a keyed
\* group runs its handler once for an event, whether that run succeeds or not, and
\* once more for every key that expired; however many copies retries, relays and
\* other groups add.  Events without a readable id have no such promise.
KeyedOnce ==
  \A g \in Keyed, e \in Events \ Opaque : runs[g][e] <= 1 + expired[g][e]

\* A dead letter that says "retry exhausted" follows at least MaxRetry + 1 failed
\* runs; they are counted over all groups, for a copy goes to each of them.
ExhaustedAfterRetries ==
  \A d \in dead : d.reason = "exhausted" => failed[d.event] > MaxRetry
=============================================================================
