---------------------------- MODULE EventBusProofs ----------------------------
(***************************************************************************)
(* What holds of EventBus for every number of events, groups, consumers,   *)
(* retries and faults: no event is lost but through its own idempotency    *)
(* key, no dead letter claims retries that were not made, and a keyed      *)
(* group runs its handler once for a key.                                  *)
(*                                                                         *)
(* The argument.  A consumer comes to acknowledge an entry only when the   *)
(* event was handled, buried, skipped for its key, or appended once more,  *)
(* and a new entry is unread by every group (BusyIsRead keeps the entries  *)
(* at work apart from the unread ones).  An entry carries no more retries  *)
(* than its event had failed runs, and one is about to be requeued only    *)
(* after one more (RetriesAreFailures).  A keyed group runs its handler    *)
(* only after a consumer has set the key of the event, and only expiry     *)
(* removes a key: so the runs, and the consumers about to make one, are no *)
(* more than the keys there have been (RunsHaveKeys).                      *)
(***************************************************************************)
EXTENDS EventBus, FiniteSetTheorems, TLAPS

\* A consumer works on entries that its group has been given.
BusyIsRead == \A c \in Consumers : msg[c] <= last[GroupOf[c]]

\* Every retry of an entry stands for a failed run of its event.
RetriesAreFailures ==
  /\ \A i \in Entries : stream[i].retry <= failed[stream[i].event]
  /\ \A c \in Consumers :
       pc[c] = "requeue" => stream[msg[c]].retry < failed[EventOf(c)]

\* The part of TypeOK that is about the consumers.
ConsumersOK ==
  /\ pc \in [Consumers -> {"read", "acquire", "handle", "requeue", "bury", "ack", "down"}]
  /\ \A c \in Consumers : msg[c] = 0 <=> pc[c] \in {"read", "down"}
  /\ \A c \in Consumers : pc[c] = "acquire" => GroupOf[c] \in Keyed

-----------------------------------------------------------------------------
\* The positions of the stream.
LEMMA EntriesCounted ==
  ASSUME TypeOK
  PROVE  Entries = 1 .. Len(stream) /\ Len(stream) \in Nat
BY DEF TypeOK, Entries

\* What a step that adds nothing to the stream has to keep.
LEMMA SameEntries == UNCHANGED stream => Entries' = Entries
BY DEF Entries

\* XADD adds one entry behind those that are there.
LEMMA XAddGrows ==
  ASSUME TypeOK, NEW e \in Events, NEW r \in 0 .. MaxRetry, XAdd(e, r)
  PROVE  /\ stream' \in Seq(Entry)
         /\ Entries = 1 .. Len(stream) /\ Len(stream) \in Nat
         /\ Entries' = 1 .. Len(stream) + 1 /\ Entries \subseteq Entries'
         /\ Len(stream') = Len(stream) + 1
         /\ \A i \in Entries : stream'[i] = stream[i]
         /\ stream'[Len(stream) + 1] = [event |-> e, retry |-> r]
         /\ stream'[Len(stream) + 1].event = e /\ stream'[Len(stream) + 1].retry = r
<1>1. stream \in Seq(Entry) /\ [event |-> e, retry |-> r] \in Entry
  BY DEF TypeOK, Entry
<1>2. QED
  BY <1>1 DEF XAdd, Entries

\* The entry a busy consumer works on is in the stream.
LEMMA BusyHasEntry ==
  ASSUME TypeOK, NEW c \in Consumers, pc[c] \notin {"read", "down"}
  PROVE  /\ msg[c] \in Entries /\ stream[msg[c]] \in Entry
         /\ EventOf(c) \in Events /\ stream[msg[c]].retry \in 0 .. MaxRetry
<1>1. msg[c] \in Entries
  BY DEF TypeOK
<1>2. stream[msg[c]] \in Entry
  BY <1>1 DEF TypeOK, Entries
<1>3. QED
  BY <1>1, <1>2 DEF Entry, EventOf

\* A failed event is appended once more, or buried after its last retry.
LEMMA NextRetryCases ==
  ASSUME TypeOK, NEW c \in Consumers, pc[c] = "requeue", NextRetry(c)
  PROVE  \/ /\ stream[msg[c]].retry + 1 \in 0 .. MaxRetry
            /\ XAdd(EventOf(c), stream[msg[c]].retry + 1)
            /\ UNCHANGED dead
         \/ /\ stream[msg[c]].retry >= MaxRetry
            /\ UNCHANGED stream
            /\ Bury(c, "exhausted")
<1>1. stream[msg[c]].retry \in Nat /\ MaxRetry \in Nat
  BY BusyHasEntry, BusAssumption
<1>2. CASE stream[msg[c]].retry + 1 <= MaxRetry
  <2>1. stream[msg[c]].retry + 1 \in 0 .. MaxRetry
    BY <1>1, <1>2
  <2>2. XAdd(EventOf(c), stream[msg[c]].retry + 1) /\ UNCHANGED dead
    BY <1>2, Zenon DEF NextRetry, RetryCount
  <2>3. QED
    BY <2>1, <2>2
<1>3. CASE ~(stream[msg[c]].retry + 1 <= MaxRetry)
  <2>1. stream[msg[c]].retry >= MaxRetry
    BY <1>1, <1>3
  <2>2. UNCHANGED stream /\ Bury(c, "exhausted")
    BY <1>3, Zenon DEF NextRetry, RetryCount
  <2>3. QED
    BY <2>1, <2>2
<1>4. QED
  BY <1>2, <1>3

\* What a growing stream leaves as it is.
LEMMA GrowsTypeOK ==
  ASSUME TypeOK, NEW e \in Events, NEW r \in 0 .. MaxRetry, XAdd(e, r)
  PROVE  /\ last \in [Groups -> {0} \cup Entries']
         /\ pending \in [Groups -> SUBSET Entries']
         /\ keys \subseteq [group : Keyed, event : Events, entry : {0} \cup Entries']
         /\ msg \in [Consumers -> {0} \cup Entries']
<1>1. Entries \subseteq Entries'
  BY XAddGrows
<1>2. last \in [Groups -> {0} \cup Entries']
  BY <1>1 DEF TypeOK
<1>3. pending \in [Groups -> SUBSET Entries']
  BY <1>1 DEF TypeOK
<1>4. keys \subseteq [group : Keyed, event : Events, entry : {0} \cup Entries']
  BY <1>1 DEF TypeOK
<1>5. msg \in [Consumers -> {0} \cup Entries']
  BY <1>1 DEF TypeOK
<1>6. QED
  BY <1>2, <1>3, <1>4, <1>5

\* A consumer goes on with its entry.
LEMMA GoesOn ==
  ASSUME TypeOK, NEW c \in Consumers, pc[c] \notin {"read", "down"},
         NEW label \in {"handle", "requeue", "bury", "ack"},
         Goto(c, label), UNCHANGED msg
  PROVE  ConsumersOK' /\ msg' \in [Consumers -> {0} \cup Entries]
BY DEF TypeOK, ConsumersOK, Goto

\* A consumer leaves its entry.
LEMMA Leaves ==
  ASSUME TypeOK, NEW c \in Consumers, NEW label \in {"read", "down"},
         Goto(c, label), msg' = [msg EXCEPT ![c] = 0]
  PROVE  ConsumersOK' /\ msg' \in [Consumers -> {0} \cup Entries]
BY DEF TypeOK, ConsumersOK, Goto

\* At the start nothing has been published and nobody is at work.
LEMMA InitTypeOK == Init => TypeOK
BY BusAssumption DEF Init, TypeOK, Entries

\* The steps that send nothing and only move a consumer.
LEMMA StepTypeOK ==
  ASSUME TypeOK, [Next]_vars
  PROVE  TypeOK'
<1> USE BusAssumption
<1>1. ASSUME NEW e \in Events, Publish(e) \/ PublishAgain(e)
      PROVE  TypeOK'
  <2>1. XAdd(e, 0) /\ 0 \in 0 .. MaxRetry
    BY <1>1 DEF Publish, PublishAgain
  <2>2. stream' \in Seq(Entry)
    BY <2>1, XAddGrows
  <2>3. /\ UNCHANGED <<last, pending, keys, dead, pc, msg, handled, runs, expired, failed>>
        /\ faults' \in 0 .. MaxFaults
    BY <1>1 DEF Publish, PublishAgain, Fault, TypeOK
  <2>4. /\ last \in [Groups -> {0} \cup Entries']
        /\ pending \in [Groups -> SUBSET Entries']
        /\ keys \subseteq [group : Keyed, event : Events, entry : {0} \cup Entries']
        /\ msg \in [Consumers -> {0} \cup Entries']
    BY <2>1, GrowsTypeOK
  <2>5. QED
    BY <2>2, <2>3, <2>4 DEF TypeOK
<1>2. ASSUME NEW k \in keys, Expire(k)
      PROVE  TypeOK'
  <2>1. k.group \in Keyed /\ k.event \in Events
    BY DEF TypeOK
  <2>2. expired' \in [Keyed -> [Events -> Nat]]
    BY <1>2, <2>1 DEF TypeOK, Expire
  <2>3. keys' \subseteq keys /\ faults' \in 0 .. MaxFaults
    BY <1>2 DEF TypeOK, Expire, Fault
  <2>4. UNCHANGED <<stream, last, pending, dead, pc, msg, handled, runs, failed>>
    BY <1>2 DEF Expire
  <2>5. QED
    BY <2>2, <2>3, <2>4 , SameEntries DEF TypeOK, ConsumersOK
<1>3. ASSUME NEW c \in Consumers, ReadGroup(c)
      PROVE  TypeOK'
  <2>1. last[GroupOf[c]] + 1 \in Entries
    <3>1. last[GroupOf[c]] \in {0} \cup Entries
      BY DEF TypeOK
    <3>2. last[GroupOf[c]] < Len(stream)
      BY <1>3 DEF ReadGroup
    <3>3. QED
      BY <3>1, <3>2, EntriesCounted
  <2>2. /\ last' \in [Groups -> {0} \cup Entries]
        /\ pending' \in [Groups -> SUBSET Entries]
        /\ msg' \in [Consumers -> {0} \cup Entries]
    BY <1>3, <2>1 DEF TypeOK, ReadGroup
  <2>3. ConsumersOK'
    <3>1. last[GroupOf[c]] + 1 # 0
      BY <2>1, EntriesCounted
    <3>2. QED
      BY <1>3, <3>1 DEF TypeOK, ConsumersOK, ReadGroup, Goto
  <2>4. UNCHANGED <<stream, keys, dead, handled, runs, expired, failed, faults>>
    BY <1>3 DEF ReadGroup
  <2>5. QED
    BY <2>2, <2>3, <2>4 , SameEntries DEF TypeOK, ConsumersOK
<1>4. ASSUME NEW c \in Consumers, AcquireIdempotency(c) \/ AcquireError(c)
      PROVE  TypeOK'
  <2>1. KeyOf(c) \in [group : Keyed, event : Events, entry : {0} \cup Entries]
    BY <1>4, BusyHasEntry DEF TypeOK, AcquireIdempotency, AcquireError, KeyOf
  <2>2. keys' \subseteq [group : Keyed, event : Events, entry : {0} \cup Entries]
    BY <1>4, <2>1 DEF TypeOK, AcquireIdempotency, AcquireError, TakeKey
  <2>3. /\ ConsumersOK' /\ msg' \in [Consumers -> {0} \cup Entries]
        /\ faults' \in 0 .. MaxFaults
    <3>1. \/ Return(c)
          \/ \E label \in {"handle", "ack"} : Goto(c, label) /\ UNCHANGED msg
      BY <1>4 DEF AcquireIdempotency, AcquireError
    <3>2. pc[c] \notin {"read", "down"}
      BY <1>4 DEF AcquireIdempotency, AcquireError
    <3>3. faults' \in 0 .. MaxFaults
      BY <1>4 DEF AcquireIdempotency, AcquireError, Fault, TypeOK
    <3>4. QED
      BY <3>1, <3>2, <3>3, GoesOn, Leaves DEF Return
  <2>4. UNCHANGED <<stream, last, pending, dead, handled, runs, expired, failed>>
    BY <1>4 DEF AcquireIdempotency, AcquireError
  <2>5. QED
    BY <2>2, <2>3, <2>4 , SameEntries DEF TypeOK, ConsumersOK
<1>5. ASSUME NEW c \in Consumers, Handle(c)
      PROVE  TypeOK'
  <2>1. EventOf(c) \in Events
    BY <1>5, BusyHasEntry DEF Handle
  <2>2. runs' \in [Keyed -> [Events -> Nat]]
    BY <1>5, <2>1 DEF TypeOK, Handle
  <2>3. handled' \in [Groups -> SUBSET Events]
    <3>1. \/ handled' = handled
          \/ handled' = [handled EXCEPT ![GroupOf[c]] = @ \cup {EventOf(c)}]
      BY <1>5 DEF Handle
    <3>2. handled \in [Groups -> SUBSET Events]
      BY DEF TypeOK
    <3>3. QED
      BY <3>1, <3>2, <2>1
  <2>4. failed' \in [Events -> Nat]
    <3>1. failed' = failed \/ failed' = [failed EXCEPT ![EventOf(c)] = @ + 1]
      BY <1>5 DEF Handle
    <3>2. failed \in [Events -> Nat]
      BY DEF TypeOK
    <3>3. QED
      BY <3>1, <3>2, <2>1
  <2>5. ConsumersOK'
    <3>1. \E label \in {"requeue", "bury", "ack"} : Goto(c, label) /\ UNCHANGED msg
      BY <1>5 DEF Handle
    <3>2. QED
      BY <1>5, <3>1, GoesOn DEF Handle
  <2>6. UNCHANGED <<stream, last, pending, keys, dead, msg, expired, faults>>
    BY <1>5 DEF Handle
  <2>7. QED
    BY <2>2, <2>3, <2>4, <2>5, <2>6 , SameEntries DEF TypeOK, ConsumersOK
<1>6. ASSUME NEW c \in Consumers,
             RequeueOrDLQ(c) \/ MoveToDLQ(c) \/ PublishError(c)
      PROVE  TypeOK'
  <2>1. EventOf(c) \in Events /\ stream[msg[c]].retry \in 0 .. MaxRetry
    BY <1>6, BusyHasEntry DEF RequeueOrDLQ, MoveToDLQ, PublishError
  <2>2. /\ \/ stream' = stream
           \/ \E r \in 0 .. MaxRetry : XAdd(EventOf(c), r)
        /\ dead' = dead \/ Bury(c, "exhausted") \/ Bury(c, "permanent")
    <3>1. CASE NextRetry(c) /\ pc[c] = "requeue"
      BY <2>1, <3>1, NextRetryCases
    <3>2. CASE UNCHANGED stream /\ (UNCHANGED dead \/ Bury(c, "permanent"))
      BY <3>2
    <3>3. QED
      BY <1>6, <3>1, <3>2, Zenon DEF RequeueOrDLQ, MoveToDLQ, PublishError
  <2>3. dead' \subseteq [group : Groups, event : Events, reason : {"exhausted", "permanent"}]
    <3>1. GroupOf[c] \in Groups
      OBVIOUS
    <3>2. dead \subseteq [group : Groups, event : Events, reason : {"exhausted", "permanent"}]
      BY DEF TypeOK
    <3>3. ASSUME NEW why \in {"exhausted", "permanent"}, Bury(c, why)
          PROVE  dead' \subseteq [group : Groups, event : Events, reason : {"exhausted", "permanent"}]
      BY <2>1, <3>1, <3>2, <3>3 DEF Bury
    <3>4. QED
      BY <2>2, <3>2, <3>3
  <2>4. /\ ConsumersOK' /\ msg' \in [Consumers -> {0} \cup Entries]
        /\ faults' \in 0 .. MaxFaults
    <3>1. \/ Return(c)
          \/ Goto(c, "ack") /\ UNCHANGED msg
      <4>1. CASE RequeueOrDLQ(c)
        BY <4>1 DEF RequeueOrDLQ
      <4>2. CASE MoveToDLQ(c)
        BY <4>2 DEF MoveToDLQ
      <4>3. CASE PublishError(c)
        BY <4>3 DEF PublishError
      <4>4. QED
        BY <1>6, <4>1, <4>2, <4>3
    <3>2. pc[c] \notin {"read", "down"}
      BY <1>6 DEF RequeueOrDLQ, MoveToDLQ, PublishError
    <3>3. faults' \in 0 .. MaxFaults
      <4>1. \/ faults' = faults
            \/ faults < MaxFaults /\ faults' = faults + 1
        <5>1. CASE RequeueOrDLQ(c)
          BY <5>1 DEF RequeueOrDLQ
        <5>2. CASE MoveToDLQ(c)
          BY <5>2 DEF MoveToDLQ
        <5>3. CASE PublishError(c)
          BY <5>3 DEF PublishError, Fault
        <5>4. QED
          BY <1>6, <5>1, <5>2, <5>3
      <4>2. QED
        BY <4>1 DEF TypeOK
    <3>4. QED
      BY <3>1, <3>2, <3>3, GoesOn, Leaves DEF Return
  <2>5. UNCHANGED <<last, pending, keys, handled, runs, expired, failed>>
    BY <1>6 DEF RequeueOrDLQ, MoveToDLQ, PublishError
  <2>6. stream' \in Seq(Entry) /\ Entries \subseteq Entries'
    <3>1. CASE stream' = stream
      BY <3>1 DEF TypeOK, Entries
    <3>2. CASE \E r \in 0 .. MaxRetry : XAdd(EventOf(c), r)
      BY <3>2, <2>1, XAddGrows
    <3>3. QED
      BY <2>2, <3>1, <3>2
  <2>7. QED
    BY <2>3, <2>4, <2>5, <2>6 DEF TypeOK, ConsumersOK
<1>7. ASSUME NEW c \in Consumers, Ack(c) \/ AckError(c) \/ Crash(c) \/ Restart(c)
      PROVE  TypeOK'
  <2>1. /\ ConsumersOK' /\ msg' \in [Consumers -> {0} \cup Entries]
        /\ faults' \in 0 .. MaxFaults
    <3>1. ASSUME Restart(c)
          PROVE  msg' = [msg EXCEPT ![c] = 0]
      BY <3>1 DEF Restart, TypeOK
    <3>2. \E label \in {"read", "down"} : Goto(c, label) /\ msg' = [msg EXCEPT ![c] = 0]
      BY <1>7, <3>1 DEF Ack, AckError, Crash, Restart, Return
    <3>3. faults' \in 0 .. MaxFaults
      BY <1>7 DEF Ack, AckError, Crash, Restart, Fault, TypeOK
    <3>4. QED
      BY <3>2, <3>3, Leaves
  <2>2. pending' \in [Groups -> SUBSET Entries]
    <3>1. AckOne(c) \/ UNCHANGED pending
      BY <1>7 DEF Ack, AckError, Crash, Restart
    <3>2. \A g \in Groups : pending[g] \subseteq Entries
      BY DEF TypeOK
    <3>3. CASE AckOne(c)
      <4>1. pending' = [g \in Groups |-> IF g = GroupOf[c] THEN pending[g] \ {msg[c]}
                                                          ELSE pending[g]]
        BY <3>3 DEF AckOne, TypeOK
      <4>2. QED
        BY <3>2, <4>1
    <3>4. CASE UNCHANGED pending
      BY <3>4 DEF TypeOK
    <3>5. QED
      BY <3>1, <3>3, <3>4
  <2>3. UNCHANGED <<stream, last, keys, dead, handled, runs, expired, failed>>
    BY <1>7 DEF Ack, AckError, Crash, Restart
  <2>4. QED
    BY <2>1, <2>2, <2>3 , SameEntries DEF TypeOK, ConsumersOK
<1>8. CASE UNCHANGED vars
  BY <1>8, SameEntries DEF vars, TypeOK
<1>9. QED
  BY <1>1, <1>2, <1>3, <1>4, <1>5, <1>6, <1>7, <1>8 DEF Next, Run

\* The variables keep their types, an entry its bound on retries.
THEOREM TypeCorrect == Spec => []TypeOK
<1>1. QED
  BY InitTypeOK, StepTypeOK, PTL DEF Spec

-----------------------------------------------------------------------------
\* What UnhandledIsKept says of one group and one event.
Kept(g, e) ==
  \/ e \in handled[g]
  \/ \E d \in dead : d.group = g /\ d.event = e
  \/ OnItsWay(g, e)
  \/ g \in Keyed /\ HadKey(g, e)

\* An event stays kept when no consumer of the group turns to acknowledging it and
\* the positions of the group stay as they are.
LEMMA StaysKept ==
  ASSUME TypeOK, NEW g \in Groups, NEW e \in Events, Kept(g, e),
         Entries \subseteq Entries', \A i \in Entries : stream'[i] = stream[i],
         handled[g] \subseteq handled'[g], dead \subseteq dead', UNCHANGED <<last, pending>>,
         g \in Keyed /\ HadKey(g, e) => HadKey(g, e)',
         \A d \in Consumers : GroupOf[d] = g /\ pc'[d] = "ack" =>
           msg'[d] = msg[d] /\ (pc[d] = "ack" \/ EventOf(d) # e)
  PROVE  Kept(g, e)'
<1>1. CASE OnItsWay(g, e)
  <2>1. PICK i \in Copies(e) :
          \/ i > last[g]
          \/ /\ i \in pending[g]
             /\ \A c \in Consumers : GroupOf[c] = g /\ msg[c] = i => pc[c] # "ack"
    BY <1>1 DEF OnItsWay
  <2>2. i \in Entries /\ stream[i].event = e
    BY DEF Copies
  <2>3. i \in Copies(e)'
    BY <2>2 DEF Copies
  <2>4. CASE i > last[g]
    BY <2>3, <2>4 DEF OnItsWay, Kept
  <2>5. CASE /\ i \in pending[g]
             /\ \A c \in Consumers : GroupOf[c] = g /\ msg[c] = i => pc[c] # "ack"
    <3>1. ASSUME NEW d \in Consumers, GroupOf[d] = g, msg'[d] = i, pc'[d] = "ack"
          PROVE  FALSE
      <4>1. msg[d] = i /\ EventOf(d) # e
        BY <2>5, <3>1
      <4>2. QED
        BY <4>1, <2>2 DEF EventOf
    <3>2. QED
      BY <2>3, <2>5, <3>1 DEF OnItsWay, Kept
  <2>6. QED
    BY <2>1, <2>4, <2>5
<1>2. CASE e \in handled[g] \/ (\E d \in dead : d.group = g /\ d.event = e)
  BY <1>2 DEF Kept
<1>3. CASE g \in Keyed /\ HadKey(g, e)
  BY <1>3 DEF Kept
<1>4. QED
  BY <1>1, <1>2, <1>3 DEF Kept

\* An entry that is appended is on its way to every group.
LEMMA AppendedIsKept ==
  ASSUME TypeOK, NEW g \in Groups, NEW e \in Events, NEW r \in 0 .. MaxRetry, XAdd(e, r),
         UNCHANGED last
  PROVE  Kept(g, e)'
<1> DEFINE n == Len(stream) + 1
<1>1. n \in Entries' /\ stream'[n] = [event |-> e, retry |-> r]
  BY XAddGrows
<1>2. n \in Copies(e)'
  BY <1>1 DEF Copies
<1>3. last[g] \in {0} \cup Entries
  BY DEF TypeOK
<1>4. n > last'[g]
  BY <1>3, EntriesCounted
<1>5. QED
  BY <1>2, <1>4 DEF OnItsWay, Kept

\* Keys are only added, and an expiry is counted.
LEMMA KeysLeaveTraces ==
  ASSUME TypeOK, NEW g \in Keyed, NEW e \in Events, HadKey(g, e),
         keys \subseteq keys', UNCHANGED expired
  PROVE  HadKey(g, e)'
BY DEF HadKey

\* Who works on an entry was given it.
LEMMA BusyIsReadStep ==
  ASSUME TypeOK, BusyIsRead, [Next]_vars
  PROVE  BusyIsRead'
<1> USE BusAssumption
<1>1. \A g \in Groups : last[g] \in Nat
  <2>1. \A g \in Groups : last[g] \in {0} \cup Entries
    BY DEF TypeOK
  <2>2. QED
    BY <2>1, EntriesCounted
<1>2. \A c \in Consumers : msg[c] \in Nat
  BY EntriesCounted DEF TypeOK
<1>3. ASSUME NEW c \in Consumers, ReadGroup(c)
      PROVE  BusyIsRead'
  <2> SUFFICES ASSUME NEW d \in Consumers
               PROVE  msg'[d] <= last'[GroupOf[d]]
    BY DEF BusyIsRead
  <2>1. /\ last' = [last EXCEPT ![GroupOf[c]] = @ + 1]
        /\ msg' = [msg EXCEPT ![c] = last'[GroupOf[c]]]
    BY <1>3 DEF ReadGroup
  <2>2. msg[d] <= last[GroupOf[d]] /\ msg[d] \in Nat /\ last[GroupOf[d]] \in Nat
    BY <1>1, <1>2 DEF BusyIsRead
  <2>3. last'[GroupOf[d]] >= last[GroupOf[d]] /\ last'[GroupOf[d]] \in Nat
    BY <2>1, <2>2 DEF TypeOK
  <2>4. CASE d = c
    BY <2>1, <2>3, <2>4 DEF TypeOK
  <2>5. CASE d # c
    BY <2>1, <2>2, <2>3, <2>5 DEF TypeOK
  <2>6. QED
    BY <2>4, <2>5
<1>4. ASSUME NEW c \in Consumers, UNCHANGED last,
             \/ UNCHANGED msg
             \/ msg' = [msg EXCEPT ![c] = 0]
      PROVE  BusyIsRead'
  <2> SUFFICES ASSUME NEW d \in Consumers
               PROVE  msg'[d] <= last'[GroupOf[d]]
    BY DEF BusyIsRead
  <2>1. msg'[d] \in {0, msg[d]}
    BY <1>4 DEF TypeOK
  <2>2. msg[d] <= last[GroupOf[d]] /\ last[GroupOf[d]] \in Nat
    BY <1>1 DEF BusyIsRead
  <2>3. QED
    BY <1>4, <2>1, <2>2
<1>5. CASE UNCHANGED <<last, msg>>
  BY <1>5 DEF BusyIsRead
<1>6. ASSUME NEW c \in Consumers,
             \/ AcquireIdempotency(c) \/ AcquireError(c) \/ Handle(c)
             \/ RequeueOrDLQ(c) \/ MoveToDLQ(c) \/ PublishError(c)
             \/ Ack(c) \/ AckError(c) \/ Crash(c) \/ Restart(c)
      PROVE  BusyIsRead'
  <2>1. UNCHANGED last
    BY <1>6 DEF AcquireIdempotency, AcquireError, Handle, RequeueOrDLQ, MoveToDLQ,
                PublishError, Ack, AckError, Crash, Restart
  <2>2. \/ UNCHANGED msg
        \/ msg' = [msg EXCEPT ![c] = 0]
    BY <1>6 DEF AcquireIdempotency, AcquireError, Handle, RequeueOrDLQ, MoveToDLQ,
                PublishError, Ack, AckError, Crash, Restart, Return
  <2>3. QED
    BY <1>4, <2>1, <2>2
<1>7. ASSUME NEW e \in Events, Publish(e) \/ PublishAgain(e)
      PROVE  BusyIsRead'
  BY <1>5, <1>7 DEF Publish, PublishAgain
<1>8. ASSUME NEW k \in keys, Expire(k)
      PROVE  BusyIsRead'
  BY <1>5, <1>8 DEF Expire
<1>9. CASE UNCHANGED vars
  BY <1>5, <1>9 DEF vars
<1>10. QED
  BY <1>3, <1>6, <1>7, <1>8, <1>9 DEF Next, Run

\* No step loses an event of a group but by its key.
LEMMA KeptStep ==
  ASSUME TypeOK, BusyIsRead, [Next]_vars, NEW g \in Groups, NEW e \in Events,
         Copies(e) # {} => Kept(g, e), Copies(e)' # {}
  PROVE  Kept(g, e)'
<1> USE BusAssumption
<1>1. ASSUME NEW f \in Events, Publish(f) \/ PublishAgain(f)
      PROVE  Kept(g, e)'
  <2>1. XAdd(f, 0) /\ UNCHANGED <<last, pending, keys, dead, pc, msg, handled, expired>>
    BY <1>1 DEF Publish, PublishAgain
  <2>2. CASE e = f
    BY <2>1, <2>2, AppendedIsKept
  <2>3. CASE e # f
    <3>1. /\ Entries \subseteq Entries' /\ \A i \in Entries : stream'[i] = stream[i]
          /\ Entries' = 1 .. Len(stream) + 1 /\ Entries = 1 .. Len(stream)
          /\ Len(stream) \in Nat /\ stream'[Len(stream) + 1].event = f
      <4>1. 0 \in 0 .. MaxRetry
        OBVIOUS
      <4>2. QED
        BY <2>1, <4>1, XAddGrows
    <3>2. Copies(e) # {}
      BY <2>3, <3>1 DEF Copies
    <3>3. QED
      BY <2>1, <3>1, <3>2, StaysKept DEF HadKey
  <2>4. QED
    BY <2>2, <2>3
<1>2. ASSUME UNCHANGED stream
      PROVE  Kept(g, e) /\ Entries' = Entries
  BY <1>2, SameEntries DEF Copies
<1>3. ASSUME NEW k \in keys, Expire(k)
      PROVE  Kept(g, e)'
  <2>1. /\ keys' = keys \ {k} /\ expired' = [expired EXCEPT ![k.group][k.event] = @ + 1]
        /\ UNCHANGED <<stream, last, pending, dead, pc, msg, handled>>
    BY <1>3 DEF Expire
  <2>2. k.group \in Keyed /\ k.event \in Events
    BY DEF TypeOK
  <2>3. expired \in [Keyed -> [Events -> Nat]]
    BY DEF TypeOK
  <2>4. ASSUME g \in Keyed, HadKey(g, e)
        PROVE  HadKey(g, e)'
    <3>1. CASE k.group = g /\ k.event = e
      BY <2>1, <2>2, <2>3, <3>1 DEF HadKey
    <3>2. CASE ~(k.group = g /\ k.event = e)
      <4>1. expired'[g][e] = expired[g][e]
        BY <2>1, <2>2, <2>3, <2>4, <3>2
      <4>2. QED
        BY <2>1, <2>4, <3>2, <4>1 DEF HadKey
    <3>3. QED
      BY <3>1, <3>2
  <2>5. QED
    BY <1>2, <2>1, <2>4, StaysKept
<1>4. ASSUME NEW c \in Consumers, ReadGroup(c)
      PROVE  Kept(g, e)'
  <2>1. /\ last' = [last EXCEPT ![GroupOf[c]] = @ + 1]
        /\ pending' = [pending EXCEPT ![GroupOf[c]] = @ \cup {last[GroupOf[c]] + 1}]
        /\ msg' = [msg EXCEPT ![c] = last[GroupOf[c]] + 1]
        /\ UNCHANGED <<stream, keys, dead, handled, expired>>
        /\ \E label \in {"acquire", "handle"} : pc' = [pc EXCEPT ![c] = label]
    BY <1>4 DEF ReadGroup, Goto, TypeOK
  <2>2. /\ last \in [Groups -> {0} \cup Entries] /\ pending \in [Groups -> SUBSET Entries]
        /\ msg \in [Consumers -> {0} \cup Entries] /\ DOMAIN pc = Consumers
    BY DEF TypeOK
  <2>3. CASE OnItsWay(g, e)
    <3>1. PICK i \in Copies(e) :
            \/ i > last[g]
            \/ /\ i \in pending[g]
               /\ \A d \in Consumers : GroupOf[d] = g /\ msg[d] = i => pc[d] # "ack"
      BY <2>3 DEF OnItsWay
    <3>2. i \in Copies(e)' /\ i \in Nat /\ last[g] \in Nat
      BY <2>1, <2>2, EntriesCounted, SameEntries DEF Copies
    <3>3. CASE i > last'[g]
      BY <3>2, <3>3 DEF OnItsWay, Kept
    <3>4. CASE i > last[g] /\ ~(i > last'[g])
      <4>1. GroupOf[c] = g /\ i = last[g] + 1
        BY <2>1, <2>2, <3>2, <3>4
      <4>2. i \in pending'[g]
        BY <2>1, <2>2, <4>1
      <4>3. ASSUME NEW d \in Consumers, GroupOf[d] = g, msg'[d] = i
            PROVE  pc'[d] # "ack"
        <5>1. CASE d = c
          BY <2>1, <2>2, <5>1
        <5>2. CASE d # c
          <6>1. msg[d] = i /\ msg[d] <= last[g]
            BY <2>1, <2>2, <4>3, <5>2 DEF BusyIsRead
          <6>2. QED
            BY <3>2, <4>1, <6>1
        <5>3. QED
          BY <5>1, <5>2
      <4>4. QED
        BY <3>2, <4>2, <4>3 DEF OnItsWay, Kept
    <3>5. CASE /\ i \in pending[g]
               /\ \A d \in Consumers : GroupOf[d] = g /\ msg[d] = i => pc[d] # "ack"
      <4>1. i \in pending'[g]
        BY <2>1, <2>2, <3>5
      <4>2. \A d \in Consumers : GroupOf[d] = g /\ msg'[d] = i => pc'[d] # "ack"
        BY <2>1, <2>2, <3>5
      <4>3. QED
        BY <3>2, <4>1, <4>2 DEF OnItsWay, Kept
    <3>6. QED
      BY <3>1, <3>3, <3>4, <3>5
  <2>4. CASE ~OnItsWay(g, e)
    BY <1>2, <2>1, <2>4 DEF Kept, HadKey
  <2>5. QED
    BY <2>3, <2>4
<1>5. ASSUME NEW c \in Consumers, AcquireIdempotency(c) \/ AcquireError(c)
      PROVE  Kept(g, e)'
  <2>1. /\ keys \subseteq keys'
        /\ UNCHANGED <<stream, last, pending, dead, handled, expired>>
    BY <1>5 DEF AcquireIdempotency, AcquireError, TakeKey
  <2>2. \/ Return(c)
        \/ Goto(c, "handle") /\ UNCHANGED msg
        \/ Goto(c, "ack") /\ KeyOf(c) \in keys' /\ UNCHANGED msg
    BY <1>5 DEF AcquireIdempotency, AcquireError, TakeKey
  <2>3. pc[c] = "acquire"
    BY <1>5 DEF AcquireIdempotency, AcquireError
  <2>4. CASE GroupOf[c] = g /\ EventOf(c) = e /\ KeyOf(c) \in keys'
    BY <2>3, <2>4 DEF Kept, HadKey, KeyOf, TypeOK
  <2>5. CASE ~(GroupOf[c] = g /\ EventOf(c) = e /\ KeyOf(c) \in keys')
    <3>1. \A d \in Consumers : GroupOf[d] = g /\ pc'[d] = "ack" =>
             msg'[d] = msg[d] /\ (pc[d] = "ack" \/ EventOf(d) # e)
      BY <2>2, <2>5 DEF Return, Goto, TypeOK
    <3>2. g \in Keyed /\ HadKey(g, e) => HadKey(g, e)'
      BY <2>1, KeysLeaveTraces
    <3>3. QED
      BY <1>2, <2>1, <3>1, <3>2, StaysKept
  <2>6. QED
    BY <2>4, <2>5
<1>6. ASSUME NEW c \in Consumers, Handle(c)
      PROVE  Kept(g, e)'
  <2>1. UNCHANGED <<stream, last, pending, keys, dead, msg, expired>>
    BY <1>6 DEF Handle
  <2>2. \/ handled' = [handled EXCEPT ![GroupOf[c]] = @ \cup {EventOf(c)}] /\ Goto(c, "ack")
        \/ UNCHANGED handled /\ \E step \in {"requeue", "bury"} : Goto(c, step)
    BY <1>6 DEF Handle
  <2>3. handled \in [Groups -> SUBSET Events] /\ DOMAIN pc = Consumers
    BY DEF TypeOK
  <2>4. CASE GroupOf[c] = g /\ EventOf(c) = e /\ Goto(c, "ack") /\ e \in handled'[g]
    BY <2>4 DEF Kept
  <2>5. CASE ~(GroupOf[c] = g /\ EventOf(c) = e /\ Goto(c, "ack") /\ e \in handled'[g])
    <3>1. \A d \in Consumers : GroupOf[d] = g /\ pc'[d] = "ack" =>
             msg'[d] = msg[d] /\ (pc[d] = "ack" \/ EventOf(d) # e)
      BY <2>1, <2>2, <2>3, <2>5 DEF Goto
    <3>2. handled[g] \subseteq handled'[g]
      BY <2>2, <2>3
    <3>3. QED
      BY <1>2, <2>1, <3>1, <3>2, StaysKept DEF HadKey
  <2>6. QED
    BY <2>4, <2>5
<1>7. ASSUME NEW c \in Consumers, RequeueOrDLQ(c) \/ MoveToDLQ(c) \/ PublishError(c)
      PROVE  Kept(g, e)'
  <2> DEFINE Sent == \/ \E r \in 0 .. MaxRetry : XAdd(EventOf(c), r) /\ UNCHANGED dead
                     \/ \E why \in {"exhausted", "permanent"} : UNCHANGED stream /\ Bury(c, why)
  <2>1. /\ pc[c] \in {"requeue", "bury"} /\ UNCHANGED <<last, pending, keys, handled, expired>>
        /\ \/ Return(c)
           \/ Goto(c, "ack") /\ UNCHANGED msg
    BY <1>7 DEF RequeueOrDLQ, MoveToDLQ, PublishError
  <2>2. \/ Sent
        \/ Return(c) /\ UNCHANGED <<stream, dead>>
    <3>1. ASSUME pc[c] = "requeue", NextRetry(c)
          PROVE  Sent
      BY <3>1, NextRetryCases
    <3>2. CASE RequeueOrDLQ(c)
      BY <3>1, <3>2 DEF RequeueOrDLQ
    <3>3. CASE MoveToDLQ(c)
      BY <3>3 DEF MoveToDLQ
    <3>4. CASE PublishError(c)
      BY <3>1, <3>4 DEF PublishError
    <3>5. QED
      BY <1>7, <3>2, <3>3, <3>4
  <2>3. EventOf(c) \in Events
    BY <2>1, BusyHasEntry
  <2>4. /\ Entries \subseteq Entries' /\ \A i \in Entries : stream'[i] = stream[i]
        /\ e # EventOf(c) => Copies(e) # {}
    <3>1. CASE UNCHANGED stream
      BY <3>1, <1>2 DEF Copies
    <3>2. CASE \E r \in 0 .. MaxRetry : XAdd(EventOf(c), r)
      <4>1. /\ Entries \subseteq Entries' /\ \A i \in Entries : stream'[i] = stream[i]
            /\ Entries' = 1 .. Len(stream) + 1 /\ Entries = 1 .. Len(stream)
            /\ Len(stream) \in Nat /\ stream'[Len(stream) + 1].event = EventOf(c)
        BY <2>3, <3>2, XAddGrows
      <4>2. QED
        BY <4>1 DEF Copies
    <3>3. QED
      BY <2>2, <3>1, <3>2
  <2>5. dead \subseteq dead'
    BY <2>2 DEF Bury
  <2>6. CASE Sent /\ GroupOf[c] = g /\ EventOf(c) = e
    <3>1. CASE \E r \in 0 .. MaxRetry : XAdd(EventOf(c), r)
      BY <2>1, <2>6, <3>1, AppendedIsKept
    <3>2. CASE \E why \in {"exhausted", "permanent"} : Bury(c, why)
      <4>1. PICK why \in {"exhausted", "permanent"} : Bury(c, why)
        BY <3>2
      <4> DEFINE letter == [group |-> GroupOf[c], event |-> EventOf(c), reason |-> why]
      <4>2. letter \in dead' /\ letter.group = g /\ letter.event = e
        BY <2>6, <4>1 DEF Bury
      <4>3. QED
        BY <4>2 DEF Kept
    <3>3. QED
      BY <2>6, <3>1, <3>2
  <2>7. CASE ~(Sent /\ GroupOf[c] = g /\ EventOf(c) = e)
    <3>1. \A d \in Consumers : GroupOf[d] = g /\ pc'[d] = "ack" =>
             msg'[d] = msg[d] /\ (pc[d] = "ack" \/ EventOf(d) # e)
      BY <2>1, <2>2, <2>7 DEF Return, Goto, TypeOK
    <3>2. CASE e = EventOf(c) /\ Copies(e) = {}
      BY <2>1, <3>2, BusyHasEntry DEF Copies, EventOf
    <3>3. CASE Copies(e) # {}
      BY <2>1, <2>4, <2>5, <3>1, <3>3, StaysKept DEF HadKey
    <3>4. QED
      BY <2>4, <3>2, <3>3
  <2>8. QED
    BY <2>6, <2>7
<1>8. ASSUME NEW c \in Consumers, Ack(c) \/ AckError(c)
      PROVE  Kept(g, e)'
  <2>1. /\ pc[c] = "ack" /\ Return(c)
        /\ AckOne(c) \/ UNCHANGED pending
        /\ UNCHANGED <<stream, last, keys, dead, handled, expired>>
    BY <1>8 DEF Ack, AckError
  <2>2. /\ pending \in [Groups -> SUBSET Entries] /\ msg \in [Consumers -> {0} \cup Entries]
        /\ DOMAIN pc = Consumers
    BY DEF TypeOK
  <2>3. CASE OnItsWay(g, e)
    <3>1. PICK i \in Copies(e) :
            \/ i > last[g]
            \/ /\ i \in pending[g]
               /\ \A d \in Consumers : GroupOf[d] = g /\ msg[d] = i => pc[d] # "ack"
      BY <2>3 DEF OnItsWay
    <3>2. i \in Copies(e)'
      BY <1>2, <2>1 DEF Copies
    <3>3. CASE i > last[g]
      BY <2>1, <3>2, <3>3 DEF OnItsWay, Kept
    <3>4. CASE /\ i \in pending[g]
               /\ \A d \in Consumers : GroupOf[d] = g /\ msg[d] = i => pc[d] # "ack"
      <4>1. i \in pending'[g]
        BY <2>1, <2>2, <3>4 DEF AckOne
      <4>2. ASSUME NEW d \in Consumers, GroupOf[d] = g, msg'[d] = i
            PROVE  pc'[d] # "ack"
        BY <2>1, <2>2, <3>4, <4>2 DEF Return, Goto
      <4>3. QED
        BY <3>2, <4>1, <4>2 DEF OnItsWay, Kept
    <3>5. QED
      BY <3>1, <3>3, <3>4
  <2>4. CASE ~OnItsWay(g, e)
    BY <1>2, <2>1, <2>4 DEF Kept, HadKey
  <2>5. QED
    BY <2>3, <2>4
<1>9. ASSUME NEW c \in Consumers, Crash(c) \/ Restart(c)
      PROVE  Kept(g, e)'
  <2>1. UNCHANGED <<stream, last, pending, keys, dead, handled, expired>>
    BY <1>9 DEF Crash, Restart
  <2>2. \A d \in Consumers : pc'[d] = "ack" => msg'[d] = msg[d] /\ pc[d] = "ack"
    BY <1>9 DEF Crash, Restart, Goto, TypeOK
  <2>3. QED
    BY <1>2, <2>1, <2>2, StaysKept DEF HadKey
<1>10. CASE UNCHANGED vars
  <2>1. UNCHANGED <<stream, last, pending, keys, dead, pc, msg, handled, expired>>
    BY <1>10 DEF vars
  <2>2. QED
    BY <1>2, <2>1, StaysKept DEF HadKey
<1>11. QED
  BY <1>1, <1>3, <1>4, <1>5, <1>6, <1>7, <1>8, <1>9, <1>10 DEF Next, Run

\* The invariant in which UnhandledIsKept is inductive.
KeptInv == TypeOK /\ BusyIsRead /\ UnhandledIsKept

\* No event that a group neither handled nor buried leaves the stream and the pending
\* list of that group, but through the group's own idempotency key: retries, dead
\* letters, errors, crashes and duplicates lose nothing.
THEOREM NothingLostButByKeys == Spec => []UnhandledIsKept
<1>1. Init => KeptInv
  <2>1. Init => BusyIsRead
    BY BusAssumption DEF Init, BusyIsRead
  <2>2. Init => UnhandledIsKept
    BY DEF Init, UnhandledIsKept, Copies, Entries
  <2>3. QED
    BY <2>1, <2>2, InitTypeOK DEF KeptInv
<1>2. KeptInv /\ [Next]_vars => KeptInv'
  <2> SUFFICES ASSUME KeptInv, [Next]_vars
               PROVE  KeptInv'
    OBVIOUS
  <2> USE DEF KeptInv
  <2>1. TypeOK' /\ BusyIsRead'
    BY StepTypeOK, BusyIsReadStep
  <2>2. ASSUME NEW e \in Events, NEW g \in Groups, Copies(e)' # {}
        PROVE  Kept(g, e)'
    <3>1. Copies(e) # {} => Kept(g, e)
      BY DEF UnhandledIsKept, Kept
    <3>2. QED
      BY <2>2, <3>1, KeptStep
  <2>3. UnhandledIsKept'
    BY <2>2 DEF UnhandledIsKept, Kept
  <2>4. QED
    BY <2>1, <2>3
<1>3. KeptInv => UnhandledIsKept
  BY DEF KeptInv
<1>4. QED
  BY <1>1, <1>2, <1>3, PTL DEF Spec

-----------------------------------------------------------------------------
\* What is appended and what is about to be requeued stays within the failures.
LEMMA RetriesStep ==
  ASSUME TypeOK, RetriesAreFailures, [Next]_vars
  PROVE  RetriesAreFailures'
<1> USE BusAssumption
<1>1. \A i \in Entries : stream[i].event \in Events /\ stream[i].retry \in Nat
  <2>1. \A i \in Entries : stream[i] \in Entry
    BY DEF TypeOK, Entries
  <2>2. \A x \in Entry : x.event \in Events /\ x.retry \in Nat
    BY DEF Entry
  <2>3. QED
    BY <2>1, <2>2
<1>2. \A e \in Events : failed[e] \in Nat
  BY DEF TypeOK
<1>3. ASSUME NEW c \in Consumers, UNCHANGED <<stream, failed>>,
             \/ UNCHANGED <<pc, msg>>
             \/ /\ \A d \in Consumers : d # c => pc'[d] = pc[d] /\ msg'[d] = msg[d]
                /\ pc'[c] # "requeue"
      PROVE  RetriesAreFailures'
  BY <1>3 DEF RetriesAreFailures, EventOf, Entries
<1>4. ASSUME NEW e \in Events, NEW r \in 0 .. MaxRetry, XAdd(e, r), r <= failed[e],
             UNCHANGED failed,
             \A d \in Consumers : pc'[d] = "requeue" => pc[d] = "requeue" /\ msg'[d] = msg[d]
      PROVE  RetriesAreFailures'
  <2>1. /\ Entries = 1 .. Len(stream) /\ Len(stream) \in Nat
        /\ Entries' = 1 .. Len(stream) + 1
        /\ \A i \in Entries : stream'[i] = stream[i]
        /\ stream'[Len(stream) + 1].event = e /\ stream'[Len(stream) + 1].retry = r
    BY <1>4, XAddGrows
  <2>2. \A i \in Entries' : stream'[i].retry <= failed'[stream'[i].event]
    BY <1>4, <2>1 DEF RetriesAreFailures
  <2>3. ASSUME NEW d \in Consumers, pc'[d] = "requeue"
        PROVE  stream'[msg'[d]].retry < failed'[stream'[msg'[d]].event]
    <3>1. pc[d] = "requeue" /\ msg'[d] = msg[d] /\ msg[d] \in Entries
      BY <1>4, <2>3, BusyHasEntry
    <3>2. QED
      BY <1>4, <2>1, <3>1 DEF RetriesAreFailures, EventOf
  <2>4. QED
    BY <2>2, <2>3 DEF RetriesAreFailures, EventOf
<1>5. ASSUME NEW e \in Events, Publish(e) \/ PublishAgain(e)
      PROVE  RetriesAreFailures'
  <2>1. XAdd(e, 0) /\ 0 \in 0 .. MaxRetry /\ 0 <= failed[e] /\ UNCHANGED <<failed, pc, msg>>
    BY <1>2, <1>5 DEF Publish, PublishAgain
  <2>2. QED
    BY <1>4, <2>1
<1>6. ASSUME NEW c \in Consumers, Handle(c)
      PROVE  RetriesAreFailures'
  <2>1. /\ UNCHANGED <<stream, msg>> /\ pc[c] = "handle"
        /\ \/ UNCHANGED failed /\ Goto(c, "ack")
           \/ /\ failed' = [failed EXCEPT ![EventOf(c)] = @ + 1]
              /\ \E step \in {"requeue", "bury"} : Goto(c, step)
    BY <1>6 DEF Handle
  <2>2. msg[c] \in Entries /\ EventOf(c) \in Events
    BY <2>1, BusyHasEntry
  <2>3. \A e \in Events : failed'[e] \in Nat /\ failed[e] <= failed'[e]
    BY <1>2, <2>1, <2>2 DEF TypeOK
  <2>4. ASSUME NEW i \in Entries'
        PROVE  stream'[i].retry <= failed'[stream'[i].event]
    <3>1. i \in Entries /\ stream'[i] = stream[i]
      BY <2>1, SameEntries
    <3>2. stream[i].retry <= failed[stream[i].event]
      BY <3>1 DEF RetriesAreFailures
    <3>3. QED
      BY <1>1, <1>2, <2>3, <3>1, <3>2
  <2>5. ASSUME NEW d \in Consumers, pc'[d] = "requeue"
        PROVE  stream'[msg'[d]].retry < failed'[stream'[msg'[d]].event]
    <3>1. CASE d = c
      <4>1. failed'[EventOf(c)] = failed[EventOf(c)] + 1
        BY <2>1, <2>2, <2>5, <3>1 DEF Goto, TypeOK
      <4>2. stream[msg[c]].retry <= failed[EventOf(c)]
        BY <2>2 DEF RetriesAreFailures, EventOf
      <4>3. QED
        BY <1>1, <1>2, <2>1, <2>2, <3>1, <4>1, <4>2 DEF EventOf
    <3>2. CASE d # c
      <4>1. pc[d] = "requeue"
        BY <2>1, <2>5, <3>2 DEF Goto, TypeOK
      <4>2. msg[d] \in Entries /\ EventOf(d) \in Events
        BY <4>1, BusyHasEntry
      <4>3. stream[msg[d]].retry < failed[EventOf(d)]
        BY <4>1 DEF RetriesAreFailures
      <4>4. QED
        BY <1>1, <1>2, <2>1, <2>3, <4>2, <4>3 DEF EventOf
    <3>3. QED
      BY <3>1, <3>2
  <2>6. QED
    BY <2>4, <2>5 DEF RetriesAreFailures, EventOf
<1>7. ASSUME NEW c \in Consumers, RequeueOrDLQ(c) \/ MoveToDLQ(c) \/ PublishError(c)
      PROVE  RetriesAreFailures'
  <2>1. /\ UNCHANGED failed
        /\ \/ Return(c)
           \/ Goto(c, "ack") /\ UNCHANGED msg
    BY <1>7 DEF RequeueOrDLQ, MoveToDLQ, PublishError
  <2>2. /\ \A d \in Consumers : d # c => pc'[d] = pc[d] /\ msg'[d] = msg[d]
        /\ pc'[c] # "requeue"
    BY <2>1 DEF Return, Goto, TypeOK
  <2>3. \/ UNCHANGED stream
        \/ pc[c] = "requeue" /\ NextRetry(c)
    <3>1. CASE RequeueOrDLQ(c)
      BY <3>1 DEF RequeueOrDLQ
    <3>2. CASE MoveToDLQ(c)
      BY <3>2 DEF MoveToDLQ
    <3>3. CASE PublishError(c)
      BY <3>3 DEF PublishError
    <3>4. QED
      BY <1>7, <3>1, <3>2, <3>3
  <2>4. CASE UNCHANGED stream
    BY <1>3, <2>1, <2>2, <2>4
  <2>5. CASE pc[c] = "requeue" /\ NextRetry(c) /\ ~UNCHANGED stream
    <3>1. /\ stream[msg[c]].retry + 1 \in 0 .. MaxRetry
          /\ XAdd(EventOf(c), stream[msg[c]].retry + 1)
      BY <2>5, NextRetryCases
    <3>2. EventOf(c) \in Events /\ msg[c] \in Entries
      BY <2>5, BusyHasEntry
    <3>3. stream[msg[c]].retry < failed[EventOf(c)]
      BY <2>5 DEF RetriesAreFailures
    <3>4. stream[msg[c]].retry + 1 <= failed[EventOf(c)]
      BY <1>1, <1>2, <3>2, <3>3
    <3>5. \A d \in Consumers : pc'[d] = "requeue" => pc[d] = "requeue" /\ msg'[d] = msg[d]
      BY <2>2
    <3>6. QED
      BY <1>4, <2>1, <3>1, <3>2, <3>4, <3>5
  <2>6. QED
    BY <2>3, <2>4, <2>5
<1>8. ASSUME NEW c \in Consumers,
             \/ ReadGroup(c) \/ AcquireIdempotency(c) \/ AcquireError(c)
             \/ Ack(c) \/ AckError(c) \/ Crash(c) \/ Restart(c)
      PROVE  RetriesAreFailures'
  <2>1. UNCHANGED <<stream, failed>>
    BY <1>8 DEF ReadGroup, AcquireIdempotency, AcquireError, Ack, AckError, Crash, Restart
  <2>2. /\ \A d \in Consumers : d # c => pc'[d] = pc[d] /\ msg'[d] = msg[d]
        /\ pc'[c] # "requeue"
    BY <1>8 DEF ReadGroup, AcquireIdempotency, AcquireError, Ack, AckError, Crash, Restart,
                Return, Goto, TypeOK
  <2>3. QED
    BY <1>3, <2>1, <2>2
<1>9. CASE UNCHANGED <<stream, failed, pc, msg>>
  BY <1>9 DEF RetriesAreFailures, EventOf, Entries
<1>10. CASE UNCHANGED vars \/ \E k \in keys : Expire(k)
  BY <1>9, <1>10 DEF vars, Expire
<1>11. QED
  BY <1>5, <1>6, <1>7, <1>8, <1>10 DEF Next, Run

\* The invariant in which ExhaustedAfterRetries is inductive.
RetryInv == TypeOK /\ RetriesAreFailures /\ ExhaustedAfterRetries

\* A dead letter "retry exhausted" stands for more than MaxRetry failed runs of its
\* event, whatever was published twice, lost or interrupted in between.
THEOREM NoEarlyDeadLetter == Spec => []ExhaustedAfterRetries
<1>1. Init => RetryInv
  <2>1. Init => RetriesAreFailures /\ ExhaustedAfterRetries
    BY DEF Init, RetriesAreFailures, ExhaustedAfterRetries, Entries
  <2>2. QED
    BY <2>1, InitTypeOK DEF RetryInv
<1>2. RetryInv /\ [Next]_vars => RetryInv'
  <2> SUFFICES ASSUME RetryInv, [Next]_vars
               PROVE  RetryInv'
    OBVIOUS
  <2> USE DEF RetryInv
  <2>1. TypeOK' /\ RetriesAreFailures'
    BY StepTypeOK, RetriesStep
  <2>2. \A e \in Events : failed[e] \in Nat /\ failed'[e] \in Nat
    BY <2>1 DEF TypeOK
  <2>3. \A e \in Events : failed[e] <= failed'[e]
    <3>1. ASSUME NEW c \in Consumers, Handle(c)
          PROVE  failed' = failed \/ failed' = [failed EXCEPT ![EventOf(c)] = @ + 1]
      BY <3>1 DEF Handle
    <3>2. CASE UNCHANGED failed
      BY <2>2, <3>2
    <3>3. ASSUME NEW c \in Consumers, Handle(c)
          PROVE  \A e \in Events : failed[e] <= failed'[e]
      <4>1. failed \in [Events -> Nat]
        BY DEF TypeOK
      <4>2. failed' = failed \/ failed' = [failed EXCEPT ![EventOf(c)] = @ + 1]
        BY <3>1, <3>3
      <4>3. QED
        BY <4>1, <4>2
    <3>4. UNCHANGED failed \/ \E c \in Consumers : Handle(c)
      BY DEF vars, Next, Run, Publish, PublishAgain, Expire, ReadGroup, AcquireIdempotency,
             AcquireError, RequeueOrDLQ, MoveToDLQ, PublishError, Ack, AckError, Crash, Restart
    <3>5. QED
      BY <3>2, <3>3, <3>4
  <2>4. ASSUME NEW d \in dead', d.reason = "exhausted"
        PROVE  failed'[d.event] > MaxRetry
    <3>1. CASE d \in dead
      BY <2>2, <2>3, <2>4, <3>1, BusAssumption DEF ExhaustedAfterRetries, TypeOK
    <3>2. CASE d \notin dead
      <4>1. PICK c \in Consumers : RequeueOrDLQ(c) \/ MoveToDLQ(c) \/ PublishError(c)
        BY <2>4, <3>2 DEF vars, Next, Run, Publish, PublishAgain, Expire, ReadGroup,
             AcquireIdempotency, AcquireError, Handle, Ack, AckError, Crash, Restart
      <4>2. UNCHANGED failed /\ pc[c] \in {"requeue", "bury"}
        BY <4>1 DEF RequeueOrDLQ, MoveToDLQ, PublishError
      <4>3. \/ pc[c] = "requeue" /\ NextRetry(c)
            \/ Bury(c, "permanent")
            \/ UNCHANGED dead
        BY <4>1 DEF RequeueOrDLQ, MoveToDLQ, PublishError
      <4>4. ~Bury(c, "permanent")
        BY <2>4, <3>2 DEF Bury
      <4>5. pc[c] = "requeue" /\ NextRetry(c)
        BY <2>4, <3>2, <4>3, <4>4
      <4>6. stream[msg[c]].retry >= MaxRetry /\ Bury(c, "exhausted")
        BY <2>4, <3>2, <4>5, NextRetryCases
      <4>7. d.event = EventOf(c)
        BY <2>4, <3>2, <4>6 DEF Bury
      <4>8. /\ stream[msg[c]].retry < failed[EventOf(c)] /\ EventOf(c) \in Events
            /\ stream[msg[c]].retry \in Nat
        BY <4>2, <4>5, BusyHasEntry DEF RetriesAreFailures
      <4>9. QED
        BY <2>2, <4>2, <4>6, <4>7, <4>8, BusAssumption
    <3>3. QED
      BY <3>1, <3>2
  <2>5. QED
    BY <2>1, <2>4 DEF ExhaustedAfterRetries
<1>3. RetryInv => ExhaustedAfterRetries
  BY DEF RetryInv
<1>4. QED
  BY <1>1, <1>2, <1>3, PTL DEF Spec

-----------------------------------------------------------------------------
\* The key of an event whose envelope can be read.
EventKey(g, e) == [group |-> g, event |-> e, entry |-> 0]

\* The consumers of g that are about to run its handler for e.
AtHandle(g, e) == {c \in Consumers : GroupOf[c] = g /\ pc[c] = "handle" /\ EventOf(c) = e}

\* How often a key for e has been taken, at least: those that expired, and that of now.
KeysTaken(g, e) == expired[g][e] + (IF EventKey(g, e) \in keys THEN 1 ELSE 0)

\* Every run of the handler, and every consumer that is about to run it, has had a key
\* to itself.
RunsHaveKeys ==
  \A g \in Keyed, e \in Events \ Opaque :
    /\ IsFiniteSet(AtHandle(g, e))
    /\ runs[g][e] + Cardinality(AtHandle(g, e)) <= KeysTaken(g, e)

\* No step changes an entry.
LEMMA EntriesStay ==
  ASSUME TypeOK, [Next]_vars
  PROVE  \A i \in Entries : stream'[i] = stream[i]
<1>1. ASSUME NEW e \in Events, NEW r \in 0 .. MaxRetry, XAdd(e, r)
      PROVE  \A i \in Entries : stream'[i] = stream[i]
  BY <1>1, XAddGrows
<1>2. CASE \E e \in Events : Publish(e) \/ PublishAgain(e)
  BY <1>1, <1>2, BusAssumption DEF Publish, PublishAgain
<1>3. CASE \E c \in Consumers : pc[c] = "requeue" /\ NextRetry(c)
  BY <1>1, <1>3, NextRetryCases, BusyHasEntry
<1>4. CASE UNCHANGED stream
  BY <1>4
<1>5. QED
  BY <1>2, <1>3, <1>4 DEF vars, Next, Run, Expire, ReadGroup, AcquireIdempotency, AcquireError,
     Handle, RequeueOrDLQ, MoveToDLQ, PublishError, Ack, AckError, Crash, Restart

\* When nobody comes to the handler for e, those who are there are among those who were.
LEMMA HandlersStay ==
  ASSUME TypeOK, [Next]_vars, NEW g \in Keyed, NEW e \in Events,
         \A c \in Consumers : GroupOf[c] = g /\ pc'[c] = "handle" /\ pc[c] # "handle" =>
           msg'[c] = msg[c] /\ EventOf(c) # e /\ msg[c] \in Entries,
         \A c \in Consumers : pc[c] = "handle" /\ pc'[c] = "handle" => msg'[c] = msg[c]
  PROVE  AtHandle(g, e)' \subseteq AtHandle(g, e)
<1> SUFFICES ASSUME NEW c \in Consumers, GroupOf[c] = g, pc'[c] = "handle", EventOf(c)' = e
             PROVE  pc[c] = "handle" /\ EventOf(c) = e
  BY DEF AtHandle
<1>1. msg'[c] = msg[c] /\ msg[c] \in Entries
  BY BusyHasEntry
<1>2. EventOf(c)' = EventOf(c)
  BY <1>1, EntriesStay DEF EventOf
<1>3. QED
  BY <1>2

\* What leaves a bound on the runs as it is.
LEMMA FewerHandlers ==
  ASSUME TypeOK, TypeOK', NEW g \in Keyed, NEW e \in Events,
         IsFiniteSet(AtHandle(g, e)),
         runs[g][e] + Cardinality(AtHandle(g, e)) <= KeysTaken(g, e),
         AtHandle(g, e)' \subseteq AtHandle(g, e), runs'[g][e] = runs[g][e],
         KeysTaken(g, e)' >= KeysTaken(g, e)
  PROVE  /\ IsFiniteSet(AtHandle(g, e)')
         /\ runs'[g][e] + Cardinality(AtHandle(g, e)') <= KeysTaken(g, e)'
<1>1. /\ IsFiniteSet(AtHandle(g, e)')
      /\ Cardinality(AtHandle(g, e)') <= Cardinality(AtHandle(g, e))
  BY FS_Subset
<1>2. Cardinality(AtHandle(g, e)') \in Nat /\ Cardinality(AtHandle(g, e)) \in Nat
  BY <1>1, FS_CardinalityType
<1>3. /\ runs[g][e] \in Nat /\ KeysTaken(g, e) \in Nat /\ KeysTaken(g, e)' \in Nat
  <2>1. runs[g][e] \in Nat /\ expired[g][e] \in Nat /\ expired'[g][e] \in Nat
    BY DEF TypeOK
  <2>2. QED
    BY <2>1 DEF KeysTaken
<1>4. QED
  BY <1>1, <1>2, <1>3

\* Every step keeps the runs within the keys: SETNX gives a key to one consumer, which
\* spends it with its run of the handler.
LEMMA RunsStep ==
  ASSUME TypeOK, RunsHaveKeys, [Next]_vars
  PROVE  RunsHaveKeys'
<1> SUFFICES ASSUME NEW g \in Keyed, NEW e \in Events \ Opaque
             PROVE  /\ IsFiniteSet(AtHandle(g, e)')
                    /\ runs'[g][e] + Cardinality(AtHandle(g, e)') <= KeysTaken(g, e)'
  BY DEF RunsHaveKeys
<1>1. /\ IsFiniteSet(AtHandle(g, e)) /\ Cardinality(AtHandle(g, e)) \in Nat
      /\ runs[g][e] + Cardinality(AtHandle(g, e)) <= KeysTaken(g, e)
      /\ runs[g][e] \in Nat /\ expired[g][e] \in Nat /\ KeysTaken(g, e) \in Nat
  BY FS_CardinalityType DEF RunsHaveKeys, TypeOK, KeysTaken
<1>2. TypeOK'
  BY StepTypeOK
<1>3. ASSUME AtHandle(g, e)' \subseteq AtHandle(g, e), runs'[g][e] = runs[g][e],
             KeysTaken(g, e)' >= KeysTaken(g, e)
      PROVE  /\ IsFiniteSet(AtHandle(g, e)')
             /\ runs'[g][e] + Cardinality(AtHandle(g, e)') <= KeysTaken(g, e)'
  BY <1>1, <1>2, <1>3, FewerHandlers
<1>4. ASSUME keys \subseteq keys', UNCHANGED expired
      PROVE  KeysTaken(g, e)' >= KeysTaken(g, e)
  BY <1>1, <1>4 DEF KeysTaken
<1>5. ASSUME NEW f \in Events, Publish(f) \/ PublishAgain(f)
      PROVE  /\ IsFiniteSet(AtHandle(g, e)')
             /\ runs'[g][e] + Cardinality(AtHandle(g, e)') <= KeysTaken(g, e)'
  <2>1. UNCHANGED <<pc, msg, runs, keys, expired>>
    BY <1>5 DEF Publish, PublishAgain
  <2>2. QED
    BY <1>3, <1>4, <2>1, HandlersStay
<1>6. ASSUME NEW k \in keys, Expire(k)
      PROVE  /\ IsFiniteSet(AtHandle(g, e)')
             /\ runs'[g][e] + Cardinality(AtHandle(g, e)') <= KeysTaken(g, e)'
  <2>1. UNCHANGED <<pc, msg, runs>>
    BY <1>6 DEF Expire
  <2>2. k = EventKey(k.group, k.event) /\ k.group \in Keyed /\ k.event \in Events
    BY <1>6 DEF Expire, TypeOK, EventKey
  <2>3. KeysTaken(g, e)' >= KeysTaken(g, e)
    <3>1. CASE k = EventKey(g, e)
      <4>1. k.group = g /\ k.event = e
        BY <3>1 DEF EventKey
      <4>2. expired'[g][e] = expired[g][e] + 1
        BY <1>6, <4>1 DEF Expire, TypeOK
      <4>3. QED
        BY <1>1, <4>2 DEF KeysTaken
    <3>2. CASE k # EventKey(g, e)
      <4>1. expired'[g][e] = expired[g][e]
        BY <1>6, <2>2, <3>2 DEF Expire, TypeOK
      <4>2. EventKey(g, e) \in keys' <=> EventKey(g, e) \in keys
        BY <1>6, <3>2 DEF Expire
      <4>3. QED
        BY <1>1, <4>1, <4>2 DEF KeysTaken
    <3>3. QED
      BY <3>1, <3>2
  <2>4. QED
    BY <1>3, <2>1, <2>3, HandlersStay
<1>7. ASSUME NEW c \in Consumers, AcquireIdempotency(c)
      PROVE  /\ IsFiniteSet(AtHandle(g, e)')
             /\ runs'[g][e] + Cardinality(AtHandle(g, e)') <= KeysTaken(g, e)'
  <2>1. /\ pc[c] = "acquire" /\ UNCHANGED <<stream, msg, runs, expired>>
        /\ msg[c] \in Entries
    BY <1>7, BusyHasEntry DEF AcquireIdempotency
  <2>2. CASE KeyOf(c) \notin keys /\ TakeKey(c) /\ Goto(c, "handle")
    <3>1. CASE GroupOf[c] = g /\ EventOf(c) = e
      <4>1. KeyOf(c) = EventKey(g, e)
        BY <3>1 DEF KeyOf, EventKey
      <4>2. KeysTaken(g, e)' = KeysTaken(g, e) + 1
        BY <1>1, <2>1, <2>2, <4>1 DEF KeysTaken, TakeKey
      <4>3. AtHandle(g, e)' = AtHandle(g, e) \cup {c} /\ c \notin AtHandle(g, e)
        BY <2>1, <2>2, <3>1 DEF AtHandle, EventOf, Goto, TypeOK
      <4>4. /\ IsFiniteSet(AtHandle(g, e)')
            /\ Cardinality(AtHandle(g, e)') = Cardinality(AtHandle(g, e)) + 1
        BY <1>1, <4>3, FS_AddElement
      <4>5. QED
        BY <1>1, <2>1, <4>2, <4>4
    <3>2. CASE ~(GroupOf[c] = g /\ EventOf(c) = e)
      <4>1. keys \subseteq keys'
        BY <2>2 DEF TakeKey
      <4>2. AtHandle(g, e)' \subseteq AtHandle(g, e)
        BY <2>1, <2>2, <3>2 DEF AtHandle, EventOf, Goto, TypeOK
      <4>3. QED
        BY <1>3, <1>4, <2>1, <4>1, <4>2
    <3>3. QED
      BY <3>1, <3>2
  <2>3. CASE Goto(c, "ack") /\ UNCHANGED keys
    <3>1. AtHandle(g, e)' \subseteq AtHandle(g, e)
      BY <2>1, <2>3 DEF AtHandle, EventOf, Goto, TypeOK
    <3>2. QED
      BY <1>3, <1>4, <2>1, <2>3, <3>1
  <2>4. QED
    BY <1>7, <2>2, <2>3 DEF AcquireIdempotency
<1>8. ASSUME NEW c \in Consumers, Handle(c)
      PROVE  /\ IsFiniteSet(AtHandle(g, e)')
             /\ runs'[g][e] + Cardinality(AtHandle(g, e)') <= KeysTaken(g, e)'
  <2>1. /\ pc[c] = "handle" /\ UNCHANGED <<stream, msg, keys, expired>>
        /\ \E label \in {"ack", "requeue", "bury"} : Goto(c, label)
        /\ runs' = IF GroupOf[c] \in Keyed THEN [runs EXCEPT ![GroupOf[c]][EventOf(c)] = @ + 1]
                                           ELSE runs
    BY <1>8 DEF Handle
  <2>2. KeysTaken(g, e)' = KeysTaken(g, e)
    BY <2>1 DEF KeysTaken
  <2>3. AtHandle(g, e)' = AtHandle(g, e) \ {c}
    BY <2>1 DEF AtHandle, EventOf, Goto, TypeOK
  <2>4. CASE GroupOf[c] = g /\ EventOf(c) = e
    <3>1. c \in AtHandle(g, e)
      BY <2>1, <2>4 DEF AtHandle
    <3>2. runs'[g][e] = runs[g][e] + 1
      BY <2>1, <2>4 DEF TypeOK
    <3>3. /\ IsFiniteSet(AtHandle(g, e)')
          /\ Cardinality(AtHandle(g, e)') = Cardinality(AtHandle(g, e)) - 1
      BY <1>1, <2>3, <3>1, FS_RemoveElement
    <3>4. QED
      BY <1>1, <2>2, <3>2, <3>3
  <2>5. CASE ~(GroupOf[c] = g /\ EventOf(c) = e)
    <3>1. runs'[g][e] = runs[g][e]
      BY <2>1, <2>5 DEF TypeOK
    <3>2. QED
      BY <1>1, <1>3, <2>2, <2>3, <3>1
  <2>6. QED
    BY <2>4, <2>5
<1>9. CASE \/ UNCHANGED vars
           \/ \E c \in Consumers :
                \/ ReadGroup(c) \/ RequeueOrDLQ(c) \/ MoveToDLQ(c) \/ Ack(c)
                \/ AcquireError(c) \/ PublishError(c) \/ AckError(c) \/ Crash(c) \/ Restart(c)
  <2>1. UNCHANGED <<runs, expired>> /\ keys \subseteq keys'
    BY <1>9 DEF vars, ReadGroup, RequeueOrDLQ, MoveToDLQ, Ack, AcquireError, PublishError,
                AckError, Crash, Restart, TakeKey
  <2>2. \A d \in Consumers : GroupOf[d] = g /\ pc'[d] = "handle" =>
          pc[d] = "handle" /\ msg'[d] = msg[d]
    BY <1>9 DEF vars, ReadGroup, RequeueOrDLQ, MoveToDLQ, Ack, AcquireError, PublishError,
                AckError, Crash, Restart, Return, Goto, TypeOK
  <2>3. \A d \in Consumers : pc[d] = "handle" /\ pc'[d] = "handle" => msg'[d] = msg[d]
    BY <1>9 DEF vars, ReadGroup, RequeueOrDLQ, MoveToDLQ, Ack, AcquireError, PublishError,
                AckError, Crash, Restart, Return, Goto, TypeOK
  <2>4. QED
    BY <1>3, <1>4, <2>1, <2>2, <2>3, HandlersStay
<1>10. QED
  BY <1>5, <1>6, <1>7, <1>8, <1>9 DEF Next, Run

\* A keyed group runs its handler once for an event and once more for every key that
\* expired, whatever is published again, requeued, lost or crashes.
THEOREM KeyedRunsOnce == Spec => []KeyedOnce
<1>1. Init => RunsHaveKeys
  <2> SUFFICES ASSUME Init PROVE RunsHaveKeys
    OBVIOUS
  <2>1. \A g \in Keyed, e \in Events : AtHandle(g, e) = {}
    BY DEF Init, AtHandle
  <2>2. \A g \in Keyed, e \in Events : runs[g][e] = 0 /\ KeysTaken(g, e) = 0
    BY DEF Init, KeysTaken
  <2>3. QED
    BY <2>1, <2>2, FS_EmptySet DEF RunsHaveKeys
<1>2. TypeOK /\ RunsHaveKeys /\ [Next]_vars => RunsHaveKeys'
  BY RunsStep
<1>3. TypeOK /\ RunsHaveKeys => KeyedOnce
  <2> SUFFICES ASSUME TypeOK, RunsHaveKeys, NEW g \in Keyed, NEW e \in Events \ Opaque
               PROVE  runs[g][e] <= 1 + expired[g][e]
    BY DEF KeyedOnce
  <2>1. runs[g][e] \in Nat /\ expired[g][e] \in Nat /\ Cardinality(AtHandle(g, e)) \in Nat
    BY FS_CardinalityType DEF TypeOK, RunsHaveKeys
  <2>2. runs[g][e] + Cardinality(AtHandle(g, e)) <= KeysTaken(g, e)
    BY DEF RunsHaveKeys
  <2>3. QED
    BY <2>1, <2>2 DEF KeysTaken
<1>4. QED
  BY <1>1, <1>2, <1>3, TypeCorrect, PTL DEF Spec
=============================================================================
