-------------------------- MODULE AlertWorkerProofs --------------------------
(***************************************************************************)
(* What holds of AlertWorker for every number of groups, consumers and     *)
(* entries and every size of a batch: an entry that was given to a group   *)
(* is handled or pending, and no entry is handled twice.                   *)
(*                                                                         *)
(* The argument.  Redis gives the entries behind last-delivered-id to one  *)
(* consumer and moves it on, so a batch holds entries of which nobody of   *)
(* the group has had any (Batches), and those of a batch that are not done *)
(* have not been handled (Unfinished).  A consumer acknowledges the entry  *)
(* that it has just handled, and no other, so what leaves the pending list *)
(* is handled.  With that every step of a consumer is one of Delivery, or  *)
(* stutters there: what is first in a batch is pending before it has been  *)
(* handled, and handled before it is acknowledged.                         *)
(***************************************************************************)
EXTENDS AlertWorker, FiniteSetTheorems, TLAPS

\* A consumer has a batch while it works on it, of distinct entries that its group was
\* given, none of which another consumer has.
Batches ==
  \A c \in Consumers :
    /\ pc[c] \notin {"handle", "ack"} => inbox[c] = <<>>
    /\ \A i \in DOMAIN inbox[c] :
         /\ inbox[c][i] \in 1 .. last[GroupOf[c]]
         /\ \A j \in DOMAIN inbox[c] : inbox[c][i] = inbox[c][j] => i = j
    /\ \A d \in Consumers : c # d /\ GroupOf[c] = GroupOf[d] =>
         \A i \in DOMAIN inbox[c], j \in DOMAIN inbox[d] : inbox[c][i] # inbox[d][j]

\* Of a batch, only the entry that is about to be acknowledged has been handled.
Unfinished ==
  \A c \in Consumers : \A i \in DOMAIN inbox[c] :
    inbox[c][i] \in Range(handled[GroupOf[c]]) <=> pc[c] = "ack" /\ i = 1

\* A group handles what it was given, each entry once.
Handlings ==
  \A g \in Groups :
    /\ Range(handled[g]) \subseteq 1 .. last[g]
    /\ Cardinality(Range(handled[g])) = Len(handled[g])

\* What UnhandledStaysPending says.
Undropped == \A g \in Groups : (1 .. last[g]) \ Range(handled[g]) \subseteq pending[g]

IInv ==
  /\ TypeOK
  /\ Batches
  /\ Unfinished
  /\ Handlings
  /\ Undropped

-----------------------------------------------------------------------------
\* The rest of a batch is the batch from its second entry on.
LEMMA TailFacts ==
  ASSUME NEW S, NEW s \in Seq(S), s # <<>>
  PROVE  /\ Tail(s) \in Seq(S) /\ Head(s) = s[1] /\ Head(s) \in S /\ 1 \in DOMAIN s
         /\ \A i \in DOMAIN Tail(s) :
              i \in Nat \ {0} /\ i + 1 \in DOMAIN s /\ Tail(s)[i] = s[i + 1]
<1>1. /\ Len(s) \in Nat \ {0} /\ DOMAIN s = 1 .. Len(s)
      /\ Tail(s) \in Seq(S) /\ Len(Tail(s)) = Len(s) - 1 /\ DOMAIN Tail(s) = 1 .. Len(Tail(s))
      /\ \A i \in 1 .. Len(s) - 1 : Tail(s)[i] = s[i + 1]
  OBVIOUS
<1>2. QED
  BY <1>1

\* One more entry is handled.
LEMMA AppendFacts ==
  ASSUME NEW S, NEW s \in Seq(S), NEW e \in S
  PROVE  /\ Append(s, e) \in Seq(S) /\ Len(Append(s, e)) = Len(s) + 1
         /\ Range(Append(s, e)) = Range(s) \cup {e}
<1>1. /\ Append(s, e) \in Seq(S) /\ Len(Append(s, e)) = Len(s) + 1
      /\ Append(s, e)[Len(s) + 1] = e
      /\ \A i \in 1 .. Len(s) : Append(s, e)[i] = s[i]
      /\ Len(s) \in Nat /\ DOMAIN s = 1 .. Len(s)
  OBVIOUS
<1>2. DOMAIN Append(s, e) = 1 .. Len(s) + 1
  BY <1>1
<1>3. QED
  BY <1>1, <1>2 DEF Range

\* Nothing is in the stream and nobody is at work.
LEMMA InitIInv == Init => IInv
<1> SUFFICES ASSUME Init PROVE IInv
  OBVIOUS
<1> USE WorkerAssumption DEF Init
<1>1. TypeOK
  BY DEF TypeOK, Entries
<1>2. \A g \in Groups : Range(handled[g]) = {} /\ handled[g] = <<>>
  BY DEF Range
<1>3. Batches /\ Unfinished /\ Undropped
  BY DEF Batches, Unfinished, Undropped
<1>4. Handlings
  BY <1>2, FS_EmptySet DEF Handlings
<1>5. QED
  BY <1>1, <1>3, <1>4 DEF IInv

\* The stream grows at its end.
LEMMA XAddIInv ==
  ASSUME IInv, XAdd
  PROVE  IInv'
<1>1. TypeOK'
  <2>1. length' \in 0 .. MaxEntries /\ Entries \subseteq Entries'
    BY WorkerAssumption DEF IInv, TypeOK, XAdd, Entries
  <2>2. UNCHANGED <<last, pending, pc, inbox, handled, errors>>
    BY DEF XAdd
  <2>3. pending \in [Groups -> SUBSET Entries']
    BY <2>1 DEF IInv, TypeOK
  <2>4. inbox \in [Consumers -> Seq(Entries')]
    <3>1. \A s \in Seq(Entries) : s \in Seq(Entries')
      BY <2>1
    <3>2. QED
      BY <3>1 DEF IInv, TypeOK
  <2>5. handled \in [Groups -> Seq(Entries')]
    <3>1. \A s \in Seq(Entries) : s \in Seq(Entries')
      BY <2>1
    <3>2. QED
      BY <3>1 DEF IInv, TypeOK
  <2>6. \A g \in Groups : last[g] <= length'
    BY WorkerAssumption DEF IInv, TypeOK, XAdd
  <2>7. QED
    BY <2>1, <2>2, <2>3, <2>4, <2>5, <2>6 DEF IInv, TypeOK
<1>2. QED
  BY <1>1 DEF IInv, Batches, Unfinished, Handlings, Undropped, XAdd

\* A consumer that has or gets no batch stops, starts or is about to read.
LEMMA IdleIInv ==
  ASSUME IInv, NEW c \in Consumers, NEW label \in {"start", "read"} \cup Stopped,
         Goto(c, label), inbox' = [inbox EXCEPT ![c] = <<>>], errors' \in 0 .. MaxErrors,
         UNCHANGED <<length, last, pending, handled>>
  PROVE  IInv'
<1> USE DEF IInv, Goto, Stopped
<1>1. TypeOK'
  BY DEF TypeOK, Entries
<1>2. Batches' /\ Unfinished'
  BY WorkerAssumption DEF TypeOK, Batches, Unfinished
<1>3. Handlings' /\ Undropped'
  BY DEF Handlings, Undropped
<1>4. QED
  BY <1>1, <1>2, <1>3

\* Redis gives the next entries to a group: they are pending now, and not handled.
LEMMA DeliverFacts ==
  ASSUME IInv, NEW g \in Groups, Deliver(g), last[g] < length,
         UNCHANGED <<length, handled>>
  PROVE  /\ last[g] \in Nat /\ last'[g] \in last[g] + 1 .. length
         /\ \A h \in Groups : h # g => last'[h] = last[h]
         /\ last' \in [Groups -> 0 .. MaxEntries] /\ pending' \in [Groups -> SUBSET Entries]
         /\ \A h \in Groups : last'[h] <= length /\ last[h] <= last'[h]
         /\ Handlings' /\ Undropped'
<1> USE DEF IInv
<1>1. /\ last[g] \in Nat /\ length \in 0 .. MaxEntries /\ Batch \in Nat \ {0}
      /\ MaxEntries \in Nat
  BY WorkerAssumption DEF TypeOK
<1>2. SmallerOf(last[g] + Batch, length) \in last[g] + 1 .. length
  BY <1>1 DEF SmallerOf
<1>3. /\ last'[g] = SmallerOf(last[g] + Batch, length)
      /\ \A h \in Groups : h # g => last'[h] = last[h]
      /\ last' \in [Groups -> 0 .. MaxEntries]
  BY <1>1, <1>2 DEF Deliver, TypeOK
<1>4. \A h \in Groups : /\ last'[h] <= length /\ last[h] <= last'[h]
                        /\ last[h] \in Nat /\ last'[h] \in Nat
  <2> TAKE h \in Groups
  <2>1. last[h] \in Nat /\ last[h] <= length
    BY <1>1 DEF TypeOK
  <2>2. CASE h = g
    BY <1>1, <1>2, <1>3, <2>1, <2>2
  <2>3. CASE h # g
    BY <1>3, <2>1, <2>3
  <2>4. QED
    BY <2>2, <2>3
<1>5. /\ pending' \in [Groups -> SUBSET Entries]
      /\ \A h \in Groups : pending[h] \subseteq pending'[h]
      /\ last[g] + 1 .. last'[g] \subseteq pending'[g]
  BY <1>1, <1>2, <1>3 DEF Deliver, TypeOK, Entries
<1>6. Handlings'
  BY <1>4 DEF Handlings
<1>7. Undropped'
  <2> SUFFICES ASSUME NEW h \in Groups, NEW n \in 1 .. last'[h], n \notin Range(handled[h])
               PROVE  n \in pending'[h]
    BY DEF Undropped
  <2>1. CASE n <= last[h]
    BY <1>4, <1>5, <2>1 DEF Undropped
  <2>2. CASE n > last[h]
    <3>1. h = g
      BY <1>3, <1>4, <2>2
    <3>2. n \in last[g] + 1 .. last'[g]
      BY <1>4, <2>2, <3>1
    <3>3. QED
      BY <1>5, <3>1, <3>2
  <2>3. QED
    BY <1>4, <2>1, <2>2
<1>8. QED
  BY <1>1, <1>2, <1>3, <1>4, <1>5, <1>6, <1>7

\* A new batch is of entries that nobody in the group has had.
LEMMA ReadGroupIInv ==
  ASSUME IInv, NEW c \in Consumers, ReadGroup(c)
  PROVE  IInv'
<1> DEFINE g == GroupOf[c]
           size == last'[g] - last[g]
           batch == [i \in 1 .. size |-> last[g] + i]
<1> USE DEF IInv
<1>1. /\ g \in Groups /\ pc[c] = "read" /\ inbox[c] = <<>> /\ Deliver(g) /\ last[g] < length
      /\ inbox' = [inbox EXCEPT ![c] = batch] /\ pc' = [pc EXCEPT ![c] = "handle"]
      /\ UNCHANGED <<length, handled, errors>>
  BY WorkerAssumption DEF ReadGroup, Goto, Batches
<1>2. /\ last[g] \in Nat /\ last'[g] \in last[g] + 1 .. length
      /\ \A h \in Groups : h # g => last'[h] = last[h]
      /\ last' \in [Groups -> 0 .. MaxEntries] /\ pending' \in [Groups -> SUBSET Entries]
      /\ \A h \in Groups : last'[h] <= length /\ last[h] <= last'[h]
      /\ Handlings' /\ Undropped'
  BY <1>1, DeliverFacts
<1>3. length \in Nat /\ Entries = 1 .. length /\ Entries' = Entries
  BY <1>1, WorkerAssumption DEF TypeOK, Entries
<1>4. /\ size \in Nat \ {0} /\ batch \in Seq(Entries) /\ batch # <<>> /\ DOMAIN batch = 1 .. size
      /\ \A i \in 1 .. size : batch[i] = last[g] + i /\ batch[i] \in last[g] + 1 .. last'[g]
  <2>1. size \in Nat \ {0} /\ DOMAIN batch = 1 .. size
    BY <1>2, <1>3
  <2>2. \A i \in 1 .. size : batch[i] = last[g] + i /\ batch[i] \in last[g] + 1 .. last'[g]
    BY <1>2, <1>3, <2>1
  <2>3. batch \in [1 .. size -> Entries]
    BY <1>2, <1>3, <2>2
  <2>4. batch \in Seq(Entries) /\ batch # <<>>
    BY <2>1, <2>3
  <2>5. QED
    BY <2>1, <2>2, <2>4
<1> HIDE DEF batch, size, g
<1>5. /\ inbox'[c] = batch /\ pc'[c] = "handle"
      /\ \A d \in Consumers : d # c => inbox'[d] = inbox[d] /\ pc'[d] = pc[d]
  BY <1>1 DEF TypeOK
<1>6. TypeOK'
  BY <1>1, <1>2, <1>3, <1>4 DEF TypeOK
<1>7. \A d \in Consumers : \A i \in DOMAIN inbox[d] :
        inbox[d][i] \in 1 .. last'[GroupOf[d]] /\ (GroupOf[d] = g => inbox[d][i] <= last[g])
  BY <1>2, WorkerAssumption DEF Batches, TypeOK
<1>8. g = GroupOf[c] /\ \A i \in DOMAIN batch :
        /\ batch[i] \in 1 .. last'[g] /\ batch[i] > last[g]
        /\ \A j \in DOMAIN batch : batch[i] = batch[j] => i = j
  BY <1>2, <1>4 DEF g
<1>9. Batches'
  <2>1. ASSUME NEW d \in Consumers
        PROVE  /\ pc'[d] \notin {"handle", "ack"} => inbox'[d] = <<>>
               /\ \A i \in DOMAIN inbox'[d] :
                    /\ inbox'[d][i] \in 1 .. last'[GroupOf[d]]
                    /\ \A j \in DOMAIN inbox'[d] : inbox'[d][i] = inbox'[d][j] => i = j
    BY <1>5, <1>7, <1>8 DEF Batches
  <2>2. ASSUME NEW d \in Consumers, NEW b \in Consumers, d # b, GroupOf[d] = GroupOf[b],
               NEW i \in DOMAIN inbox'[d], NEW j \in DOMAIN inbox'[b]
        PROVE  inbox'[d][i] # inbox'[b][j]
    <3>1. CASE d # c /\ b # c
      BY <1>5, <2>2, <3>1 DEF Batches
    <3>2. CASE d = c
      BY <1>2, <1>5, <1>7, <1>8, <2>2, <3>2
    <3>3. CASE b = c
      BY <1>2, <1>5, <1>7, <1>8, <2>2, <3>3
    <3>4. QED
      BY <3>1, <3>2, <3>3
  <2>3. QED
    BY <2>1, <2>2 DEF Batches
<1>10. Unfinished'
  <2>1. \A i \in DOMAIN batch : batch[i] \notin Range(handled[g])
    BY <1>1, <1>2, <1>8 DEF Handlings
  <2>2. QED
    BY <1>1, <1>5, <1>8, <2>1, WorkerAssumption DEF Unfinished
<1>11. QED
  BY <1>2, <1>6, <1>9, <1>10

\* Run returns with an error, whatever Redis has delivered.
LEMMA RunReturnsIInv ==
  ASSUME IInv, NEW c \in Consumers, RunReturns(c)
  PROVE  IInv'
<1> DEFINE g == GroupOf[c]
<1>1. /\ g \in Groups /\ pc[c] \in {"start", "read"} /\ inbox[c] = <<>>
      /\ Goto(c, "returned") /\ UNCHANGED <<length, inbox, handled>>
      /\ inbox' = [inbox EXCEPT ![c] = <<>>] /\ errors' \in 0 .. MaxErrors
  <2>1. g \in Groups /\ pc[c] \in {"start", "read"} /\ inbox[c] = <<>>
    BY WorkerAssumption DEF RunReturns, IInv, Batches
  <2>2. Goto(c, "returned") /\ UNCHANGED <<length, inbox, handled>>
    BY DEF RunReturns
  <2>3. inbox' = [inbox EXCEPT ![c] = <<>>]
    BY <2>1, <2>2 DEF IInv, TypeOK
  <2>4. errors' \in 0 .. MaxErrors
    BY WorkerAssumption DEF RunReturns, Error, IInv, TypeOK
  <2>5. QED
    BY <2>1, <2>2, <2>3, <2>4
<1>2. CASE UNCHANGED <<last, pending>>
  BY <1>1, <1>2, IdleIInv DEF Stopped
<1>3. CASE last[g] < length /\ Deliver(g)
  <2>1. /\ last' \in [Groups -> 0 .. MaxEntries] /\ pending' \in [Groups -> SUBSET Entries]
        /\ \A h \in Groups : last'[h] <= length /\ last[h] <= last'[h]
        /\ Handlings' /\ Undropped'
    BY <1>1, <1>3, DeliverFacts
  <2>2. TypeOK'
    BY <1>1, <2>1 DEF IInv, TypeOK, Entries, Goto, Stopped
  <2>3. Batches'
    <3>1. \A h \in Groups : 1 .. last[h] \subseteq 1 .. last'[h]
      BY <2>1 DEF IInv, TypeOK
    <3>2. \A d \in Consumers : pc'[d] \notin {"handle", "ack"} => inbox[d] = <<>>
      BY <1>1 DEF IInv, TypeOK, Batches, Goto
    <3>3. QED
      BY <1>1, <3>1, <3>2, WorkerAssumption DEF IInv, Batches
  <2>4. Unfinished'
    BY <1>1, WorkerAssumption DEF IInv, TypeOK, Unfinished, Goto
  <2>5. QED
    BY <2>1, <2>2, <2>3, <2>4 DEF IInv
<1>4. QED
  BY <1>2, <1>3 DEF RunReturns

\* The first entry of the batch is handled; it was not, and no other consumer has it.
LEMMA HandleMessageIInv ==
  ASSUME IInv, NEW c \in Consumers, HandleMessage(c)
  PROVE  IInv'
<1> DEFINE g == GroupOf[c]
           e == Head(inbox[c])
<1> USE DEF IInv
<1>1. /\ g \in Groups /\ pc[c] = "handle" /\ pc' = [pc EXCEPT ![c] = "ack"]
      /\ handled' = [handled EXCEPT ![g] = Append(@, e)]
      /\ UNCHANGED <<length, last, pending, inbox, errors>>
  BY WorkerAssumption DEF HandleMessage, Goto
<1>2. /\ inbox[c] \in Seq(Entries) /\ inbox[c] # <<>> /\ handled[g] \in Seq(Entries)
      /\ Entries' = Entries
  BY <1>1 DEF TypeOK, Entries
<1>3. e = inbox[c][1] /\ e \in Entries /\ 1 \in DOMAIN inbox[c]
  BY <1>2, TailFacts
<1>4. e \in 1 .. last[g] /\ e \notin Range(handled[g])
  BY <1>1, <1>3 DEF Batches, Unfinished
<1> HIDE DEF e
<1>5. /\ Append(handled[g], e) \in Seq(Entries) /\ Len(Append(handled[g], e)) = Len(handled[g]) + 1
      /\ Range(handled'[g]) = Range(handled[g]) \cup {e}
  BY <1>1, <1>2, <1>3, AppendFacts DEF TypeOK
<1>6. \A h \in Groups : h # g => Range(handled'[h]) = Range(handled[h]) /\ handled'[h] = handled[h]
  BY <1>1 DEF TypeOK
<1>7. TypeOK'
  <2>1. handled' \in [Groups -> Seq(Entries)]
    BY <1>1, <1>5 DEF TypeOK
  <2>2. QED
    BY <1>1, <1>2, <2>1 DEF TypeOK
<1>8. Batches'
  BY <1>1 DEF Batches, TypeOK
<1>9. Unfinished'
  <2> SUFFICES ASSUME NEW d \in Consumers, NEW i \in DOMAIN inbox[d]
               PROVE  inbox[d][i] \in Range(handled'[GroupOf[d]]) <=> pc'[d] = "ack" /\ i = 1
    BY <1>1 DEF Unfinished
  <2>1. CASE d = c
    <3>1. inbox[c][i] = e <=> i = 1
      BY <1>3, <2>1 DEF Batches
    <3>2. inbox[c][i] \notin Range(handled[g])
      BY <1>1, <2>1 DEF Unfinished
    <3>3. QED
      BY <1>1, <1>5, <2>1, <3>1, <3>2 DEF TypeOK
  <2>2. CASE d # c /\ GroupOf[d] = g
    <3>1. inbox[d][i] # e
      BY <1>3, <2>2 DEF Batches
    <3>2. QED
      BY <1>1, <1>5, <2>2, <3>1 DEF Unfinished, TypeOK
  <2>3. CASE GroupOf[d] # g
    BY <1>1, <1>6, <2>3, WorkerAssumption DEF Unfinished, TypeOK
  <2>4. QED
    BY <2>1, <2>2, <2>3
<1>10. Handlings'
  <2>1. IsFiniteSet(Range(handled[g]))
    <3>1. IsFiniteSet(1 .. last[g])
      <4>1. last[g] \in Int
        BY <1>1, WorkerAssumption DEF TypeOK
      <4>2. QED
        BY <4>1, FS_Interval
    <3>2. QED
      BY <1>1, <3>1, FS_Subset DEF Handlings
  <2>2. Cardinality(Range(handled'[g])) = Cardinality(Range(handled[g])) + 1
    BY <1>4, <1>5, <2>1, FS_AddElement
  <2>3. handled'[g] = Append(handled[g], e)
    BY <1>1 DEF TypeOK
  <2>4. QED
    BY <1>1, <1>4, <1>5, <1>6, <2>2, <2>3 DEF Handlings
<1>11. Undropped'
  BY <1>1, <1>5, <1>6 DEF Undropped
<1>12. QED
  BY <1>7, <1>8, <1>9, <1>10, <1>11

\* A consumer is done with an entry; it leaves the pending list only when handled.
LEMMA FinishIInv ==
  ASSUME IInv, NEW c \in Consumers, pc[c] \in {"handle", "ack"}, Finish(c),
         \/ pending' = pending
         \/ /\ pc[c] = "ack"
            /\ pending' = [pending EXCEPT ![GroupOf[c]] = @ \ {Head(inbox[c])}],
         errors' \in 0 .. MaxErrors, UNCHANGED <<length, last, handled>>
  PROVE  IInv'
<1> DEFINE rest == Tail(inbox[c])
<1> USE DEF IInv
<1>1. /\ inbox[c] \in Seq(Entries) /\ inbox[c] # <<>> /\ Entries' = Entries
      /\ GroupOf[c] \in Groups
  BY WorkerAssumption DEF TypeOK, Entries
<1>2. /\ rest \in Seq(Entries) /\ Head(inbox[c]) = inbox[c][1]
      /\ 1 \in DOMAIN inbox[c]
      /\ \A i \in DOMAIN rest :
           /\ i \in Nat \ {0} /\ i + 1 \in DOMAIN inbox[c]
           /\ rest[i] = inbox[c][i + 1]
  BY <1>1, TailFacts
<1>3. /\ inbox' = [inbox EXCEPT ![c] = rest]
      /\ pc' = [pc EXCEPT ![c] = IF rest = <<>> THEN "read" ELSE "handle"]
  BY DEF Finish, Goto, TypeOK
<1> HIDE DEF rest
<1>4. /\ inbox'[c] = rest
      /\ \A d \in Consumers : d # c => inbox'[d] = inbox[d] /\ pc'[d] = pc[d]
      /\ pc'[c] = IF rest = <<>> THEN "read" ELSE "handle"
      /\ pc' \in [Consumers -> {"start", "read", "handle", "ack"} \cup Stopped]
  <2>1. inbox'[c] = rest /\ \A d \in Consumers : d # c => inbox'[d] = inbox[d]
    BY <1>3 DEF TypeOK
  <2>2. \A d \in Consumers : d # c => pc'[d] = pc[d]
    BY <1>3 DEF TypeOK
  <2>3. pc'[c] = IF rest = <<>> THEN "read" ELSE "handle"
    BY <1>3 DEF TypeOK
  <2>4. pc' \in [Consumers -> {"start", "read", "handle", "ack"} \cup Stopped]
    BY <1>3 DEF TypeOK
  <2>5. QED
    BY <2>1, <2>2, <2>3, <2>4
<1>5. pending' \in [Groups -> SUBSET Entries]
  BY DEF TypeOK
<1>6. TypeOK'
  <2>1. inbox' \in [Consumers -> Seq(Entries)]
    BY <1>2, <1>3 DEF TypeOK
  <2>2. \A d \in Consumers : pc'[d] \in {"handle", "ack"} => inbox'[d] # <<>>
    BY <1>4 DEF TypeOK
  <2>3. QED
    BY <1>1, <1>4, <1>5, <2>1, <2>2 DEF TypeOK
<1>7. \A d \in Consumers : \A i \in DOMAIN inbox'[d] :
        \E k \in DOMAIN inbox[d] :
          /\ inbox'[d][i] = inbox[d][k]
          /\ k = IF d = c THEN i + 1 ELSE i
          /\ d = c => i \in Nat \ {0}
  BY <1>2, <1>4
<1>8. Batches'
  <2>1. ASSUME NEW d \in Consumers
        PROVE  /\ pc'[d] \notin {"handle", "ack"} => inbox'[d] = <<>>
               /\ \A i \in DOMAIN inbox'[d] : inbox'[d][i] \in 1 .. last[GroupOf[d]]
    BY <1>4, <1>7 DEF Batches
  <2>2. ASSUME NEW d \in Consumers, NEW i \in DOMAIN inbox'[d], NEW j \in DOMAIN inbox'[d],
               inbox'[d][i] = inbox'[d][j]
        PROVE  i = j
    <3>1. CASE d = c
      BY <1>2, <1>4, <2>2, <3>1 DEF Batches
    <3>2. CASE d # c
      BY <1>4, <2>2, <3>2 DEF Batches
    <3>3. QED
      BY <3>1, <3>2
  <2>3. ASSUME NEW d \in Consumers, NEW b \in Consumers, d # b, GroupOf[d] = GroupOf[b],
               NEW i \in DOMAIN inbox'[d], NEW j \in DOMAIN inbox'[b]
        PROVE  inbox'[d][i] # inbox'[b][j]
    BY <1>7, <2>3 DEF Batches
  <2>4. QED
    BY <2>1, <2>2, <2>3 DEF Batches
<1>9. Unfinished'
  <2> SUFFICES ASSUME NEW d \in Consumers, NEW i \in DOMAIN inbox'[d]
               PROVE  inbox'[d][i] \in Range(handled[GroupOf[d]]) <=> pc'[d] = "ack" /\ i = 1
    BY WorkerAssumption DEF Unfinished
  <2>1. CASE d = c
    <3>1. i + 1 \in DOMAIN inbox[c] /\ i + 1 # 1 /\ inbox'[c][i] = inbox[c][i + 1]
      BY <1>2, <1>4, <2>1
    <3>2. QED
      BY <1>4, <2>1, <3>1 DEF Unfinished
  <2>2. CASE d # c
    BY <1>4, <2>2 DEF Unfinished
  <2>3. QED
    BY <2>1, <2>2
<1>10. Undropped'
  <2>1. pc[c] = "ack" => Head(inbox[c]) \in Range(handled[GroupOf[c]])
    BY <1>2 DEF Unfinished
  <2>2. QED
    BY <2>1 DEF Undropped, TypeOK
<1>11. Handlings'
  BY DEF Handlings
<1>12. QED
  BY <1>6, <1>8, <1>9, <1>10, <1>11

\* Nothing changes in a stuttering step.
LEMMA StutterIInv ==
  ASSUME IInv, UNCHANGED vars
  PROVE  IInv'
BY DEF vars, IInv, TypeOK, Entries, Batches, Unfinished, Handlings, Undropped

\* Every step of the system keeps the invariant.
LEMMA NextIInv == IInv /\ [Next]_vars => IInv'
<1> SUFFICES ASSUME IInv, [Next]_vars PROVE IInv'
  OBVIOUS
<1>1. CASE XAdd
  BY <1>1, XAddIInv
<1>2. ASSUME NEW c \in Consumers, EnsureGroup(c) \/ Restart(c) \/ Crash(c)
      PROVE  IInv'
  <2>1. /\ inbox' = [inbox EXCEPT ![c] = <<>>] /\ errors' \in 0 .. MaxErrors
        /\ UNCHANGED <<length, last, pending, handled>>
    BY <1>2, WorkerAssumption DEF EnsureGroup, Restart, Crash, Error, IInv, TypeOK, Batches
  <2>2. \E label \in {"start", "read"} \cup Stopped : Goto(c, label)
    BY <1>2 DEF EnsureGroup, Restart, Crash, Stopped
  <2>3. QED
    BY <2>1, <2>2, IdleIInv
<1>3. ASSUME NEW c \in Consumers, ReadGroup(c) \/ RunReturns(c) \/ HandleMessage(c)
      PROVE  IInv'
  BY <1>3, ReadGroupIInv, RunReturnsIInv, HandleMessageIInv
<1>4. ASSUME NEW c \in Consumers, SkipMessage(c) \/ Ack(c) \/ AckError(c)
      PROVE  IInv'
  <2>1. errors' \in 0 .. MaxErrors
    BY <1>4, WorkerAssumption DEF SkipMessage, Ack, AckError, Error, IInv, TypeOK
  <2>2. QED
    BY <1>4, <2>1, FinishIInv DEF SkipMessage, Ack, AckError
<1>5. CASE UNCHANGED vars
  BY <1>5, StutterIInv
<1>6. QED
  BY <1>1, <1>2, <1>3, <1>4, <1>5 DEF Next, Run

-----------------------------------------------------------------------------
\* The strengthened invariant holds of every reachable state.
THEOREM WorkerInvariant == Spec => []IInv
BY InitIInv, NextIInv, PTL DEF Spec

\* The pending lists and the batches are of entries of the stream, and a consumer that
\* handles or acknowledges has an entry.
THEOREM WorkerTypeCorrect == Spec => []TypeOK
<1>1. IInv => TypeOK
  BY DEF IInv
<1>2. QED
  BY <1>1, WorkerInvariant, PTL

\* A group handles no entry twice, and no two of its consumers have the same one.
THEOREM NothingHandledTwice == Spec => []HandledOnce
<1>1. IInv => HandledOnce
  BY DEF IInv, Batches, Handlings, HandledOnce, HandledBy, Range
<1>2. QED
  BY <1>1, WorkerInvariant, PTL

\* What Redis delivers, to a consumer or into a connection that broke, is given.
LEMMA DeliverGives ==
  ASSUME IInv, NEW g \in Groups, Deliver(g), last[g] < length, UNCHANGED <<length, handled>>
  PROVE  Promise!Next
<1>1. last'[g] \in last[g] + 1 .. length /\ last[g] \in Nat /\ length \in Nat
  BY DeliverFacts, WorkerAssumption DEF IInv, TypeOK
<1>2. last' = [last EXCEPT ![g] = last'[g]]
  BY DEF Deliver, IInv, TypeOK
<1>3. pending' = [pending EXCEPT ![g] = @ \cup (last[g] + 1 .. last'[g])]
  BY DEF Deliver
<1>4. Promise!Give(g, last'[g])
  BY <1>1, <1>2, <1>3 DEF Promise!Give
<1>5. last'[g] \in 1 .. length
  BY <1>1
<1>6. QED
  BY <1>4, <1>5 DEF Promise!Next

\* The entry that a consumer is about to handle or to acknowledge.
LEMMA FirstOfBatch ==
  ASSUME IInv, NEW c \in Consumers, pc[c] \in {"handle", "ack"}
  PROVE  /\ GroupOf[c] \in Groups /\ Head(inbox[c]) \in 1 .. length
         /\ pc[c] = "handle" => /\ Head(inbox[c]) \in pending[GroupOf[c]]
                               /\ ~Promise!Done(GroupOf[c], Head(inbox[c]))
         /\ pc[c] = "ack" => Promise!Done(GroupOf[c], Head(inbox[c]))
<1> DEFINE g == GroupOf[c]
           e == Head(inbox[c])
<1>1. g \in Groups
  BY WorkerAssumption
<1>2. e = inbox[c][1] /\ 1 \in DOMAIN inbox[c] /\ e \in Entries
  BY TailFacts DEF IInv, TypeOK
<1>3. e \in 1 .. last[g] /\ (e \in Range(handled[g]) <=> pc[c] = "ack")
  BY <1>2 DEF IInv, Batches, Unfinished
<1>4. Promise!Done(g, e) <=> e \in Range(handled[g])
  BY DEF Promise!Done, Range
<1>5. pc[c] = "handle" => e \in pending[g]
  BY <1>1, <1>3 DEF IInv, Undropped
<1>6. QED
  BY <1>1, <1>2, <1>3, <1>4, <1>5 DEF Entries

\* Consumers side by side, with their batches, errors, crashes and restarts, implement
\* the promise of the stream to their groups.
THEOREM ImplementsDelivery == Spec => DeliverySpec
<1>1. Init => Promise!Init
  BY DEF Init, Promise!Init
<1>2. IInv /\ [Next]_vars => [Promise!Next]_(Promise!vars)
  <2> SUFFICES ASSUME IInv, [Next]_vars
               PROVE  Promise!Next \/ UNCHANGED <<length, last, pending, handled>>
    BY DEF Promise!vars
  <2>1. CASE XAdd
    BY <2>1 DEF XAdd, Promise!Add, Promise!Next
  <2>2. ASSUME NEW c \in Consumers, ReadGroup(c)
        PROVE  Promise!Next
    <3>1. /\ GroupOf[c] \in Groups /\ Deliver(GroupOf[c]) /\ last[GroupOf[c]] < length
          /\ UNCHANGED <<length, handled>>
      BY <2>2, WorkerAssumption DEF ReadGroup
    <3>2. QED
      BY <3>1, DeliverGives
  <2>3. ASSUME NEW c \in Consumers, RunReturns(c)
        PROVE  Promise!Next \/ UNCHANGED <<length, last, pending, handled>>
    <3>1. /\ GroupOf[c] \in Groups /\ UNCHANGED <<length, handled>>
          /\ \/ last[GroupOf[c]] < length /\ Deliver(GroupOf[c])
             \/ UNCHANGED <<last, pending>>
      BY <2>3, WorkerAssumption DEF RunReturns
    <3>2. QED
      BY <3>1, DeliverGives
  <2>4. ASSUME NEW c \in Consumers, HandleMessage(c)
        PROVE  Promise!Next
    <3>1. pc[c] = "handle" /\ UNCHANGED <<length, last, pending>>
          /\ handled' = [handled EXCEPT ![GroupOf[c]] = Append(@, Head(inbox[c]))]
      BY <2>4 DEF HandleMessage
    <3>2. Promise!Handle(GroupOf[c], Head(inbox[c]))
      BY <3>1, FirstOfBatch DEF Promise!Handle
    <3>3. QED
      BY <3>1, <3>2, FirstOfBatch DEF Promise!Next
  <2>5. ASSUME NEW c \in Consumers, Ack(c)
        PROVE  Promise!Next
    <3>1. pc[c] = "ack" /\ UNCHANGED <<length, last, handled>>
          /\ pending' = [pending EXCEPT ![GroupOf[c]] = @ \ {Head(inbox[c])}]
      BY <2>5 DEF Ack
    <3>2. Promise!Drop(GroupOf[c], Head(inbox[c]))
      BY <3>1, FirstOfBatch DEF Promise!Drop
    <3>3. QED
      BY <3>1, <3>2, FirstOfBatch DEF Promise!Next
  <2>6. ASSUME NEW c \in Consumers,
               \/ EnsureGroup(c) \/ SkipMessage(c) \/ AckError(c)
               \/ Crash(c) \/ Restart(c)
        PROVE  UNCHANGED <<length, last, pending, handled>>
    BY <2>6 DEF EnsureGroup, SkipMessage, AckError, Crash, Restart
  <2>7. CASE UNCHANGED vars
    BY <2>7 DEF vars
  <2>8. QED
    BY <2>1, <2>2, <2>3, <2>4, <2>5, <2>6, <2>7 DEF Next, Run
<1>3. QED
  BY <1>1, <1>2, WorkerInvariant, PTL DEF Spec, DeliverySpec, Promise!Spec

\* What the promise alone says of the state.
Kept ==
  /\ length \in Nat
  /\ last \in [Groups -> Nat]
  /\ pending \in [Groups -> SUBSET Nat]
  /\ handled \in [Groups -> Seq(Nat)]
  /\ UnhandledStaysPending

\* An entry is dropped only after it has been handled.
LEMMA DeliveryKeeps == Kept /\ [Promise!Next]_(Promise!vars) => Kept'
<1> SUFFICES ASSUME Kept, [Promise!Next]_(Promise!vars) PROVE Kept'
  OBVIOUS
<1> USE DEF Kept
<1>1. UnhandledStaysPending <=>
        \A g \in Groups : \A n \in 1 .. last[g] : n \notin Range(handled[g]) => n \in pending[g]
  BY DEF UnhandledStaysPending, HandledBy, Range
<1>2. UnhandledStaysPending' <=>
        \A g \in Groups : \A n \in 1 .. last'[g] : n \notin Range(handled'[g]) => n \in pending'[g]
  BY DEF UnhandledStaysPending, HandledBy, Range
<1>3. CASE Promise!Add
  BY <1>1, <1>2, <1>3 DEF Promise!Add
<1>4. ASSUME NEW g \in Groups, NEW n \in 1 .. length, Promise!Give(g, n)
      PROVE  Kept'
  <2>1. /\ n \in last[g] + 1 .. length /\ n \in Nat /\ last' = [last EXCEPT ![g] = n]
        /\ pending' = [pending EXCEPT ![g] = @ \cup (last[g] + 1 .. n)]
        /\ UNCHANGED <<length, handled>>
    BY <1>4 DEF Promise!Give
  <2>2. last' \in [Groups -> Nat] /\ pending' \in [Groups -> SUBSET Nat]
    BY <2>1
  <2>3. UnhandledStaysPending'
    BY <1>1, <1>2, <2>1
  <2>4. QED
    BY <2>1, <2>2, <2>3
<1>5. ASSUME NEW g \in Groups, NEW n \in 1 .. length, Promise!Handle(g, n)
      PROVE  Kept'
  <2>1. /\ n \in Nat /\ handled' = [handled EXCEPT ![g] = Append(@, n)]
        /\ UNCHANGED <<length, last, pending>>
    BY <1>5 DEF Promise!Handle
  <2>2. /\ Append(handled[g], n) \in Seq(Nat)
        /\ Range(Append(handled[g], n)) = Range(handled[g]) \cup {n}
    BY <2>1, AppendFacts
  <2>3. handled' \in [Groups -> Seq(Nat)]
    BY <2>1, <2>2
  <2>4. \A h \in Groups : Range(handled[h]) \subseteq Range(handled'[h])
    BY <2>1, <2>2
  <2>5. UnhandledStaysPending'
    BY <1>1, <1>2, <2>1, <2>4
  <2>6. QED
    BY <2>1, <2>3, <2>5
<1>6. ASSUME NEW g \in Groups, NEW n \in 1 .. length, Promise!Drop(g, n)
      PROVE  Kept'
  <2>1. /\ n \in Range(handled[g]) /\ pending' = [pending EXCEPT ![g] = @ \ {n}]
        /\ UNCHANGED <<length, last, handled>>
    BY <1>6 DEF Promise!Drop, Promise!Done, Range
  <2>2. UnhandledStaysPending'
    BY <1>1, <1>2, <2>1
  <2>3. QED
    BY <2>1, <2>2
<1>7. CASE UNCHANGED <<length, last, pending, handled>>
  BY <1>1, <1>2, <1>7
<1>8. QED
  BY <1>3, <1>4, <1>5, <1>6, <1>7 DEF Promise!Next, Promise!vars

\* Whoever implements the promise of the stream drops no entry without a trace.
THEOREM DeliveryDropsNothing == DeliverySpec => []UnhandledStaysPending
<1>1. Promise!Init => Kept
  BY DEF Promise!Init, Kept, UnhandledStaysPending
<1>2. Kept => UnhandledStaysPending
  BY DEF Kept
<1>3. QED
  BY <1>1, <1>2, DeliveryKeeps, PTL DEF DeliverySpec, Promise!Spec

\* What a group was given and did not handle is on its pending list, whatever is
\* skipped, fails or crashes.
THEOREM NothingDropped == Spec => []UnhandledStaysPending
  BY ImplementsDelivery, DeliveryDropsNothing, PTL
=============================================================================
