-------------------------- MODULE OutboxRelayProofs --------------------------
(***************************************************************************)
(* What holds of OutboxRelay for every number of rows, relays and          *)
(* failures: the discipline of claims, and that relays, crashes and late   *)
(* commands together implement the abstract outbox.                        *)
(*                                                                         *)
(* The argument.  A relay works on a row only while it holds the row's     *)
(* lock, so nobody marks a row for somebody else (ClaimsAreHeld).  A row   *)
(* that is being sent, or is on its way, is committed (SentCommitted), and *)
(* one that is about to be marked is in the stream, which only grows       *)
(* (MarkedSent).  For duplicates, the entries of a row are counted against *)
(* its mark and what failures wasted; two relays at the mark of one row    *)
(* would spoil the balance, and a lock has only one holder (Balance).      *)
(***************************************************************************)
EXTENDS OutboxRelay, FiniteSetTheorems, TLAPS

InStream(e) == \E i \in DOMAIN stream : stream[i] = e

SentCommitted ==
  /\ \A w \in Relays : row[w] # None => row[w] \in committed
  /\ \A e \in Events : late[e] > 0 => e \in committed

MarkedSent ==
  /\ \A w \in Relays : pc[w] \in {"xadd", "mark"} <=> row[w] # None
  /\ \A w \in Relays : pc[w] = "mark" => InStream(row[w])

IInv ==
  /\ TypeOK
  /\ ClaimsAreHeld
  /\ SentCommitted
  /\ MarkedSent

-----------------------------------------------------------------------------
\* XADD puts an entry into the stream and leaves those there that are there.
LEMMA AppendKeeps ==
  ASSUME NEW S, NEW s \in Seq(S), NEW e \in S
  PROVE  /\ Append(s, e) \in Seq(S)
         /\ \E i \in DOMAIN Append(s, e) : Append(s, e)[i] = e
         /\ \A i \in DOMAIN s : i \in DOMAIN Append(s, e) /\ Append(s, e)[i] = s[i]
<1>1. /\ Append(s, e) \in Seq(S) /\ Len(Append(s, e)) = Len(s) + 1
      /\ Append(s, e)[Len(s) + 1] = e
      /\ \A i \in 1 .. Len(s) : Append(s, e)[i] = s[i]
  OBVIOUS
<1>2. Len(s) \in Nat /\ DOMAIN s = 1 .. Len(s) /\ DOMAIN Append(s, e) = 1 .. Len(s) + 1
  BY <1>1
<1>3. QED
  BY <1>1, <1>2

\* Nobody has claimed anything at the start.
LEMMA InitIInv == Init => IInv
BY RelayAssumption
   DEF Init, IInv, TypeOK, ClaimsAreHeld, SentCommitted, MarkedSent, InStream

\* A row in the stream stays there.
LEMMA StreamGrows ==
  ASSUME IInv, NEW e \in Events,
         stream' = stream \/ \E f \in Events : stream' = Append(stream, f)
  PROVE  InStream(e) => InStream(e)'
<1>1. CASE stream' = stream
  BY <1>1 DEF InStream
<1>2. CASE \E f \in Events : stream' = Append(stream, f)
  <2> PICK f \in Events : stream' = Append(stream, f)
    BY <1>2
  <2>1. stream \in Seq(Events)
    BY DEF IInv, TypeOK
  <2>2. QED
    BY <2>1, AppendKeeps DEF InStream
<1>3. QED
  BY <1>1, <1>2

\* A transaction commits.
LEMMA CommitRowIInv ==
  ASSUME IInv, NEW e \in Events, CommitRow(e)
  PROVE  IInv'
BY DEF IInv, TypeOK, ClaimsAreHeld, SentCommitted, MarkedSent, InStream, CommitRow

\* A claim takes a committed row that nobody holds, for a relay that has none.
LEMMA ClaimRowIInv ==
  ASSUME IInv, NEW w \in Relays, ClaimRow(w)
  PROVE  IInv'
<1> USE DEF IInv
<1>1. PICK e \in Claimable :
        /\ rowLock' = [rowLock EXCEPT ![e] = w]
        /\ row' = [row EXCEPT ![w] = e]
  BY DEF ClaimRow
<1>2. /\ e \in Events /\ e \in committed /\ rowLock[e] = None /\ e # None
      /\ pc[w] = "claim" /\ pc' = [pc EXCEPT ![w] = "xadd"]
      /\ UNCHANGED <<committed, published, stream, late, wasted, failures>>
  BY RelayAssumption DEF ClaimRow, Claimable, TypeOK
<1>3. TypeOK'
  BY <1>1, <1>2 DEF TypeOK
<1>4. ClaimsAreHeld'
  BY <1>1, <1>2, RelayAssumption DEF TypeOK, ClaimsAreHeld
<1>5. SentCommitted' /\ MarkedSent'
  BY <1>1, <1>2 DEF TypeOK, SentCommitted, MarkedSent, InStream
<1>6. QED
  BY <1>3, <1>4, <1>5

\* The row a relay sends is a row, and is in the stream afterwards.
LEMMA SendingIInv ==
  ASSUME IInv, NEW w \in Relays, pc[w] \in {"xadd", "mark"}
  PROVE  row[w] \in Events /\ row[w] \in committed /\ rowLock[row[w]] = w
<1>1. row[w] \in Events /\ row[w] \in committed
  BY DEF IInv, TypeOK, MarkedSent, SentCommitted
<1>2. QED
  BY <1>1 DEF IInv, ClaimsAreHeld

LEMMA PublishOneIInv ==
  ASSUME IInv, NEW w \in Relays, PublishOne(w)
  PROVE  IInv'
<1> USE DEF IInv
<1>1. /\ row[w] \in Events /\ row[w] \in committed
      /\ pc[w] = "xadd" /\ pc' = [pc EXCEPT ![w] = "mark"]
      /\ stream \in Seq(Events) /\ stream' = Append(stream, row[w])
      /\ UNCHANGED <<committed, published, rowLock, row, late, wasted, failures>>
  BY SendingIInv DEF PublishOne, TypeOK
<1>2. stream' \in Seq(Events) /\ InStream(row[w])'
  BY <1>1, AppendKeeps DEF InStream
<1>3. TypeOK' /\ ClaimsAreHeld' /\ SentCommitted'
  BY <1>1, <1>2 DEF TypeOK, ClaimsAreHeld, SentCommitted
<1>4. MarkedSent'
  <2>1. \A e \in Events : InStream(e) => InStream(e)'
    BY <1>1, StreamGrows
  <2>2. QED
    <3>1. ASSUME NEW v \in Relays, pc'[v] = "mark" PROVE InStream(row[v])'
      <4>1. CASE v = w
        BY <1>1, <1>2, <4>1
      <4>2. CASE v # w
        <5>1. pc[v] = "mark" /\ row[v] \in Events
          BY <1>1, <3>1, <4>2, SendingIInv DEF TypeOK
        <5>2. InStream(row[v]) /\ row'[v] = row[v]
          BY <1>1, <5>1 DEF MarkedSent
        <5>3. QED
          BY <2>1, <5>1, <5>2 DEF InStream
      <4>3. QED
        BY <4>1, <4>2
    <3>2. \A v \in Relays : pc'[v] \in {"xadd", "mark"} <=> row'[v] # None
      BY <1>1 DEF TypeOK, MarkedSent
    <3>3. QED
      BY <3>1, <3>2 DEF MarkedSent
<1>5. QED
  BY <1>3, <1>4

LEMMA MarkPublishedIInv ==
  ASSUME IInv, NEW w \in Relays, MarkPublished(w)
  PROVE  IInv'
<1> USE DEF IInv
<1>1. /\ row[w] \in Events /\ row[w] \in committed /\ rowLock[row[w]] = w /\ row[w] # None
      /\ pc[w] = "mark" /\ pc' = [pc EXCEPT ![w] = "claim"]
      /\ published' = published \cup {row[w]}
      /\ rowLock' = [rowLock EXCEPT ![row[w]] = None]
      /\ row' = [row EXCEPT ![w] = None]
      /\ UNCHANGED <<committed, stream, late, wasted, failures>>
  BY SendingIInv, RelayAssumption DEF MarkPublished
<1>2. TypeOK'
  BY <1>1 DEF TypeOK
<1>3. ClaimsAreHeld'
  BY <1>1, RelayAssumption DEF TypeOK, ClaimsAreHeld
<1>4. SentCommitted' /\ MarkedSent'
  BY <1>1 DEF TypeOK, SentCommitted, MarkedSent, InStream
<1>5. QED
  BY <1>2, <1>3, <1>4

\* A rolled-back claim frees the row for others, whatever has become of the XADD.
LEMMA AbandonIInv ==
  ASSUME IInv, NEW w \in Relays, NEW label \in {"claim", "down"},
         Abandon(w, label),
         stream' = stream \/ \E f \in Events : stream' = Append(stream, f),
         late' \in [Events -> Nat], wasted' \in [Events -> Nat],
         failures' \in 0 .. MaxFailures,
         \A e \in Events : late'[e] > 0 => e \in committed
  PROVE  IInv'
<1> USE DEF IInv
<1>1. /\ rowLock' = [e \in Events |-> IF rowLock[e] = w THEN None ELSE rowLock[e]]
      /\ row' = [row EXCEPT ![w] = None]
      /\ pc' = [pc EXCEPT ![w] = label]
      /\ UNCHANGED <<committed, published>>
  BY DEF Abandon
<1>2. stream' \in Seq(Events)
  <2>1. stream \in Seq(Events)
    BY DEF TypeOK
  <2>2. ASSUME NEW f \in Events, stream' = Append(stream, f)
        PROVE  stream' \in Seq(Events)
    BY <2>1, <2>2
  <2>3. QED
    BY <2>1, <2>2
<1>3. TypeOK'
  BY <1>1, <1>2 DEF TypeOK
<1>4. ClaimsAreHeld'
  BY <1>1, RelayAssumption DEF TypeOK, ClaimsAreHeld
<1>5. SentCommitted'
  BY <1>1 DEF TypeOK, SentCommitted
<1>6. MarkedSent'
  <2>1. \A v \in Relays : pc'[v] \in {"xadd", "mark"} <=> row'[v] # None
    BY <1>1 DEF TypeOK, MarkedSent
  <2>2. ASSUME NEW v \in Relays, pc'[v] = "mark"
        PROVE  InStream(row[v])' /\ row'[v] = row[v]
    <3>1. v # w /\ pc[v] = "mark" /\ row'[v] = row[v]
      BY <1>1, <2>2 DEF TypeOK
    <3>2. row[v] \in Events /\ InStream(row[v])
      BY <3>1, SendingIInv DEF MarkedSent
    <3>3. \A e \in Events : InStream(e) => InStream(e)'
      BY StreamGrows
    <3>4. QED
      BY <3>1, <3>2, <3>3 DEF InStream
  <2>3. QED
    BY <2>1, <2>2 DEF MarkedSent, InStream
<1>7. QED
  BY <1>3, <1>4, <1>5, <1>6

LEMMA PublishErrorIInv ==
  ASSUME IInv, NEW w \in Relays, PublishError(w)
  PROVE  IInv'
<1>1. row[w] \in Events /\ row[w] \in committed
  BY SendingIInv DEF PublishError
<1>2. failures' \in 0 .. MaxFailures
  BY RelayAssumption DEF PublishError, Failure, IInv, TypeOK
<1>3. late' \in [Events -> Nat] /\ wasted' \in [Events -> Nat]
  <2>1. /\ late' = late \/ late' = [late EXCEPT ![row[w]] = @ + 1]
        /\ wasted' = wasted \/ wasted' = [wasted EXCEPT ![row[w]] = @ + 1]
    BY DEF PublishError
  <2>2. late \in [Events -> Nat] /\ wasted \in [Events -> Nat]
    BY DEF IInv, TypeOK
  <2>3. late' \in [Events -> Nat]
    BY <2>1, <2>2, <1>1
  <2>4. wasted' \in [Events -> Nat]
    BY <2>1, <2>2, <1>1
  <2>5. QED
    BY <2>3, <2>4
<1>4. \A e \in Events : late'[e] > 0 => e \in committed
  BY <1>1 DEF PublishError, IInv, TypeOK, SentCommitted
<1>5. stream' = stream \/ \E f \in Events : stream' = Append(stream, f)
  BY <1>1 DEF PublishError
<1>6. Abandon(w, "claim")
  BY DEF PublishError
<1>7. QED
  BY <1>2, <1>3, <1>4, <1>5, <1>6, AbandonIInv

LEMMA MarkErrorIInv ==
  ASSUME IInv, NEW w \in Relays, MarkError(w)
  PROVE  IInv'
<1>1. row[w] \in Events
  BY SendingIInv DEF MarkError
<1>2. failures' \in 0 .. MaxFailures
  BY RelayAssumption DEF MarkError, Failure, IInv, TypeOK
<1>3. late' \in [Events -> Nat] /\ wasted' \in [Events -> Nat]
  BY <1>1 DEF MarkError, IInv, TypeOK
<1>4. \A e \in Events : late'[e] > 0 => e \in committed
  BY DEF MarkError, IInv, SentCommitted
<1>5. stream' = stream /\ Abandon(w, "claim")
  BY DEF MarkError
<1>6. QED
  BY <1>2, <1>3, <1>4, <1>5, AbandonIInv

LEMMA CrashIInv ==
  ASSUME IInv, NEW w \in Relays, Crash(w)
  PROVE  IInv'
<1>1. pc[w] = "mark" => row[w] \in Events
  BY SendingIInv
<1>2. failures' \in 0 .. MaxFailures
  BY RelayAssumption DEF Crash, Failure, IInv, TypeOK
<1>3. late' \in [Events -> Nat] /\ wasted' \in [Events -> Nat]
  BY <1>1 DEF Crash, IInv, TypeOK
<1>4. \A e \in Events : late'[e] > 0 => e \in committed
  BY DEF Crash, IInv, SentCommitted
<1>5. stream' = stream /\ Abandon(w, "down")
  BY DEF Crash
<1>6. QED
  BY <1>2, <1>3, <1>4, <1>5, AbandonIInv

\* A repeated XADD of a row that is being sent.
LEMMA RetryXAddIInv ==
  ASSUME IInv, NEW w \in Relays, RetryXAdd(w)
  PROVE  IInv'
<1> USE DEF IInv
<1>1. /\ row[w] \in Events /\ stream' = Append(stream, row[w])
      /\ wasted' \in [Events -> Nat] /\ failures' \in 0 .. MaxFailures
      /\ UNCHANGED <<committed, published, rowLock, pc, row, late>>
  <2>1. row[w] \in Events
    BY SendingIInv DEF RetryXAdd
  <2>2. failures' \in 0 .. MaxFailures
    BY RelayAssumption DEF RetryXAdd, Failure, TypeOK
  <2>3. QED
    BY <2>1, <2>2 DEF RetryXAdd, TypeOK
<1>2. stream' \in Seq(Events)
  BY <1>1, AppendKeeps DEF TypeOK
<1>3. TypeOK' /\ ClaimsAreHeld' /\ SentCommitted'
  BY <1>1, <1>2 DEF TypeOK, ClaimsAreHeld, SentCommitted
<1>4. MarkedSent'
  <2>1. \A e \in Events : InStream(e) => InStream(e)'
    BY <1>1, StreamGrows
  <2>2. \A v \in Relays : pc[v] = "mark" => row[v] \in Events
    BY SendingIInv
  <2>3. QED
    BY <1>1, <2>1, <2>2 DEF MarkedSent, InStream
<1>5. QED
  BY <1>3, <1>4

\* An XADD that is late is of a committed row, too.
LEMMA LateXAddIInv ==
  ASSUME IInv, NEW e \in Events, LateXAdd(e)
  PROVE  IInv'
<1> USE DEF IInv
<1>1. /\ late[e] \in Nat /\ late[e] > 0 /\ stream' = Append(stream, e)
      /\ late' = [late EXCEPT ![e] = @ - 1]
      /\ UNCHANGED <<committed, published, rowLock, pc, row, wasted, failures>>
  BY DEF LateXAdd, TypeOK
<1>2. stream' \in Seq(Events)
  BY <1>1, AppendKeeps DEF TypeOK
<1>3. TypeOK' /\ ClaimsAreHeld' /\ SentCommitted'
  BY <1>1, <1>2 DEF TypeOK, ClaimsAreHeld, SentCommitted
<1>4. MarkedSent'
  <2>1. \A f \in Events : InStream(f) => InStream(f)'
    BY <1>1, StreamGrows
  <2>2. \A v \in Relays : pc[v] = "mark" => row[v] \in Events
    BY SendingIInv
  <2>3. QED
    BY <1>1, <2>1, <2>2 DEF MarkedSent, InStream
<1>5. QED
  BY <1>3, <1>4

LEMMA RestartIInv ==
  ASSUME IInv, NEW w \in Relays, Restart(w)
  PROVE  IInv'
BY DEF IInv, TypeOK, ClaimsAreHeld, SentCommitted, MarkedSent, InStream, Restart

LEMMA StutterIInv ==
  ASSUME IInv, UNCHANGED vars
  PROVE  IInv'
BY DEF IInv, TypeOK, ClaimsAreHeld, SentCommitted, MarkedSent, InStream, vars

LEMMA NextIInv == IInv /\ [Next]_vars => IInv'
<1> SUFFICES ASSUME IInv, [Next]_vars PROVE IInv'
  OBVIOUS
<1>1. CASE \E e \in Events : CommitRow(e) \/ LateXAdd(e)
  BY <1>1, CommitRowIInv, LateXAddIInv
<1>2. CASE \E w \in Relays : Run(w)
  BY <1>2, ClaimRowIInv, PublishOneIInv, MarkPublishedIInv DEF Run
<1>3. CASE \E w \in Relays : PublishError(w) \/ RetryXAdd(w) \/ MarkError(w)
  BY <1>3, PublishErrorIInv, RetryXAddIInv, MarkErrorIInv
<1>4. CASE \E w \in Relays : Crash(w) \/ Restart(w)
  BY <1>4, CrashIInv, RestartIInv
<1>5. CASE UNCHANGED vars
  BY <1>5, StutterIInv
<1>6. QED
  BY <1>1, <1>2, <1>3, <1>4, <1>5 DEF Next

-----------------------------------------------------------------------------
\* The invariant holds of every reachable state.
THEOREM InvariantHolds == Spec => []IInv
BY InitIInv, NextIInv, PTL DEF Spec

\* Rows are marked only when committed, and every variable keeps its type.
THEOREM RelayTypeCorrect == Spec => []TypeOK
<1>1. IInv => TypeOK
  BY DEF IInv
<1>2. QED
  BY <1>1, InvariantHolds, PTL

\* A row in work is locked by the relay that works on it and by no other, after
\* any number of errors, crashes and restarts.
THEOREM ClaimsCorrect == Spec => []ClaimsAreHeld
<1>1. IInv => ClaimsAreHeld
  BY DEF IInv
<1>2. QED
  BY <1>1, InvariantHolds, PTL

\* The entry of an XADD, whoever sent it and when, is of a committed row.
LEMMA SendsCommitted ==
  ASSUME NEW e \in Events, e \in committed, stream' = Append(stream, e),
         UNCHANGED <<committed, published>>
  PROVE  AtLeastOnce!Send(e)
BY DEF AtLeastOnce!Send

\* Any number of relays, crashing, retrying and racing with their own late commands,
\* implement the abstract outbox: nothing uncommitted is sent, and nothing is checked
\* off before it has been sent.
THEOREM ImplementsOutbox == Spec => OutboxSpec
<1>1. Init => AtLeastOnce!Init
  BY DEF Init, AtLeastOnce!Init
<1>2. IInv /\ [Next]_vars => [AtLeastOnce!Next]_<<committed, stream, published>>
  <2> SUFFICES ASSUME IInv, [Next]_vars
               PROVE  AtLeastOnce!Next \/ UNCHANGED <<committed, stream, published>>
    OBVIOUS
  <2>1. CASE \E e \in Events : CommitRow(e)
    BY <2>1 DEF CommitRow, AtLeastOnce!Next, AtLeastOnce!Commit
  <2>2. CASE \E e \in Events : LateXAdd(e)
    <3> PICK e \in Events : LateXAdd(e)
      BY <2>2
    <3>1. e \in committed /\ stream' = Append(stream, e) /\ UNCHANGED <<committed, published>>
      BY DEF LateXAdd, IInv, SentCommitted
    <3>2. QED
      BY <3>1, SendsCommitted DEF AtLeastOnce!Next
  <2>3. CASE \E w \in Relays : PublishOne(w) \/ PublishError(w) \/ RetryXAdd(w)
    <3> PICK w \in Relays : PublishOne(w) \/ PublishError(w) \/ RetryXAdd(w)
      BY <2>3
    <3>1. row[w] \in Events /\ row[w] \in committed
      BY SendingIInv DEF PublishOne, PublishError, RetryXAdd
    <3>2. /\ stream' = stream \/ stream' = Append(stream, row[w])
          /\ UNCHANGED <<committed, published>>
      BY DEF PublishOne, PublishError, RetryXAdd, Abandon
    <3>3. QED
      BY <3>1, <3>2, SendsCommitted DEF AtLeastOnce!Next
  <2>4. CASE \E w \in Relays : MarkPublished(w)
    <3> PICK w \in Relays : MarkPublished(w)
      BY <2>4
    <3>1. row[w] \in Events /\ InStream(row[w])
      BY SendingIInv DEF MarkPublished, IInv, MarkedSent
    <3>2. AtLeastOnce!Settle(row[w])
      BY <3>1 DEF MarkPublished, AtLeastOnce!Settle, InStream
    <3>3. QED
      BY <3>1, <3>2 DEF AtLeastOnce!Next
  <2>5. CASE \E w \in Relays : ClaimRow(w) \/ MarkError(w) \/ Crash(w) \/ Restart(w)
    BY <2>5 DEF ClaimRow, MarkError, Crash, Restart, Abandon
  <2>6. CASE UNCHANGED vars
    BY <2>6 DEF vars
  <2>7. QED
    BY <2>1, <2>2, <2>3, <2>4, <2>5, <2>6 DEF Next, Run
<1>3. QED
  BY <1>1, <1>2, InvariantHolds, PTL DEF Spec, OutboxSpec, AtLeastOnce!Spec

-----------------------------------------------------------------------------
\* Some relay has sent e and is about to mark it.
Marking(e) == \E w \in Relays : pc[w] = "mark" /\ row[w] = e

Ones(condition) == IF condition THEN 1 ELSE 0

\* Nobody works on a row that is marked, and the balance of DuplicatesOnlyFromFailures
\* with a relay at its mark, for there is only one.
Balance ==
  /\ \A e \in Events : rowLock[e] # None => e \notin published
  /\ \A e \in Events :
       Copies(e) + late[e] = wasted[e] + Ones(Marking(e)) + Ones(e \in published)

\* Where e is in q.
At(q, e) == {i \in DOMAIN q : q[i] = e}

\* A new entry is one more copy of its row and no copy of any other.
LEMMA AppendCounts ==
  ASSUME NEW s \in Seq(Events), NEW f \in Events, NEW e \in Events
  PROVE  /\ Cardinality(At(s, e)) \in Nat
         /\ Cardinality(At(Append(s, f), e)) = Cardinality(At(s, e)) + Ones(e = f)
<1>1. /\ Len(s) \in Nat /\ DOMAIN s = 1 .. Len(s)
      /\ DOMAIN Append(s, f) = 1 .. Len(s) + 1
      /\ Append(s, f)[Len(s) + 1] = f
      /\ \A i \in 1 .. Len(s) : Append(s, f)[i] = s[i]
  <2>1. /\ Append(s, f) \in Seq(Events) /\ Len(Append(s, f)) = Len(s) + 1
        /\ Append(s, f)[Len(s) + 1] = f
        /\ \A i \in 1 .. Len(s) : Append(s, f)[i] = s[i]
    OBVIOUS
  <2>2. QED
    BY <2>1
<1>2. IsFiniteSet(At(s, e)) /\ Cardinality(At(s, e)) \in Nat
  <2>1. IsFiniteSet(1 .. Len(s))
    BY <1>1, FS_Interval
  <2>2. At(s, e) \in SUBSET (1 .. Len(s))
    BY <1>1 DEF At
  <2>3. IsFiniteSet(At(s, e))
    BY <2>1, <2>2, FS_Subset
  <2>4. QED
    BY <2>3, FS_CardinalityType
<1>3. CASE e = f
  <2>1. At(Append(s, f), e) = At(s, e) \cup {Len(s) + 1} /\ Len(s) + 1 \notin At(s, e)
    BY <1>1, <1>3 DEF At
  <2>2. QED
    BY <2>1, <1>2, <1>3, FS_AddElement DEF Ones
<1>4. CASE e # f
  <2>1. At(Append(s, f), e) = At(s, e)
    BY <1>1, <1>4 DEF At
  <2>2. QED
    BY <2>1, <1>2, <1>4 DEF Ones
<1>5. QED
  BY <1>3, <1>4

\* What a step does to the copies of a row.
LEMMA CopiesStep ==
  ASSUME IInv, NEW e \in Events
  PROVE  /\ Copies(e) \in Nat /\ late[e] \in Nat /\ wasted[e] \in Nat
         /\ stream' = stream => Copies(e)' = Copies(e)
         /\ \A f \in Events : stream' = Append(stream, f) =>
              Copies(e)' = Copies(e) + Ones(e = f)
<1>1. stream \in Seq(Events) /\ late[e] \in Nat /\ wasted[e] \in Nat
  BY DEF IInv, TypeOK
<1>2. Copies(e) = Cardinality(At(stream, e)) /\ Copies(e)' = Cardinality(At(stream', e))
  BY DEF Copies, At
<1>3. /\ Copies(e) \in Nat
      /\ \A f \in Events : Cardinality(At(Append(stream, f), e)) = Copies(e) + Ones(e = f)
  BY <1>1, <1>2, AppendCounts
<1>4. stream' = stream => Copies(e)' = Copies(e)
  BY <1>2
<1>5. \A f \in Events : stream' = Append(stream, f) => Copies(e)' = Copies(e) + Ones(e = f)
  BY <1>2, <1>3
<1>6. QED
  BY <1>1, <1>3, <1>4, <1>5

\* Only the relay that works on a row can be at its mark.
LEMMA MarkingIsHolding ==
  ASSUME IInv, NEW w \in Relays, pc[w] \in {"xadd", "mark"}
  PROVE  Marking(row[w]) <=> pc[w] = "mark"
<1>1. \A v \in Relays : pc[v] = "mark" /\ row[v] = row[w] => v = w
  BY SendingIInv DEF IInv, ClaimsAreHeld
<1>2. QED
  BY <1>1 DEF Marking

\* A relay that leaves its row is no longer at its mark, and changes no other.
LEMMA LeavingMarks ==
  ASSUME IInv, NEW w \in Relays, NEW label \in {"claim", "xadd", "down"}, NEW r,
         pc' = [pc EXCEPT ![w] = label], row' = [row EXCEPT ![w] = r],
         NEW e \in Events
  PROVE  Marking(e)' <=> Marking(e) /\ ~(pc[w] = "mark" /\ row[w] = e)
<1>1. \A v \in Relays : pc[v] = "mark" /\ row[v] = e /\ pc[w] = "mark" /\ row[w] = e => v = w
  BY SendingIInv DEF IInv, ClaimsAreHeld
<1>2. QED
  BY <1>1 DEF Marking, IInv, TypeOK

\* Nothing is in the balance at the start.
LEMMA InitBalance == Init => Balance
<1> SUFFICES ASSUME Init PROVE Balance
  OBVIOUS
<1>1. \A e \in Events : Copies(e) = 0
  <2>1. \A e \in Events : {i \in DOMAIN stream : stream[i] = e} = {}
    BY DEF Init
  <2>2. QED
    BY <2>1, FS_EmptySet DEF Copies
<1>2. QED
  BY <1>1 DEF Init, Balance, Marking, Ones

\* Every step keeps the balance: a new entry is of the row that its sender goes on to
\* mark, or is written off as wasted.
LEMMA NextBalance == IInv /\ Balance /\ [Next]_vars => Balance'
<1> SUFFICES ASSUME IInv, Balance, [Next]_vars PROVE Balance'
  OBVIOUS
<1> USE DEF Balance
<1>1. ASSUME NEW f \in Events, CommitRow(f) PROVE Balance'
  BY <1>1, CopiesStep DEF CommitRow, Marking
<1>2. ASSUME NEW f \in Events, LateXAdd(f) PROVE Balance'
  <2>1. \A e \in Events : late'[e] = late[e] - Ones(e = f)
    BY <1>2 DEF LateXAdd, IInv, TypeOK, Ones
  <2>2. QED
    <3>1. UNCHANGED <<rowLock, published, wasted, pc, row>> /\ stream' = Append(stream, f)
      BY <1>2 DEF LateXAdd
    <3>2. \A e \in Events : Marking(e)' <=> Marking(e)
      BY <3>1 DEF Marking
    <3>3. ASSUME NEW e \in Events
          PROVE  (Copies(e) + late[e] = wasted[e] + Ones(Marking(e)) + Ones(e \in published))'
      <4>1. /\ Copies(e)' = Copies(e) + Ones(e = f)
            /\ Copies(e) \in Nat /\ late[e] \in Nat /\ wasted[e] \in Nat
        BY <3>1, CopiesStep
      <4>2. Copies(e)' + late'[e] = Copies(e) + late[e]
        BY <2>1, <4>1 DEF Ones
      <4>3. Copies(e) + late[e] = wasted[e] + Ones(Marking(e)) + Ones(e \in published)
        OBVIOUS
      <4>4. Ones(Marking(e))' = Ones(Marking(e)) /\ Ones(e \in published)' = Ones(e \in published)
        BY <3>1, <3>2 DEF Ones
      <4>5. QED
        BY <3>1, <4>2, <4>3, <4>4
    <3>4. QED
      BY <3>1, <3>3
<1>3. ASSUME NEW w \in Relays, ClaimRow(w) PROVE Balance'
  <2>1. PICK f \in Claimable :
          /\ rowLock' = [rowLock EXCEPT ![f] = w]
          /\ row' = [row EXCEPT ![w] = f]
    BY <1>3 DEF ClaimRow
  <2>2. \A e \in Events : Marking(e)' <=> Marking(e)
    BY <1>3, <2>1, LeavingMarks DEF ClaimRow
  <2>3. \A e \in Events : rowLock'[e] # None => e \notin published
    BY <2>1 DEF Claimable, IInv, TypeOK
  <2>4. QED
    BY <1>3, <2>2, <2>3, CopiesStep DEF ClaimRow, Ones
<1>4. ASSUME NEW w \in Relays, PublishOne(w) PROVE Balance'
  <2>1. row[w] \in Events /\ ~Marking(row[w])
    BY <1>4, SendingIInv, MarkingIsHolding DEF PublishOne
  <2>2. \A e \in Events : Marking(e)' <=> Marking(e) \/ e = row[w]
    BY <1>4, <2>1 DEF PublishOne, Marking, IInv, TypeOK
  <2>3. \A e \in Events : Copies(e)' = Copies(e) + Ones(e = row[w])
    BY <1>4, <2>1, CopiesStep DEF PublishOne
  <2>4. QED
    <3>1. UNCHANGED <<rowLock, published, late, wasted>>
      BY <1>4 DEF PublishOne
    <3>2. ASSUME NEW e \in Events
          PROVE  (Copies(e) + late[e] = wasted[e] + Ones(Marking(e)) + Ones(e \in published))'
      <4>1. Copies(e) \in Nat /\ late[e] \in Nat /\ wasted[e] \in Nat
        BY CopiesStep
      <4>2. Ones(Marking(e)') = Ones(Marking(e)) + Ones(e = row[w])
        BY <2>1, <2>2 DEF Ones
      <4>3. Ones(Marking(e)) \in Nat /\ Ones(e = row[w]) \in Nat /\ Ones(e \in published) \in Nat
        BY DEF Ones
      <4>4. Copies(e) + late[e] = wasted[e] + Ones(Marking(e)) + Ones(e \in published)
        OBVIOUS
      <4>5. Ones(Marking(e))' = Ones(Marking(e)') /\ Ones(e \in published)' = Ones(e \in published)
        BY <3>1 DEF Ones
      <4>6. QED
        BY <2>3, <3>1, <4>1, <4>2, <4>3, <4>4, <4>5
    <3>3. QED
      BY <3>1, <3>2
<1>5. ASSUME NEW w \in Relays, MarkPublished(w) PROVE Balance'
  <2>1. row[w] \in Events /\ Marking(row[w]) /\ rowLock[row[w]] = w /\ w # None
    BY <1>5, RelayAssumption, SendingIInv, MarkingIsHolding DEF MarkPublished
  <2>2. \A e \in Events : Marking(e)' <=> Marking(e) /\ e # row[w]
    BY <1>5, LeavingMarks DEF MarkPublished
  <2>3. row[w] \notin published
    BY <2>1
  <2>4. \A e \in Events : rowLock'[e] # None => e \notin published'
    BY <1>5, <2>1 DEF MarkPublished, IInv, TypeOK
  <2>5. QED
    BY <1>5, <2>1, <2>2, <2>3, <2>4, CopiesStep DEF MarkPublished, Ones
<1>6. ASSUME NEW w \in Relays, NEW label \in {"claim", "down"}, Abandon(w, label)
      PROVE  /\ \A e \in Events : rowLock'[e] # None => e \notin published'
             /\ \A e \in Events : Marking(e)' <=> Marking(e) /\ ~(pc[w] = "mark" /\ row[w] = e)
  BY <1>6, LeavingMarks DEF Abandon, IInv, TypeOK
<1>7. ASSUME NEW w \in Relays, PublishError(w) PROVE Balance'
  <2>1. row[w] \in Events
    BY <1>7, SendingIInv DEF PublishError
  <2>2. /\ \A e \in Events : rowLock'[e] # None => e \notin published'
        /\ \A e \in Events : Marking(e)' <=> Marking(e)
        /\ published' = published
    BY <1>6, <1>7 DEF PublishError, Abandon
  <2>3. ASSUME NEW e \in Events
        PROVE  \E x, y \in Nat : /\ Copies(e)' = Copies(e) + x
                                 /\ late'[e] = late[e] + y
                                 /\ wasted'[e] = wasted[e] + x + y
    <3>1. CASE stream' = Append(stream, row[w]) /\ late' = late
               /\ wasted' = [wasted EXCEPT ![row[w]] = @ + 1]
      <4>1. Copies(e)' = Copies(e) + Ones(e = row[w])
        BY <2>1, <3>1, CopiesStep
      <4>2. wasted'[e] = wasted[e] + Ones(e = row[w])
        BY <3>1, CopiesStep DEF IInv, TypeOK, Ones
      <4>3. late'[e] = late[e] + 0 /\ wasted'[e] = wasted[e] + Ones(e = row[w]) + 0
        BY <3>1, <4>2, CopiesStep DEF Ones
      <4>4. Ones(e = row[w]) \in Nat
        BY DEF Ones
      <4>5. QED
        BY <4>1, <4>3, <4>4
    <3>2. CASE late' = [late EXCEPT ![row[w]] = @ + 1] /\ stream' = stream
               /\ wasted' = [wasted EXCEPT ![row[w]] = @ + 1]
      <4>1. Copies(e)' = Copies(e) + 0
        BY <3>2, CopiesStep
      <4>2. /\ late'[e] = late[e] + Ones(e = row[w])
            /\ wasted'[e] = wasted[e] + 0 + Ones(e = row[w])
        BY <3>2, CopiesStep DEF IInv, TypeOK, Ones
      <4>3. Ones(e = row[w]) \in Nat
        BY DEF Ones
      <4>4. QED
        BY <4>1, <4>2, <4>3
    <3>3. CASE UNCHANGED <<stream, late, wasted>>
      <4>1. Copies(e)' = Copies(e) + 0 /\ late'[e] = late[e] + 0 /\ wasted'[e] = wasted[e] + 0 + 0
        BY <3>3, CopiesStep
      <4>2. QED
        BY <4>1
    <3>4. QED
      BY <1>7, <3>1, <3>2, <3>3 DEF PublishError
  <2>4. ASSUME NEW e \in Events
        PROVE  Copies(e)' + late'[e] = wasted'[e] + Ones(Marking(e))' + Ones(e \in published)'
    <3>1. /\ Copies(e) \in Nat /\ late[e] \in Nat /\ wasted[e] \in Nat
          /\ Copies(e) + late[e] = wasted[e] + Ones(Marking(e)) + Ones(e \in published)
      BY CopiesStep
    <3>2. Ones(Marking(e))' = Ones(Marking(e)) /\ Ones(e \in published)' = Ones(e \in published)
      BY <2>2 DEF Ones
    <3>3. Ones(Marking(e)) \in Nat /\ Ones(e \in published) \in Nat
      BY DEF Ones
    <3>4. QED
      BY <2>3, <3>1, <3>2, <3>3
  <2>5. QED
    BY <2>2, <2>4
<1>8. ASSUME NEW w \in Relays, RetryXAdd(w) PROVE Balance'
  <2>1. row[w] \in Events
    BY <1>8, SendingIInv DEF RetryXAdd
  <2>2. \A e \in Events : wasted'[e] = wasted[e] + Ones(e = row[w])
    BY <1>8, <2>1, CopiesStep DEF RetryXAdd, IInv, TypeOK, Ones
  <2>3. \A e \in Events : Copies(e)' = Copies(e) + Ones(e = row[w])
    BY <1>8, <2>1, CopiesStep DEF RetryXAdd
  <2>4. \A e \in Events : Marking(e)' <=> Marking(e)
    BY <1>8 DEF RetryXAdd, Marking
  <2>5. QED
    BY <1>8, <2>2, <2>3, <2>4, CopiesStep DEF RetryXAdd, Ones
<1>9. ASSUME NEW w \in Relays, MarkError(w) \/ Crash(w) PROVE Balance'
  <2>1. PICK label \in {"claim", "down"} : Abandon(w, label)
    BY <1>9 DEF MarkError, Crash
  <2>2. /\ \A e \in Events : rowLock'[e] # None => e \notin published'
        /\ \A e \in Events : Marking(e)' <=> Marking(e) /\ ~(pc[w] = "mark" /\ row[w] = e)
        /\ published' = published /\ stream' = stream /\ late' = late
    BY <1>6, <1>9, <2>1 DEF Abandon, MarkError, Crash
  <2>3. pc[w] = "mark" => Marking(row[w]) /\ row[w] \in Events
    BY SendingIInv, MarkingIsHolding
  <2>4. \A e \in Events : wasted'[e] = wasted[e] + Ones(pc[w] = "mark" /\ row[w] = e)
    BY <1>9, <2>3, CopiesStep DEF MarkError, Crash, IInv, TypeOK, Ones
  <2>5. QED
    BY <2>2, <2>3, <2>4, CopiesStep DEF Ones
<1>10. ASSUME NEW w \in Relays, Restart(w) PROVE Balance'
  <2>1. \A e \in Events : Marking(e)' <=> Marking(e)
    BY <1>10 DEF Restart, Marking, IInv, TypeOK
  <2>2. QED
    BY <1>10, <2>1, CopiesStep DEF Restart, Ones
<1>11. CASE UNCHANGED vars
  BY <1>11, CopiesStep DEF vars, Marking
<1>12. QED
  BY <1>1, <1>2, <1>3, <1>4, <1>5, <1>7, <1>8, <1>9, <1>10, <1>11 DEF Next, Run

\* A row has one entry once it is marked, and one more for every XADD that a failure
\* kept from being followed by its mark, however many relays work side by side.
THEOREM DuplicatesExplained == Spec => []DuplicatesOnlyFromFailures
<1>1. IInv /\ Balance => DuplicatesOnlyFromFailures
  <2> SUFFICES ASSUME IInv, Balance, NEW e \in Events
               PROVE  Copies(e) + late[e] = wasted[e] + Cardinality(AtMark(e))
                                              + (IF e \in published THEN 1 ELSE 0)
    BY DEF DuplicatesOnlyFromFailures
  <2>1. Cardinality(AtMark(e)) = Ones(Marking(e))
    <3>1. CASE Marking(e)
      <4>1. PICK w \in Relays : pc[w] = "mark" /\ row[w] = e
        BY <3>1 DEF Marking
      <4>2. AtMark(e) = {w}
        BY <4>1, SendingIInv DEF AtMark, IInv, ClaimsAreHeld
      <4>3. QED
        BY <3>1, <4>2, FS_Singleton DEF Ones
    <3>2. CASE ~Marking(e)
      <4>1. AtMark(e) = {}
        BY <3>2 DEF AtMark, Marking
      <4>2. QED
        BY <3>2, <4>1, FS_EmptySet DEF Ones
    <3>3. QED
      BY <3>1, <3>2
  <2>2. QED
    BY <2>1 DEF Balance, Ones
<1>2. Spec => []Balance
  BY InitBalance, NextBalance, InvariantHolds, PTL DEF Spec
<1>3. QED
  BY <1>1, <1>2, InvariantHolds, PTL
=============================================================================
