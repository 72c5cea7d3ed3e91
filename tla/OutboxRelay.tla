----------------------------- MODULE OutboxRelay -----------------------------
(***************************************************************************)
(* The outbox relay: worker processes that publish the rows of             *)
(* outbox_events to the Redis stream inventory.events (Runner.Run,         *)
(* RelayPublishBatch, PublishEvent).  Each row is claimed, sent and marked *)
(* in one database transaction, whose row lock (FOR UPDATE SKIP LOCKED)    *)
(* keeps the other relays away.  Redis is not part of that transaction.    *)
(*                                                                         *)
(* Ids come from a sequence before the rows commit, so rows become visible *)
(* in any order.  The size of a batch, the poll interval and the length of *)
(* the backoff decide when a relay looks for its next row, never for       *)
(* which; they are left out.                                               *)
(*                                                                         *)
(* Definitions marked FAULTY are not part of the specification: each is    *)
(* the one after it with a plausible slip.                                 *)
(***************************************************************************)
EXTENDS Naturals, Sequences, FiniteSets

CONSTANTS
  Events,       \* ids of outbox_events rows
  Relays,       \* relay processes
  MaxFailures,  \* bound on the failures of one behaviour, not in the code
  None

ASSUME RelayAssumption ==
  Events \subseteq Nat /\ None \notin Events /\ None \notin Relays /\ MaxFailures \in Nat

VARIABLES
  committed,  \* rows of committed transactions
  published,  \* rows with published = true
  rowLock,    \* the relay whose transaction holds a row
  pc, row,    \* where a relay is, and the row it works on
  stream,     \* inventory.events, as the event_id of its entries
  late,       \* XADDs of a row on their way although their sender gave up
  wasted,     \* XADDs of a row that were not followed by a mark (history)
  failures    \* how many failures there have been (bound)

vars == <<committed, published, rowLock, pc, row, stream, late, wasted, failures>>

TypeOK ==
  /\ committed \subseteq Events
  /\ published \subseteq committed
  /\ rowLock \in [Events -> Relays \cup {None}]
  /\ pc \in [Relays -> {"claim", "xadd", "mark", "down"}]
  /\ row \in [Relays -> Events \cup {None}]
  /\ stream \in Seq(Events)
  /\ late \in [Events -> Nat]
  /\ wasted \in [Events -> Nat]
  /\ failures \in 0 .. MaxFailures

Init ==
  /\ committed = {}
  /\ published = {}
  /\ rowLock = [e \in Events |-> None]
  /\ pc = [w \in Relays |-> "claim"]
  /\ row = [w \in Relays |-> None]
  /\ stream = <<>>
  /\ late = [e \in Events |-> 0]
  /\ wasted = [e \in Events |-> 0]
  /\ failures = 0

-----------------------------------------------------------------------------
\* A transaction that inserted the row commits (module Movement).
CommitRow(e) ==
  /\ e \notin committed
  /\ committed' = committed \cup {e}
  /\ UNCHANGED <<published, rowLock, pc, row, stream, late, wasted, failures>>

\* FAULTY: the claim takes no lock into account.
ClaimableShared == committed \ published

\* FAULTY: rows are inserted outside the transaction they belong to.
ClaimableUncommitted == {e \in Events \ published : rowLock[e] = None}

\* WHERE published = false ... SKIP LOCKED.
Claimable == {e \in committed \ published : rowLock[e] = None}

\* ORDER BY id LIMIT 1.  Without such a row the relay sleeps and asks again.
ClaimRow(w) ==
  /\ pc[w] = "claim"
  /\ \E e \in Claimable :
       /\ \A f \in Claimable : e <= f
       /\ rowLock' = [rowLock EXCEPT ![e] = w]
       /\ row' = [row EXCEPT ![w] = e]
  /\ pc' = [pc EXCEPT ![w] = "xadd"]
  /\ UNCHANGED <<committed, published, stream, late, wasted, failures>>

\* The event_id of the entry is "outbox:" and the id of the row.
PublishOne(w) ==
  /\ pc[w] = "xadd"
  /\ stream' = Append(stream, row[w])
  /\ pc' = [pc EXCEPT ![w] = "mark"]
  /\ UNCHANGED <<committed, published, rowLock, row, late, wasted, failures>>

\* The UPDATE of published and the commit.
MarkPublished(w) ==
  /\ pc[w] = "mark"
  /\ published' = published \cup {row[w]}
  /\ rowLock' = [rowLock EXCEPT ![row[w]] = None]
  /\ row' = [row EXCEPT ![w] = None]
  /\ pc' = [pc EXCEPT ![w] = "claim"]
  /\ UNCHANGED <<committed, stream, late, wasted, failures>>

-----------------------------------------------------------------------------
Failure == failures < MaxFailures /\ failures' = failures + 1

\* FAULTY: the rolled-back claim keeps its row.
AbandonLocked(w, label) ==
  /\ row' = [row EXCEPT ![w] = None]
  /\ pc' = [pc EXCEPT ![w] = label]
  /\ UNCHANGED <<committed, published, rowLock>>

\* The transaction of w is rolled back.
Abandon(w, label) ==
  /\ rowLock' = [e \in Events |-> IF rowLock[e] = w THEN None ELSE rowLock[e]]
  /\ row' = [row EXCEPT ![w] = None]
  /\ pc' = [pc EXCEPT ![w] = label]
  /\ UNCHANGED <<committed, published>>

\* FAULTY: the error of the XADD is logged and the row marked.
PublishErrorIgnored(w) ==
  /\ pc[w] = "xadd" /\ Failure
  /\ pc' = [pc EXCEPT ![w] = "mark"]
  /\ UNCHANGED <<committed, published, rowLock, row, stream, late, wasted>>

\* XADD returns an error: it may have been carried out, be on its way, or be lost.
\* The error rolls the claim back and the relay backs off.
PublishError(w) ==
  /\ pc[w] = "xadd" /\ Failure
  /\ \/ /\ stream' = Append(stream, row[w])
        /\ wasted' = [wasted EXCEPT ![row[w]] = @ + 1]
        /\ UNCHANGED late
     \/ /\ late' = [late EXCEPT ![row[w]] = @ + 1]
        /\ wasted' = [wasted EXCEPT ![row[w]] = @ + 1]
        /\ UNCHANGED stream
     \/ UNCHANGED <<stream, late, wasted>>
  /\ Abandon(w, "claim")

\* The client of the Redis library repeats an XADD whose answer it did not get,
\* within the same call.
RetryXAdd(w) ==
  /\ pc[w] = "xadd" /\ Failure
  /\ stream' = Append(stream, row[w])
  /\ wasted' = [wasted EXCEPT ![row[w]] = @ + 1]
  /\ UNCHANGED <<committed, published, rowLock, pc, row, late>>

\* An XADD whose sender gave up on it reaches Redis after all.
LateXAdd(e) ==
  /\ late[e] > 0
  /\ late' = [late EXCEPT ![e] = @ - 1]
  /\ stream' = Append(stream, e)
  /\ UNCHANGED <<committed, published, rowLock, pc, row, wasted, failures>>

\* The UPDATE or the commit fails after the XADD.
MarkError(w) ==
  /\ pc[w] = "mark" /\ Failure
  /\ wasted' = [wasted EXCEPT ![row[w]] = @ + 1]
  /\ Abandon(w, "claim")
  /\ UNCHANGED <<stream, late>>

\* The process dies, or is told to stop; the database rolls its transaction back.
Crash(w) ==
  /\ pc[w] # "down" /\ Failure
  /\ wasted' = IF pc[w] = "mark" THEN [wasted EXCEPT ![row[w]] = @ + 1] ELSE wasted
  /\ Abandon(w, "down")
  /\ UNCHANGED <<stream, late>>

Restart(w) ==
  /\ pc[w] = "down"
  /\ pc' = [pc EXCEPT ![w] = "claim"]
  /\ UNCHANGED <<committed, published, rowLock, row, stream, late, wasted, failures>>

Run(w) == ClaimRow(w) \/ PublishOne(w) \/ MarkPublished(w)

Next ==
  \/ \E e \in Events : CommitRow(e) \/ LateXAdd(e)
  \/ \E w \in Relays :
       \/ Run(w)
       \/ PublishError(w) \/ RetryXAdd(w) \/ MarkError(w)
       \/ Crash(w) \/ Restart(w)

Spec == Init /\ [][Next]_vars

\* A relay that runs keeps running; rows need not commit, nothing need fail, and
\* nobody need start a relay again that died.
Fairness == \A w \in Relays : WF_vars(Run(w))
FairSpec == Spec /\ Fairness

-----------------------------------------------------------------------------
\* Properties

\* The relays, their crashes and their retries together are an outbox: no row of
\* an uncommitted transaction is sent, none is marked before it is in the stream.
AtLeastOnce == INSTANCE Outbox WITH sent <- stream, settled <- published
OutboxSpec == AtLeastOnce!Spec

Copies(e) == Cardinality({i \in DOMAIN stream : stream[i] = e})
AtMark(e) == {w \in Relays : pc[w] = "mark" /\ row[w] = e}

\* "Multiple relay processes can run safely" (workers/README.md): there is one
\* entry per row, and one more for every XADD that a failure kept from being
\* followed by its mark.  Relays working side by side make no duplicates.
DuplicatesOnlyFromFailures ==
  \A e \in Events :
    Copies(e) + late[e] = wasted[e] + Cardinality(AtMark(e))
                            + (IF e \in published THEN 1 ELSE 0)

\* A row in work is held by the relay that works on it, and by no other; a relay
\* that is down or idle holds nothing, or its rows would never be published.
ClaimsAreHeld ==
  \A w \in Relays, e \in Events :
    rowLock[e] = w <=> row[w] = e /\ pc[w] \in {"xadd", "mark"}

\* Every committed row reaches the stream and is marked, after any number of
\* crashes and errors short of infinitely many, unless no relay is left.
EventuallyPublished ==
  \A e \in Events : e \in committed ~> e \in published \/ [](\A w \in Relays : pc[w] = "down")
=============================================================================
