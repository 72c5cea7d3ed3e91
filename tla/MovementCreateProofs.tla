------------------------ MODULE MovementCreateProofs ------------------------
(***************************************************************************)
(* What holds of MovementCreate for every number of requests, keys, bodies *)
(* and lines: replays name one movement, answers are true and creations    *)
(* are audited once, although no statement shares a transaction with the   *)
(* next one.                                                               *)
(*                                                                         *)
(* The argument.  The two unique constraints let only one header have a    *)
(* key (MadeOnce), and a header is inserted by the request that names its  *)
(* movement, past which neither its key nor its body changes.  So whatever *)
(* a request reads back under its key is that one movement (ReadsExist).   *)
(* Lines are only added, all of them before the creator reads anything     *)
(* back (LinesKept), and a status that is not draft stays, so that what an *)
(* answer tells goes on being true (RepliesKept).  Only the creator ever   *)
(* comes to the audit log, and once (AuditsCounted).                       *)
(***************************************************************************)
EXTENDS MovementCreate, TLAPS

Made(m) == status[m] # None

\* A movement has a creator that has come past its insert, and a key of its own.
MadeOnce ==
  /\ \A m \in Movements : Made(m) =>
       /\ found[m] = m /\ idem[m] # None /\ body[m] # None
       /\ pc[m] \in {"lines", "get", "getLines", "audit", "ok", "failed"}
  /\ \A m, n \in Movements : Made(m) /\ Made(n) /\ idem[m] = idem[n] => m = n

\* What a request has found is a movement with its key, its own while it inserts
\* lines; a success is about its body, and a refusal about another one.
ReadsExist ==
  \A t \in Requests :
    /\ pc[t] # "idle" => idem[t] # None /\ body[t] # None
    /\ pc[t] = "lines" => found[t] = t /\ Made(t)
    /\ pc[t] \in Reading \cup {"ErrIdempotency"} =>
         found[t] \in Movements /\ Made(found[t]) /\ idem[found[t]] = idem[t]
    /\ pc[t] \in {"audit", "ok"} => body[found[t]] = body[t]
    /\ pc[t] = "audit" => found[t] = t
    /\ pc[t] = "ErrIdempotency" => body[found[t]] # body[t]

\* The lines of a movement are those of its body, all of them once its creator
\* reads.
LinesKept ==
  \A m \in Movements :
    /\ Made(m) => lines[m] \subseteq LinesOf[body[m]]
    /\ ~Made(m) => lines[m] = {}
    /\ Made(m) /\ pc[m] \in Reading => lines[m] = LinesOf[body[m]]

\* What a request has read is still there.
RepliesKept ==
  \A t \in Requests :
    /\ pc[t] \in {"getLines", "audit", "ok"} /\ seen[t] # "draft" =>
         seen[t] = status[found[t]]
    /\ pc[t] \in {"audit", "ok"} =>
         /\ reply[t] \subseteq lines[found[t]]
         /\ found[t] = t => reply[t] = LinesOf[body[t]]

\* An audit row comes with the success of the creator.
AuditsCounted ==
  \A m \in Movements : audit[m] # 0 => audit[m] = 1 /\ pc[m] = "ok" /\ Made(m)

IInv == TypeOK /\ MadeOnce /\ ReadsExist /\ LinesKept /\ RepliesKept /\ AuditsCounted

-----------------------------------------------------------------------------
\* The invariant holds at the start: nobody has asked for anything.
LEMMA InitIInv == Init => IInv
BY DEF Init, IInv, TypeOK, MadeOnce, Made, ReadsExist, LinesKept, RepliesKept,
       AuditsCounted, Movements, Reading

-----------------------------------------------------------------------------
\* Every step keeps the invariant: one lemma per action.

\* Who calls has no movement yet.
LEMMA CallIInv ==
  ASSUME IInv, NEW t \in Requests, NEW k \in IdemKeys, NEW b \in Bodies, Call(t, k, b)
  PROVE  IInv'
<1> USE CreateAssumption DEF IInv, TypeOK, Movements, Goto, tables, input, answer, Call
<1>0. \A u \in Requests : Made(u) => u # t
  BY DEF MadeOnce
<1>1. TypeOK'
  BY DEF Reading, Running
<1>2. MadeOnce'
  BY DEF MadeOnce, Made
<1>3. ReadsExist'
  BY <1>0 DEF ReadsExist, Made, Reading
<1>4. LinesKept'
  BY DEF LinesKept, MadeOnce, Made
<1>5. RepliesKept'
  BY DEF RepliesKept
<1>6. AuditsCounted'
  BY DEF AuditsCounted, Made
<1>7. QED
  BY <1>1, <1>2, <1>3, <1>4, <1>5, <1>6

\* A validation changes nothing.
LEMMA ValidateDraftIInv ==
  ASSUME IInv, NEW t \in Requests, ValidateDraft(t)
  PROVE  IInv'
<1> USE CreateAssumption DEF IInv, TypeOK, Movements, Goto, tables, input, answer, ValidateDraft
<1>1. TypeOK'
  BY DEF Reading, Running
<1>2. MadeOnce'
  BY DEF MadeOnce, Made
<1>3. ReadsExist'
  BY DEF ReadsExist, Made, Reading
<1>4. LinesKept'
  BY DEF LinesKept, Made, Reading
<1>5. RepliesKept'
  BY DEF RepliesKept
<1>6. AuditsCounted'
  BY DEF AuditsCounted, Made
<1>7. QED
  BY <1>1, <1>2, <1>3, <1>4, <1>5, <1>6

\* A header is inserted under a key that no other has.
LEMMA InsertHeaderIInv ==
  ASSUME IInv, NEW t \in Requests, InsertHeader(t)
  PROVE  IInv'
<1> USE CreateAssumption DEF IInv, TypeOK, Movements, Goto, tables, input, answer, InsertHeader, Taken, HasKey
<1>1. TypeOK'
  BY DEF Reading, Running, Statuses
<1>2. MadeOnce'
  BY DEF MadeOnce, ReadsExist, Made
<1>3. ReadsExist'
  BY DEF ReadsExist, Made, Reading
<1>4. LinesKept'
  BY DEF LinesKept, Made, Reading
<1>5. RepliesKept'
  BY DEF RepliesKept, ReadsExist, Made, Reading
<1>6. AuditsCounted'
  BY DEF AuditsCounted, Made
<1>7. QED
  BY <1>1, <1>2, <1>3, <1>4, <1>5, <1>6

\* Lines are added to the creator's own movement.
LEMMA InsertLineIInv ==
  ASSUME IInv, NEW t \in Requests, NEW ln \in AllLines, InsertLine(t, ln)
  PROVE  IInv'
<1> USE CreateAssumption DEF IInv, TypeOK, Movements, Goto, tables, input, answer, InsertLine
<1>1. TypeOK'
  BY DEF ReadsExist
<1>2. MadeOnce'
  BY DEF MadeOnce, Made
<1>3. ReadsExist'
  BY DEF ReadsExist, Made
<1>4. LinesKept'
  BY DEF LinesKept, ReadsExist, Made
<1>5. RepliesKept'
  BY DEF RepliesKept
<1>6. AuditsCounted'
  BY DEF AuditsCounted, Made
<1>7. QED
  BY <1>1, <1>2, <1>3, <1>4, <1>5, <1>6

\* The creator reads when all lines are there.
LEMMA LinesInsertedIInv ==
  ASSUME IInv, NEW t \in Requests, LinesInserted(t)
  PROVE  IInv'
<1> USE CreateAssumption DEF IInv, TypeOK, Movements, Goto, tables, input, answer, LinesInserted
<1>1. TypeOK'
  BY DEF ReadsExist, Running
<1>2. MadeOnce'
  BY DEF MadeOnce, Made
<1>3. ReadsExist'
  BY DEF ReadsExist, Made
<1>4. LinesKept'
  BY DEF LinesKept, Made
<1>5. RepliesKept'
  BY DEF RepliesKept
<1>6. AuditsCounted'
  BY DEF AuditsCounted, Made
<1>7. QED
  BY <1>1, <1>2, <1>3, <1>4, <1>5, <1>6

\* What is found under a key has it.
LEMMA FindDuplicateIInv ==
  ASSUME IInv, NEW t \in Requests, FindDuplicate(t)
  PROVE  IInv'
<1> USE CreateAssumption DEF IInv, TypeOK, Movements, Goto, tables, input, answer, FindDuplicate, HasKey
<1>1. TypeOK'
  BY DEF Reading, Running, Refused
<1>2. MadeOnce'
  BY DEF MadeOnce, Made
<1>3. ReadsExist'
  BY DEF ReadsExist, Made, Reading
<1>4. LinesKept'
  BY DEF LinesKept, MadeOnce, Made
<1>5. RepliesKept'
  BY DEF RepliesKept
<1>6. AuditsCounted'
  BY DEF AuditsCounted, Made
<1>7. QED
  BY <1>1, <1>2, <1>3, <1>4, <1>5, <1>6

\* The status that is read is the one of now.
LEMMA GetHeaderIInv ==
  ASSUME IInv, NEW t \in Requests, GetHeader(t)
  PROVE  IInv'
<1> USE CreateAssumption DEF IInv, TypeOK, Movements, Goto, tables, input, answer, GetHeader
<1>1. TypeOK'
  BY DEF Reading, Running
<1>2. MadeOnce'
  BY DEF MadeOnce, Made
<1>3. ReadsExist'
  BY DEF ReadsExist, Made, Reading
<1>4. LinesKept'
  BY DEF LinesKept, Made, Reading
<1>5. RepliesKept'
  BY DEF RepliesKept
<1>6. AuditsCounted'
  BY DEF AuditsCounted, Made
<1>7. QED
  BY <1>1, <1>2, <1>3, <1>4, <1>5, <1>6

\* The creator reads all lines, a replay those that are there.
LEMMA GetLinesIInv ==
  ASSUME IInv, NEW t \in Requests, GetLines(t)
  PROVE  IInv'
<1> USE CreateAssumption DEF IInv, TypeOK, Movements, Goto, tables, input, answer, GetLines, SameBody
<1>1. TypeOK'
  BY DEF Reading, Running, Refused
<1>2. MadeOnce'
  BY DEF MadeOnce, Made
<1>3. ReadsExist'
  BY DEF ReadsExist, Made, Reading
<1>4. LinesKept'
  BY DEF LinesKept, Made, Reading
<1>5. RepliesKept'
  BY DEF RepliesKept, LinesKept, ReadsExist, Reading
<1>6. AuditsCounted'
  BY DEF AuditsCounted, Made
<1>7. QED
  BY <1>1, <1>2, <1>3, <1>4, <1>5, <1>6

\* The creator logs its movement and is done.
LEMMA AuditCreateIInv ==
  ASSUME IInv, NEW t \in Requests, AuditCreate(t)
  PROVE  IInv'
<1> USE CreateAssumption DEF IInv, TypeOK, Movements, Goto, tables, input, answer, AuditCreate
<1>1. TypeOK'
  BY DEF ReadsExist
<1>2. MadeOnce'
  BY DEF MadeOnce, Made
<1>3. ReadsExist'
  BY DEF ReadsExist, Made, Reading
<1>4. LinesKept'
  BY DEF LinesKept, Made, Reading
<1>5. RepliesKept'
  BY DEF RepliesKept
<1>6. AuditsCounted'
  BY DEF AuditsCounted, ReadsExist, Made, Reading
<1>7. QED
  BY <1>1, <1>2, <1>3, <1>4, <1>5, <1>6

\* A failure leaves what is committed.
LEMMA FailIInv ==
  ASSUME IInv, NEW t \in Requests, Fail(t)
  PROVE  IInv'
<1> USE CreateAssumption DEF IInv, TypeOK, Movements, Goto, tables, input, answer, Fail, Running
<1>1. TypeOK'
  BY DEF Reading, Refused
<1>2. MadeOnce'
  BY DEF MadeOnce, Made
<1>3. ReadsExist'
  BY DEF ReadsExist, Made, Reading
<1>4. LinesKept'
  BY DEF LinesKept, Made, Reading
<1>5. RepliesKept'
  BY DEF RepliesKept
<1>6. AuditsCounted'
  BY DEF AuditsCounted, Made
<1>7. QED
  BY <1>1, <1>2, <1>3, <1>4, <1>5, <1>6

\* A confirmation makes a draft terminal.
LEMMA ConfirmMovementIInv ==
  ASSUME IInv, NEW m \in Movements, ConfirmMovement(m)
  PROVE  IInv'
<1> USE CreateAssumption DEF IInv, TypeOK, Movements, Goto, tables, input, answer, ConfirmMovement
<1>1. TypeOK'
  BY DEF Statuses
<1>2. MadeOnce'
  BY DEF MadeOnce, Made
<1>3. ReadsExist'
  BY DEF ReadsExist, Made
<1>4. LinesKept'
  BY DEF LinesKept, Made
<1>5. RepliesKept'
  BY DEF RepliesKept
<1>6. AuditsCounted'
  BY DEF AuditsCounted, Made
<1>7. QED
  BY <1>1, <1>2, <1>3, <1>4, <1>5, <1>6

\* So does a cancellation.
LEMMA CancelMovementIInv ==
  ASSUME IInv, NEW m \in Movements, CancelMovement(m)
  PROVE  IInv'
<1> USE CreateAssumption DEF IInv, TypeOK, Movements, Goto, tables, input, answer, CancelMovement
<1>1. TypeOK'
  BY DEF Statuses
<1>2. MadeOnce'
  BY DEF MadeOnce, Made
<1>3. ReadsExist'
  BY DEF ReadsExist, Made
<1>4. LinesKept'
  BY DEF LinesKept, Made
<1>5. RepliesKept'
  BY DEF RepliesKept
<1>6. AuditsCounted'
  BY DEF AuditsCounted, Made
<1>7. QED
  BY <1>1, <1>2, <1>3, <1>4, <1>5, <1>6

\* Nothing changes in a stuttering step.
LEMMA StutterIInv ==
  ASSUME IInv, UNCHANGED vars
  PROVE  IInv'
BY DEF vars, tables, input, answer, IInv, TypeOK, MadeOnce, Made, ReadsExist, LinesKept,
       RepliesKept, AuditsCounted

\* Every step of the system keeps the invariant.
LEMMA NextIInv == IInv /\ [Next]_vars => IInv'
<1> SUFFICES ASSUME IInv, [Next]_vars PROVE IInv'
  OBVIOUS
<1>1. CASE \E t \in Requests, k \in IdemKeys, b \in Bodies : Call(t, k, b)
  BY <1>1, CallIInv
<1>2. CASE \E t \in Requests : Step(t)
  BY <1>2, ValidateDraftIInv, InsertHeaderIInv, InsertLineIInv, LinesInsertedIInv,
     FindDuplicateIInv, GetHeaderIInv, GetLinesIInv, AuditCreateIInv DEF Step
<1>3. CASE \E t \in Requests : Fail(t)
  BY <1>3, FailIInv
<1>4. CASE \E m \in Movements : ConfirmMovement(m) \/ CancelMovement(m)
  BY <1>4, ConfirmMovementIInv, CancelMovementIInv
<1>5. CASE UNCHANGED vars
  BY <1>5, StutterIInv
<1>6. QED
  BY <1>1, <1>2, <1>3, <1>4, <1>5 DEF Next

\* The strengthened invariant holds of every reachable state.
THEOREM CreateInvariant == Spec => []IInv
BY InitIInv, NextIInv, PTL DEF Spec

\* Whatever races, is retried or fails half-way, movements, lines, answers and audit
\* rows have their types, and who reads a movement has found one.
THEOREM CreateTypeCorrect == Spec => []TypeOK
<1>1. IInv => TypeOK
  BY DEF IInv
<1>2. QED
  BY <1>1, CreateInvariant, PTL

\* The successes under one Idempotency-Key are about one movement, made from the body
\* that each of them sent, and only another body is refused.
THEOREM KeyHoldsOneMovement == Spec => []KeyNamesOneMovement
<1>1. IInv => KeyNamesOneMovement
  BY DEF IInv, MadeOnce, ReadsExist, KeyNamesOneMovement, Succeeded, Reading
<1>2. QED
  BY <1>1, CreateInvariant, PTL

\* An answer's lines are stored and stay, its status is one the movement had, and the
\* creator is told of every line.
THEOREM AnswersStayTrue == Spec => []AnswersAreTrue
<1>1. IInv => AnswersAreTrue
  BY DEF IInv, RepliesKept, AnswersAreTrue, Succeeded
<1>2. QED
  BY <1>1, CreateInvariant, PTL

\* A movement is logged as created at most once, and with all of its lines.
THEOREM CreationAuditedOnce == Spec => []AuditedOnce
<1>1. IInv => AuditedOnce
  BY DEF IInv, TypeOK, AuditsCounted, LinesKept, AuditedOnce, Movements, Reading
<1>2. QED
  BY <1>1, CreateInvariant, PTL
=============================================================================
