--------------------------- MODULE MovementCreate ---------------------------
(***************************************************************************)
(* Creating draft movements: CreateInbound, CreateOutbound, CreateTransfer *)
(* and CreateAdjustment all end in createDraft, which calls the            *)
(* repository's Create.  No handler opens a transaction here, so the       *)
(* header and every line are committed one statement at a time, and other  *)
(* requests (a retry with the same Idempotency-Key, a confirmation, a      *)
(* cancellation) see what lies in between; so does whoever comes after a   *)
(* crash.                                                                  *)
(*                                                                         *)
(* A movement is named by the request that inserted its header: each call  *)
(* of Create draws a fresh uuid.  The hash of a request stands for its     *)
(* body, which fixes the reference number and the lines.                   *)
(*                                                                         *)
(* Definitions marked FAULTY are not part of the specification: each is    *)
(* the one after it with a plausible slip.                                 *)
(***************************************************************************)
EXTENDS Naturals, FiniteSets

CONSTANTS
  Requests,  \* calls of createDraft
  IdemKeys,  \* values of the Idempotency-Key header
  Bodies,    \* request bodies, as their SHA-256
  Ref,       \* Ref[b]: the reference number in body b
  LinesOf,   \* LinesOf[b]: the lines in body b, at least one
  None

Movements == Requests
AllLines == UNION {LinesOf[b] : b \in Bodies}

ASSUME CreateAssumption ==
  /\ DOMAIN Ref = Bodies /\ DOMAIN LinesOf = Bodies
  /\ \A b \in Bodies : LinesOf[b] # {}
  /\ None \notin Requests /\ None \notin IdemKeys /\ None \notin Bodies
  /\ None \notin {"draft", "confirmed", "cancelled"}

VARIABLES
  status,   \* movements.status, None before the header is inserted
  lines,    \* movement_lines of a movement
  applied,  \* the lines its confirmation applied to the stock
  audit,    \* how many movement.create audit rows a movement has
  idem,     \* the Idempotency-Key of a request
  body,     \* its body
  pc,       \* where createDraft is
  found,    \* the movement a request reads back
  seen,     \* the status it read
  reply     \* the lines answered with a success

tables == <<status, lines, applied, audit>>
input == <<idem, body>>
answer == <<found, seen, reply>>
vars == <<tables, input, pc, answer>>

Running == {"check", "insert", "lines", "duplicate", "get", "getLines", "audit"}
Reading == {"get", "getLines", "audit", "ok"}
Refused == {"failed", "ErrIdempotency", "ErrConflict"}
Statuses == {"draft", "confirmed", "cancelled"}

TypeOK ==
  /\ status \in [Movements -> Statuses \cup {None}]
  /\ lines \in [Movements -> SUBSET AllLines]
  /\ applied \in [Movements -> SUBSET AllLines]
  /\ audit \in [Movements -> Nat]
  /\ idem \in [Requests -> IdemKeys \cup {None}]
  /\ body \in [Requests -> Bodies \cup {None}]
  /\ pc \in [Requests -> {"idle", "ok"} \cup Running \cup Refused]
  /\ found \in [Requests -> Movements \cup {None}]
  /\ seen \in [Requests -> Statuses \cup {None}]
  /\ reply \in [Requests -> SUBSET AllLines]
  /\ \A t \in Requests : pc[t] \in Reading => found[t] # None

Init ==
  /\ status = [m \in Movements |-> None]
  /\ lines = [m \in Movements |-> {}]
  /\ applied = [m \in Movements |-> {}]
  /\ audit = [m \in Movements |-> 0]
  /\ idem = [t \in Requests |-> None]
  /\ body = [t \in Requests |-> None]
  /\ pc = [t \in Requests |-> "idle"]
  /\ found = [t \in Requests |-> None]
  /\ seen = [t \in Requests |-> None]
  /\ reply = [t \in Requests |-> {}]

-----------------------------------------------------------------------------
Goto(t, label) == pc' = [pc EXCEPT ![t] = label]

\* A first call or a client's retry: nothing but the key relates the two.
Call(t, k, b) ==
  /\ pc[t] = "idle"
  /\ idem' = [idem EXCEPT ![t] = k]
  /\ body' = [body EXCEPT ![t] = b]
  /\ Goto(t, "check")
  /\ UNCHANGED <<tables, answer>>

\* The user is one of the tenant, the warehouses are active, the products exist;
\* Fail is the other outcome.
ValidateDraft(t) ==
  /\ pc[t] = "check"
  /\ Goto(t, "insert")
  /\ UNCHANGED <<tables, input, answer>>

HasKey(k) == {m \in Movements : status[m] # None /\ idem[m] = k}
HasRef(r) == {m \in Movements : status[m] # None /\ Ref[body[m]] = r}

\* FAULTY: the schema without uq_movements_idempotency.
TakenByReference(t) == HasRef(Ref[body[t]]) # {}

\* uq_movements_tenant_ref or uq_movements_idempotency is violated.
Taken(t) == HasKey(idem[t]) # {} \/ HasRef(Ref[body[t]]) # {}

\* INSERT of the header, committed at once.
InsertHeader(t) ==
  /\ pc[t] = "insert"
  /\ \/ /\ Taken(t)
        /\ Goto(t, "duplicate")
        /\ UNCHANGED <<status, found>>
     \/ /\ ~Taken(t)
        /\ status' = [status EXCEPT ![t] = "draft"]
        /\ found' = [found EXCEPT ![t] = t]
        /\ Goto(t, "lines")
  /\ UNCHANGED <<lines, applied, audit, input, seen, reply>>

\* One INSERT per line, each committed at once, whatever has become of the header
\* in the meantime.
InsertLine(t, ln) ==
  /\ pc[t] = "lines"
  /\ ln \in LinesOf[body[t]] \ lines[t]
  /\ lines' = [lines EXCEPT ![t] = @ \cup {ln}]
  /\ UNCHANGED <<status, applied, audit, input, pc, answer>>

\* FAULTY: the loop stops one short.
LinesInsertedButOne(t) ==
  /\ pc[t] = "lines"
  /\ Cardinality(LinesOf[body[t]] \ lines[t]) <= 1
  /\ Goto(t, "get")
  /\ UNCHANGED <<tables, input, answer>>

LinesInserted(t) ==
  /\ pc[t] = "lines"
  /\ lines[t] = LinesOf[body[t]]
  /\ Goto(t, "get")
  /\ UNCHANGED <<tables, input, answer>>

\* FAULTY: a key that is not found is read back all the same.
FindDuplicateUnchecked(t) ==
  /\ pc[t] = "duplicate"
  /\ found' = [found EXCEPT ![t] =
       IF HasKey(idem[t]) = {} THEN None ELSE CHOOSE m \in HasKey(idem[t]) : TRUE]
  /\ Goto(t, "get")
  /\ UNCHANGED <<tables, input, seen, reply>>

\* handleCreateDuplicate: look the key up; when nobody has it, it was the
\* reference number.
FindDuplicate(t) ==
  /\ pc[t] = "duplicate"
  /\ \/ /\ HasKey(idem[t]) = {}
        /\ Goto(t, "ErrConflict")
        /\ UNCHANGED found
     \/ \E m \in HasKey(idem[t]) :
          /\ found' = [found EXCEPT ![t] = m]
          /\ Goto(t, "get")
  /\ UNCHANGED <<tables, input, seen, reply>>

\* The two queries of GetByID: the header ...
GetHeader(t) ==
  /\ pc[t] = "get"
  /\ seen' = [seen EXCEPT ![t] = status[found[t]]]
  /\ Goto(t, "getLines")
  /\ UNCHANGED <<tables, input, found, reply>>

\* FAULTY: any movement with the key is a replay.
ReplayAnyBody(t) == TRUE

\* idempotencyHashesMatch for a movement found by its key.
SameBody(t) == body[found[t]] = body[t]

\* FAULTY: a replay is logged as one more creation.
GetLinesAndAudit(t) ==
  /\ pc[t] = "getLines"
  /\ \/ /\ SameBody(t)
        /\ reply' = [reply EXCEPT ![t] = lines[found[t]]]
        /\ Goto(t, "audit")
     \/ /\ ~SameBody(t)
        /\ Goto(t, "ErrIdempotency")
        /\ UNCHANGED reply
  /\ UNCHANGED <<tables, input, found, seen>>

\* ... and its lines.  A replay with another body is refused, any other is
\* answered with what was read and leaves no audit row.
GetLines(t) ==
  /\ pc[t] = "getLines"
  /\ \/ /\ SameBody(t)
        /\ reply' = [reply EXCEPT ![t] = lines[found[t]]]
        /\ Goto(t, IF found[t] = t THEN "audit" ELSE "ok")
     \/ /\ ~SameBody(t)
        /\ Goto(t, "ErrIdempotency")
        /\ UNCHANGED reply
  /\ UNCHANGED <<tables, input, found, seen>>

\* The audit row of a creation is best effort.
AuditCreate(t) ==
  /\ pc[t] = "audit"
  /\ \/ audit' = [audit EXCEPT ![found[t]] = @ + 1]
     \/ UNCHANGED audit
  /\ Goto(t, "ok")
  /\ UNCHANGED <<status, lines, applied, input, answer>>

\* A refused validation, an error of the database or of the catalog, a cancelled
\* context, a crash.  What is committed stays.
Fail(t) ==
  /\ pc[t] \in Running
  /\ Goto(t, "failed")
  /\ UNCHANGED <<tables, input, answer>>

\* Module Movement has these two in detail.  Any user of the tenant finds the
\* movement in ListMovements.
ConfirmMovement(m) ==
  /\ status[m] = "draft"
  /\ status' = [status EXCEPT ![m] = "confirmed"]
  /\ applied' = [applied EXCEPT ![m] = lines[m]]
  /\ UNCHANGED <<lines, audit, input, pc, answer>>

CancelMovement(m) ==
  /\ status[m] = "draft"
  /\ status' = [status EXCEPT ![m] = "cancelled"]
  /\ UNCHANGED <<lines, applied, audit, input, pc, answer>>

Step(t) ==
  \/ ValidateDraft(t) \/ InsertHeader(t)
  \/ (\E ln \in AllLines : InsertLine(t, ln))
  \/ LinesInserted(t) \/ FindDuplicate(t)
  \/ GetHeader(t) \/ GetLines(t) \/ AuditCreate(t)

Next ==
  \/ \E t \in Requests :
       \/ \E k \in IdemKeys, b \in Bodies : Call(t, k, b)
       \/ Step(t)
       \/ Fail(t)
  \/ \E m \in Movements : ConfirmMovement(m) \/ CancelMovement(m)

Spec == Init /\ [][Next]_vars

-----------------------------------------------------------------------------
\* Properties

Succeeded == {t \in Requests : pc[t] = "ok"}

\* Whatever races or is retried, the successes under one Idempotency-Key are all
\* about one movement, made from the body that each of them sent, and a key is
\* refused only to a request with another body than the movement has.
KeyNamesOneMovement ==
  /\ \A t, u \in Succeeded : idem[t] = idem[u] => found[t] = found[u]
  /\ \A t \in Succeeded : body[found[t]] = body[t]
  /\ \A t \in Requests : pc[t] = "ErrIdempotency" =>
       idem[found[t]] = idem[t] /\ body[found[t]] # body[t]

\* A success never tells more than there is: its lines are stored and stay, and
\* the status it tells is one the movement had, so a terminal one it still has.
\* To the request that inserted the movement it tells every line.
AnswersAreTrue ==
  \A t \in Succeeded :
    /\ reply[t] \subseteq lines[found[t]]
    /\ seen[t] # "draft" => seen[t] = status[found[t]]
    /\ found[t] = t => reply[t] = LinesOf[body[t]]

\* A movement has at most one movement.create audit row, none before all of its
\* lines are there, although its key may be used again and again.
AuditedOnce ==
  \A m \in Movements :
    /\ audit[m] <= 1
    /\ audit[m] = 1 => lines[m] = LinesOf[body[m]]

\* Create "inserts a draft movement and its lines (same DB session / tx via ctx)"
\* (CreateMovementInput): no confirmation and no success, be it of a replay, is
\* about a movement with some of its lines missing.
NothingHalfCreated ==
  /\ \A m \in Movements : status[m] = "confirmed" => applied[m] = LinesOf[body[m]]
  /\ \A t \in Succeeded : reply[t] = LinesOf[body[t]]
=============================================================================
