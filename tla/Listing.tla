------------------------------ MODULE Listing ------------------------------
(***************************************************************************)
(* A list of the inventory service read page by page while it changes.     *)
(*                                                                         *)
(* Every list query (audit log, movements, categories, products,           *)
(* warehouses) is two statements outside any transaction: SELECT count of  *)
(* the rows, then the page by OFFSET and LIMIT in an order made total by   *)
(* `id ASC`.  The client goes on while page < total_pages of the last      *)
(* answer.  The answers of the catalogue lists are kept in Redis per page  *)
(* and dropped after each write.  The activity stream polls the first row  *)
(* of the audit log.                                                       *)
(*                                                                         *)
(* result is the sequence of the rows that match the filters, in the order *)
(* of the query; what writes rows is in the other modules, here it is      *)
(* where a row enters, leaves or moves.                                    *)
(*                                                                         *)
(* Definitions marked FAULTY are not part of the specification: each is    *)
(* the one after it with a plausible slip.                                 *)
(***************************************************************************)
EXTENDS Naturals, SequencesExt

CONSTANTS
  Rows,        \* rows of the table that can match the filters
  Start,       \* the list at the start
  Readers,     \* clients that go through the pages
  Followed,    \* the clients whose history is kept
  Kinds,       \* the kinds of list to consider
  Per,         \* rows of a page, after pagination.Normalize
  MaxChanges,  \* bound on the changes of the list
  None

ASSUME ListingAssumption ==
  /\ Per \in Nat \ {0}
  /\ MaxChanges \in Nat
  /\ Kinds \subseteq {"audit", "drafts", "by status", "catalog"}
  /\ IsFiniteSet(Rows) /\ Rows # {}
  /\ None \notin Rows
  /\ Followed \subseteq Readers
  /\ Start \in Seq(Rows)
  /\ \A i, j \in DOMAIN Start : Start[i] = Start[j] => i = j

(***************************************************************************)
(* What can happen to a list: audit rows only enter (nothing updates or    *)
(* deletes them); movements filtered by status enter and leave, sorted by  *)
(* status they move; a catalogue row is created, deleted, restored and     *)
(* renamed.                                                                *)
(***************************************************************************)
MayChange ==
  [k \in {"audit", "drafts", "by status", "catalog"} |->
     CASE k = "audit" -> {"enter"}
       [] k = "drafts" -> {"enter", "leave"}
       [] k = "by status" -> {"enter", "move"}
       [] k = "catalog" -> {"enter", "leave", "move"}]

VARIABLES
  kind,      \* the kind of list followed
  result,    \* the rows of the list, in the order of the query
  gone,      \* rows that left the list
  changes,   \* number of changes so far
  cache,     \* cache[p]: the answer kept for page p, None if there is none
  unflushed, \* writes committed whose DeletePattern is still to come
  reader,    \* the clients, with the history of what changed behind them
  stream     \* the activity stream: connected, and the rows it told

vars == <<kind, result, gone, changes, cache, unflushed, reader, stream>>

Positions == 1 .. Cardinality(Rows)
Lists == UNION {[1 .. n -> Rows] : n \in 0 .. Cardinality(Rows)}
Pages == 1 .. Cardinality(Rows)
Answers == [total : Nat, items : Lists]
Steps == {"idle", "lookup", "find", "keep", "done"}
Risks == {"pulled", "pushed", "crossed", "raced", "stale"}

(* ComputeTotalPages: the number of the last page, 0 for an empty list.    *)
TotalPages(total) == (total + Per - 1) \div Per

(* FAULTY: a page starts one row late.                                     *)
PageLate(list, page) ==
  SubSeq(list, (page - 1) * Per + 2,
         IF page * Per + 1 < Len(list) THEN page * Per + 1 ELSE Len(list))

(* OFFSET (page - 1) * per LIMIT per.                                      *)
Page(list, page) ==
  SubSeq(list, (page - 1) * Per + 1,
         IF page * Per < Len(list) THEN page * Per ELSE Len(list))

IsDistinct(list) == \A i, j \in DOMAIN list : list[i] = list[j] => i = j

Idle == [pc |-> "idle", page |-> 1, total |-> 0, items |-> <<>>,
         mark |-> [row \in Rows |-> "none"], risks |-> {}]

Init ==
  /\ kind \in Kinds
  /\ result = Start
  /\ gone = {}
  /\ changes = 0
  /\ cache = [p \in Pages |-> None]
  /\ unflushed = 0
  /\ reader = [r \in Readers |-> Idle]
  /\ stream = [up |-> FALSE, told |-> <<>>]

----------------------------------------------------------------------------
(***************************************************************************)
(* Changes of the list.  A change is committed by a transaction of another *)
(* module at any moment; created_at is set before the commit and the sort  *)
(* columns are free, so a row may enter anywhere.  A catalogue write drops *)
(* the kept pages afterwards.                                              *)
(***************************************************************************)

(* How many positions of the list a reader has behind it.                  *)
Behind(c) ==
  CASE c.pc = "keep" -> c.page * Per
    [] c.pc \in {"lookup", "find"} -> (c.page - 1) * Per
    [] OTHER -> 0

Changed(way) ==
  /\ way \in MayChange[kind]
  /\ changes < MaxChanges
  /\ changes' = changes + 1
  /\ unflushed' = IF kind = "catalog" THEN unflushed + 1 ELSE unflushed
  /\ UNCHANGED <<kind, cache, stream>>

(* History: what a change did to a client in the middle of its pages.  A   *)
(* row that leaves is no longer one of those that were there all the time. *)
Disturbed(c, risk, lost) ==
  [c EXCEPT !.mark = [row \in Rows |-> IF row \in lost THEN "none" ELSE @[row]],
            !.risks = @ \cup risk]

Noted(Risk(_), lost) ==
  reader' = [r \in Readers |->
    IF r \notin Followed \/ reader[r].pc \in {"idle", "done"} THEN reader[r]
    ELSE Disturbed(reader[r], Risk(reader[r]), lost)]

Enter(row, i) ==
  /\ row \notin ToSet(result)
  /\ kind = "catalog" \/ row \notin gone
  /\ i \in 1 .. Len(result) + 1
  /\ result' = InsertAt(result, i, row)
  /\ Noted(LAMBDA c : (IF i <= Behind(c) THEN {"pushed"} ELSE {})
                        \cup (IF c.pc = "find" THEN {"raced"} ELSE {}), {})
  /\ Changed("enter")
  /\ UNCHANGED gone

Leave(i) ==
  /\ i \in DOMAIN result
  /\ result' = RemoveAt(result, i)
  /\ gone' = gone \cup {result[i]}
  /\ Noted(LAMBDA c : IF i <= Behind(c) THEN {"pulled"} ELSE {}, {result[i]})
  /\ Changed("leave")

Move(i, j) ==
  /\ i \in DOMAIN result
  /\ j \in DOMAIN result \ {i}
  /\ result' = InsertAt(RemoveAt(result, i), j, result[i])
  /\ Noted(LAMBDA c : IF (i <= Behind(c)) # (j <= Behind(c)) THEN {"crossed"}
                                                              ELSE {}, {})
  /\ Changed("move")
  /\ UNCHANGED gone

(* DeletePattern after the commit of a catalogue write.  A deletion that   *)
(* fails is ignored: it is one that has not been taken.                    *)
Invalidate ==
  /\ unflushed > 0
  /\ unflushed' = unflushed - 1
  /\ cache' = [p \in Pages |-> None]
  /\ UNCHANGED <<kind, result, gone, changes, reader, stream>>

----------------------------------------------------------------------------
(***************************************************************************)
(* A client and the list query.                                            *)
(***************************************************************************)

Goto(r, c) ==
  /\ reader' = [reader EXCEPT ![r] = c]
  /\ UNCHANGED <<kind, result, gone, changes, unflushed, stream>>

(* History: a row that was there from the start, when a page shows it.     *)
Again == [none |-> "none", owed |-> "once", once |-> "twice", twice |-> "twice"]

(* The client has the answer for its page: it asks for the next one while  *)
(* meta.pagination says there is one.                                      *)
Turned(c, answer) ==
  LET more == c.page < TotalPages(answer.total)
  IN [c EXCEPT !.mark = [row \in Rows |-> IF row \in ToSet(answer.items)
                                            THEN Again[@[row]] ELSE @[row]],
               !.total = 0, !.items = <<>>,
               !.page = IF more THEN @ + 1 ELSE 1,
               !.pc = IF more THEN "lookup" ELSE "done"]

Ask(r) ==
  /\ reader[r].pc = "idle"
  /\ Goto(r, [reader[r] EXCEPT !.pc = "lookup",
             !.mark = [row \in Rows |->
                         IF r \in Followed /\ row \in ToSet(result)
                         THEN "owed" ELSE "none"]])
  /\ UNCHANGED cache

(* What the two statements would answer if nothing came between them.      *)
Current(page) == [total |-> Len(result), items |-> Page(result, page)]

Hit(r) ==
  LET c == reader[r]
      kept == cache[c.page]
  IN /\ c.pc = "lookup"
     /\ kept # None
     /\ Goto(r, [Turned(c, kept) EXCEPT
                   !.risks = @ \cup IF r \in Followed /\ kept # Current(c.page)
                                     THEN {"stale"} ELSE {}])
     /\ UNCHANGED cache

(* The first statement, when the list keeps no pages, the page was not     *)
(* kept or has reached its time to live, or Redis does not answer.         *)
Count(r) ==
  /\ reader[r].pc = "lookup"
  /\ Goto(r, [reader[r] EXCEPT !.pc = "find", !.total = Len(result)])
  /\ UNCHANGED cache

(* FAULTY: every list keeps its pages, also those no write drops.          *)
FindKept(r) ==
  LET c == reader[r]
  IN /\ c.pc = "find"
     /\ Goto(r, [c EXCEPT !.pc = "keep", !.items = Page(result, c.page)])
     /\ UNCHANGED cache

Find(r) ==
  LET c == reader[r]
      items == Page(result, c.page)
  IN /\ c.pc = "find"
     /\ Goto(r, IF kind = "catalog"
                THEN [c EXCEPT !.pc = "keep", !.items = items]
                ELSE Turned(c, [total |-> c.total, items |-> items]))
     /\ UNCHANGED cache

(* The answer is put in Redis; a failure to do so is ignored.              *)
Keep(r) ==
  LET c == reader[r]
      answer == [total |-> c.total, items |-> c.items]
  IN /\ c.pc = "keep"
     /\ Goto(r, Turned(c, answer))
     /\ cache' \in {[cache EXCEPT ![c.page] = answer], cache}

----------------------------------------------------------------------------
(***************************************************************************)
(* The activity stream: ListAuditLogs with page 1 and one row, at the      *)
(* connection and at each tick; a failed query and an empty log tell       *)
(* nothing.                                                                *)
(***************************************************************************)

Newest == IF result = <<>> THEN None ELSE result[1]

(* FAULTY: the oldest row, as of a list in ascending order.                *)
PollOldest(st) ==
  IF result = <<>> \/ (st.told # <<>> /\ Last(st.told) = Last(result))
  THEN st
  ELSE [st EXCEPT !.told = Append(@, Last(result))]

(* FAULTY: what was told once is never looked at again.                    *)
PollOnce(st) ==
  IF Newest = None \/ st.told # <<>>
  THEN st
  ELSE [st EXCEPT !.told = Append(@, Newest)]

Poll(st) ==
  IF Newest = None \/ (st.told # <<>> /\ Last(st.told) = Newest)
  THEN st
  ELSE [st EXCEPT !.told = Append(@, Newest)]

Streaming(st) ==
  /\ stream' = st
  /\ UNCHANGED <<kind, result, gone, changes, cache, unflushed, reader>>

Connect ==
  /\ kind = "audit"
  /\ ~stream.up
  /\ stream.told = <<>>
  /\ Streaming([Poll(stream) EXCEPT !.up = TRUE])

Tick ==
  /\ stream.up
  /\ Poll(stream) # stream
  /\ Streaming(Poll(stream))

Disconnect ==
  /\ stream.up
  /\ Streaming([stream EXCEPT !.up = FALSE])

----------------------------------------------------------------------------
Change ==
  \/ \E row \in Rows, i \in Positions : Enter(row, i)
  \/ \E i \in Positions : Leave(i)
  \/ \E i, j \in Positions : Move(i, j)

Read(r) == Ask(r) \/ Hit(r) \/ Count(r) \/ Find(r) \/ Keep(r)

Next ==
  \/ Change
  \/ Invalidate
  \/ \E r \in Readers : Read(r)
  \/ Connect \/ Tick \/ Disconnect

Spec == Init /\ [][Next]_vars

(* The ticker fires every five seconds, and the query of a tick does not   *)
(* fail for ever.                                                          *)
FairSpec == Spec /\ WF_vars(Tick)

----------------------------------------------------------------------------
(***************************************************************************)
(* Properties                                                              *)
(***************************************************************************)

(* The types of the variables; a kept page is a list of the catalogue.     *)
TypeOK ==
  /\ kind \in Kinds
  /\ result \in Lists /\ IsDistinct(result)
  /\ gone \subseteq Rows
  /\ changes \in 0 .. MaxChanges
  /\ \A p \in Pages : cache[p] = None \/ (kind = "catalog" /\ cache[p] \in Answers)
  /\ unflushed \in 0 .. changes
  /\ \A r \in Readers :
       /\ reader[r].pc \in Steps
       /\ reader[r].page \in Pages
       /\ reader[r].total \in 0 .. Cardinality(Rows)
       /\ Len(reader[r].items) <= Per
       /\ reader[r].mark \in [Rows -> DOMAIN Again]
       /\ reader[r].risks \subseteq Risks
  /\ stream.up \in BOOLEAN
  /\ ToSet(stream.told) \subseteq Rows

(* What a client that went through all the pages may miss or see twice of  *)
(* the rows that matched all the time.  A row is missed only if a row left *)
(* the pages already read (the rest is pulled up over the page boundary),  *)
(* a row moved across that boundary, a row entered between the count and   *)
(* the page (total_pages is one too few), or an out-of-date kept page was  *)
(* served.  A row comes twice only if a row entered the pages already      *)
(* read, moved across, or a kept page was out of date.  In a list that     *)
(* only grows and keeps no pages, the audit log, only the window between   *)
(* the two statements loses a row.                                         *)
TraversalIsExplained ==
  \A r \in Readers :
    LET c == reader[r]
        missed == \E row \in Rows : c.mark[row] = "owed"
        twice == \E row \in Rows : c.mark[row] = "twice"
    IN c.pc = "done" =>
         /\ missed => c.risks \cap {"pulled", "crossed", "raced", "stale"} # {}
         /\ twice => c.risks \cap {"pushed", "crossed", "stale"} # {}

(* The stream tells no activity twice and never goes back: of two rows it  *)
(* told, the later is nearer the front of the log.  What commits behind    *)
(* the front, or is overtaken between two ticks, is never told.            *)
ActivityGoesForward ==
  \A i, j \in DOMAIN stream.told :
    i < j => \E a, b \in DOMAIN result :
               a < b /\ result[a] = stream.told[j] /\ result[b] = stream.told[i]

(* Whatever is at the front of the audit log is told to a connected stream *)
(* unless a newer row takes its place or the client disconnects.           *)
EventuallyToldNewest ==
  \A row \in Rows :
    (stream.up /\ Newest = row)
      ~> (~stream.up \/ Newest # row \/ row \in ToSet(stream.told))

=============================================================================
