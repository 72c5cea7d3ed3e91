----------------------------- MODULE ReadProofs -----------------------------
(***************************************************************************)
(* What holds of the two models of what readers are shown, Listing and     *)
(* ViewCache: a client that goes through all the pages of a list misses or *)
(* repeats a row only for a reason that its history names; the activity    *)
(* stream never goes back; a stale view is explained.  For any table, any  *)
(* number of clients and requests, any size of the pages and any number of *)
(* changes.                                                                *)
(*                                                                         *)
(* Listing, the argument.  Typed has the types of the variables, with the  *)
(* fields of the records and with the answers that are kept.  Traversals   *)
(* follows a client: as long as none of the risks that lose a row has come *)
(* up, what it has still to see lies behind the pages it read and          *)
(* total_pages will not stop it before (NoneMissed); as long as none of    *)
(* the risks that repeat a row has, what it has seen lies in those pages   *)
(* (NoneTwice).  A change of the list that moves a row over the boundary   *)
(* adds a risk (ChangingTraversals, from what insertions and removals do   *)
(* to positions); a client that turns the page moves the boundary over     *)
(* exactly the rows it was shown (FoundExplained, TurnedExplained).  The   *)
(* stream is older than every row in front of it, and the log it reads     *)
(* only grows (ToldInOrder).                                               *)
(*                                                                         *)
(* ViewCache, the argument.  The property is inductive together with the   *)
(* types, whose last conjuncts it uses: a reader has a copy exactly when   *)
(* it is about to put it, and only stale entries are in doubt.  What       *)
(* decides is a fact about the views and the writers that has no state in  *)
(* it (WritersForget): a writer other than CreateWarehouse drops every     *)
(* view that reads a table it writes.                                      *)
(***************************************************************************)
EXTENDS Listing, ViewCache, FiniteSetTheorems, TLAPS

----------------------------------------------------------------------------
\* The types of the variables, with the records and functions that TypeOK takes for
\* granted, and with what holds of the answers that are kept.
Totals == 0 .. Cardinality(Rows)
PageLists == {list \in Lists : Len(list) <= Per}
KeptAnswers == [total : Totals, items : PageLists]
Clients == [pc : Steps, page : Pages, total : Totals, items : PageLists,
            mark : [Rows -> DOMAIN Again], risks : SUBSET Risks]

Streams == [up : BOOLEAN, told : Seq(Rows)]

ListTyped ==
  /\ kind \in Kinds
  /\ result \in Lists /\ IsDistinct(result)
  /\ gone \subseteq Rows
  /\ changes \in 0 .. MaxChanges
  /\ unflushed \in 0 .. changes

ReadTyped ==
  /\ cache \in [Pages -> {None} \cup KeptAnswers]
  /\ reader \in [Readers -> Clients]
  /\ kind # "catalog" => /\ \A p \in Pages : cache[p] = None
                         /\ \A r \in Readers : reader[r].pc # "keep"

StreamTyped ==
  /\ stream \in Streams
  /\ stream.up \/ stream.told # <<>> => kind = "audit"

Typed == ListTyped /\ ReadTyped /\ StreamTyped

\* What was told is in the log, in the order in which it was told.
ToldInOrder ==
  /\ \A i \in DOMAIN stream.told : \E a \in DOMAIN result : result[a] = stream.told[i]
  /\ ActivityGoesForward

----------------------------------------------------------------------------
\* A row is in the list, behind the first n positions or among them.
Ahead(list, row, n) == \E i \in DOMAIN list : list[i] = row /\ i > n
Passed(list, row, n) == \E i \in DOMAIN list : list[i] = row /\ i <= n

\* Of a client that nothing has kept from seeing a row: what it has still to see lies
\* ahead, and total_pages will not stop it before.
NoneMissed(list, c) ==
  /\ c.pc \in {"lookup", "find"} =>
       \A row \in Rows : c.mark[row] = "owed" => Ahead(list, row, Behind(c))
  /\ c.pc = "find" => Len(list) <= c.total
  /\ c.pc = "keep" => \A row \in Rows : c.mark[row] = "owed" =>
       \/ row \in ToSet(c.items)
       \/ c.page < TotalPages(c.total) /\ Ahead(list, row, Behind(c))
  /\ c.pc = "done" => \A row \in Rows : c.mark[row] # "owed"

\* Of a client to which nothing has shown a row again: what it has seen is behind it.
NoneTwice(list, c) ==
  /\ \A row \in Rows : c.mark[row] # "twice"
  /\ c.pc \in {"lookup", "find", "keep"} =>
       \A row \in Rows : c.mark[row] = "once" => Passed(list, row, Behind(c))
  /\ c.pc = "keep" => \A row \in ToSet(c.items) :
       c.mark[row] # "once" /\ (c.mark[row] = "owed" => Passed(list, row, Behind(c)))

Missing == {"pulled", "crossed", "raced", "stale"}
Repeating == {"pushed", "crossed", "stale"}

Explained(list, c) ==
  /\ c.risks \cap Missing = {} => NoneMissed(list, c)
  /\ c.risks \cap Repeating = {} => NoneTwice(list, c)

Traversal(r) ==
  /\ reader[r].pc = "idle" => reader[r].page = 1
  /\ IF r \in Followed /\ reader[r].pc # "idle"
       THEN Explained(result, reader[r])
       ELSE \A row \in Rows : reader[r].mark[row] = "none"

Traversals == \A r \in Readers : Traversal(r)

----------------------------------------------------------------------------
\* Pages: their last number, their bounds and what is on them.
LEMMA PerPositive == Per \in Nat /\ Per >= 1
<1>1. Per \in Nat \ {0}
  BY ListingAssumption
<1>2. QED
  BY <1>1

\* Multiples of the size of a page.
LEMMA Multiples ==
  ASSUME NEW a \in Nat, NEW b \in Nat, a <= b
  PROVE  a * Per \in Nat /\ b * Per \in Nat /\ a * Per <= b * Per /\ a <= a * Per
<1>1. Per \in Nat /\ Per >= 1
  BY PerPositive
<1>2. PICK d \in Nat : b = a + d
  <2>1. b - a \in Nat /\ b = a + (b - a)
    OBVIOUS
  <2>2. QED
    BY <2>1
<1>3. PICK e \in Nat : Per = 1 + e
  <2>1. Per - 1 \in Nat /\ Per = 1 + (Per - 1)
    BY <1>1
  <2>2. QED
    BY <2>1
<1>4. a * Per \in Nat /\ d * Per \in Nat /\ a * e \in Nat
  BY <1>1
<1>5. b * Per = a * Per + d * Per
  BY <1>1, <1>2
<1>6. a * Per = a + a * e
  BY <1>3
<1>7. QED
  BY <1>4, <1>5, <1>6

\* The number of the last page is no more than that of the rows, and the pages up to it
\* have them all.
LEMMA LastPage ==
  ASSUME NEW n \in Nat
  PROVE  /\ TotalPages(n) \in Nat
         /\ TotalPages(n) <= n
         /\ \A p \in Nat : TotalPages(n) <= p => n <= p * Per
<1> DEFINE q == TotalPages(n)
<1>1. Per \in Nat /\ Per >= 1 /\ n + Per - 1 \in Nat
  BY PerPositive
<1>2. /\ q \in Nat
      /\ q * Per <= n + Per - 1
      /\ n + Per - 1 < q * Per + Per
  BY <1>1 DEF TotalPages
<1> HIDE DEF q
<1>3. n <= q * Per
  BY <1>1, <1>2
<1>4. ASSUME NEW p \in Nat, q <= p PROVE n <= p * Per
  BY <1>2, <1>3, <1>4, Multiples
<1>5. q <= n
  <2> SUFFICES ASSUME n + 1 <= q PROVE FALSE
    BY <1>2
  <2>1. (n + 1) * Per <= q * Per /\ n <= n * Per /\ n * Per \in Nat
    BY <1>2, Multiples
  <2>2. (n + 1) * Per = n * Per + Per
    BY <1>1
  <2>3. QED
    BY <1>1, <1>2, <2>1, <2>2
<1>6. QED
  BY <1>2, <1>4, <1>5 DEF q

\* The table is finite, and has a row.
LEMMA RowCount == IsFiniteSet(Rows) /\ Cardinality(Rows) \in Nat /\ Cardinality(Rows) >= 1
<1>1. IsFiniteSet(Rows) /\ Rows # {}
  BY ListingAssumption
<1>2. QED
  BY <1>1, FS_CardinalityType, FS_EmptySet

\* A list without repetitions is no longer than the table.
LEMMA DistinctIsShort ==
  ASSUME NEW q \in Seq(Rows), IsDistinct(q)
  PROVE  q \in Lists
<1> DEFINE n == Len(q)
<1>1. n \in Nat /\ q \in [1 .. n -> Rows]
  OBVIOUS
<1> HIDE DEF n
<1>2. IsFiniteSet(1 .. n) /\ Cardinality(1 .. n) = n
  BY <1>1, FS_Interval
<1>3. n <= Cardinality(Rows)
  <2>1. q \in Injection(1 .. n, Rows)
    BY <1>1 DEF Injection, IsInjective, IsDistinct
  <2>2. Cardinality(1 .. n) <= Cardinality(Rows)
    BY <2>1, RowCount, FS_Injection
  <2>3. QED
    BY <1>2, <2>2
<1>4. QED
  BY <1>1, <1>3, RowCount DEF Lists

\* A list is a sequence of rows, no longer than the table.
LEMMA ListIsSeq ==
  ASSUME NEW q \in Lists
  PROVE  q \in Seq(Rows) /\ Len(q) \in Totals
<1>1. PICK n \in 0 .. Cardinality(Rows) : q \in [1 .. n -> Rows]
  BY DEF Lists
<1>2. QED
  BY <1>1, RowCount DEF Totals

\* What is on a page.
LEMMA PageHas ==
  ASSUME NEW q \in Lists, NEW p \in Pages
  PROVE  /\ Page(q, p) \in PageLists
         /\ (p - 1) * Per \in Nat /\ p * Per = (p - 1) * Per + Per
         /\ \A row : row \in ToSet(Page(q, p)) <=>
              \E k \in DOMAIN q : q[k] = row /\ (p - 1) * Per < k /\ k <= p * Per
<1> DEFINE a == (p - 1) * Per
           b == IF p * Per < Len(q) THEN p * Per ELSE Len(q)
           items == Page(q, p)
<1>1. p \in Nat /\ p >= 1 /\ p - 1 \in Nat
  BY RowCount DEF Pages
<1>2. a \in Nat /\ p * Per = a + Per
  BY <1>1, PerPositive
<1>3. items = SubSeq(q, a + 1, b)
  BY DEF Page
<1>4. q \in Seq(Rows) /\ Len(q) \in Nat /\ Len(q) <= Cardinality(Rows)
  BY ListIsSeq, RowCount DEF Totals
<1> HIDE DEF a, items
<1>5. b \in Nat /\ b <= Len(q) /\ b <= a + Per
  BY <1>2, <1>4, PerPositive
<1>6. \A k \in DOMAIN q : k <= p * Per <=> k <= b
  BY <1>2, <1>4, PerPositive
<1> HIDE DEF b
<1>7. /\ items \in Seq(Rows)
      /\ Len(items) = IF a + 1 <= b THEN b - a ELSE 0
      /\ \A k \in 1 .. Len(items) : items[k] = q[a + k]
  BY <1>2, <1>3, <1>4, <1>5
<1>8. items \in PageLists
  <2>1. Len(items) \in 0 .. Cardinality(Rows) /\ Len(items) <= Per
    BY <1>2, <1>4, <1>5, <1>7, RowCount, PerPositive
  <2>2. items \in [1 .. Len(items) -> Rows]
    BY <1>7
  <2>3. QED
    BY <2>1, <2>2 DEF PageLists, Lists
<1>9. ASSUME NEW row
      PROVE  row \in ToSet(items) <=> \E k \in DOMAIN q : q[k] = row /\ a < k /\ k <= p * Per
  <2>1. ASSUME row \in ToSet(items)
        PROVE  \E k \in DOMAIN q : q[k] = row /\ a < k /\ k <= p * Per
    <3>1. PICK i \in 1 .. Len(items) : items[i] = row
      BY <1>7, <2>1 DEF ToSet
    <3>2. a + i \in DOMAIN q /\ a < a + i /\ a + i <= b
      BY <1>2, <1>4, <1>5, <1>7, <3>1
    <3>3. q[a + i] = row
      BY <1>7, <3>1
    <3>4. QED
      BY <1>6, <3>2, <3>3
  <2>2. ASSUME NEW k \in DOMAIN q, q[k] = row, a < k, k <= p * Per
        PROVE  row \in ToSet(items)
    <3>1. k - a \in 1 .. Len(items) /\ a + (k - a) = k
      BY <1>2, <1>4, <1>5, <1>6, <1>7, <2>2
    <3>2. items[k - a] = row
      BY <1>7, <2>2, <3>1
    <3>3. QED
      BY <1>7, <3>1, <3>2 DEF ToSet
  <2>3. QED
    BY <2>1, <2>2
<1>10. QED
  BY <1>2, <1>8, <1>9 DEF a, items

\* What InsertAt returns.
LEMMA Inserted ==
  ASSUME NEW q \in Seq(Rows), NEW i \in 1 .. Len(q) + 1, NEW x \in Rows
  PROVE  /\ InsertAt(q, i, x) \in Seq(Rows)
         /\ Len(InsertAt(q, i, x)) = Len(q) + 1
         /\ \A k \in 1 .. Len(q) + 1 :
              InsertAt(q, i, x)[k] = IF k < i THEN q[k] ELSE IF k = i THEN x ELSE q[k - 1]
<1> DEFINE front == SubSeq(q, 1, i - 1)
           back == SubSeq(q, i, Len(q))
           first == front \o <<x>>
<1>1. /\ front \in Seq(Rows) /\ Len(front) = i - 1
      /\ \A k \in 1 .. i - 1 : front[k] = q[k]
  OBVIOUS
<1>2. /\ back \in Seq(Rows) /\ Len(back) = Len(q) - i + 1
      /\ \A k \in 1 .. Len(q) - i + 1 : back[k] = q[i + k - 1]
  OBVIOUS
<1> HIDE DEF front, back
<1>3. /\ first \in Seq(Rows) /\ Len(first) = i
      /\ \A k \in 1 .. i : first[k] = IF k < i THEN q[k] ELSE x
  BY <1>1
<1>4. InsertAt(q, i, x) = first \o back
  BY DEF InsertAt, front, back
<1> HIDE DEF first
<1>5. /\ first \o back \in Seq(Rows)
      /\ Len(first \o back) = Len(q) + 1
  BY <1>2, <1>3
<1>6. \A k \in 1 .. Len(q) + 1 :
        (first \o back)[k] = IF k <= i THEN first[k] ELSE back[k - i]
  <2>1. Len(first) = i /\ Len(back) = Len(q) - i + 1 /\ Len(q) \in Nat /\ i \in Nat
    BY <1>2, <1>3
  <2>2. \A k \in 1 .. Len(first) + Len(back) :
          (first \o back)[k] = IF k <= Len(first) THEN first[k] ELSE back[k - Len(first)]
    BY <1>2, <1>3
  <2>3. QED
    BY <2>1, <2>2
<1>7. \A k \in 1 .. Len(q) + 1 :
        (first \o back)[k] = IF k < i THEN q[k] ELSE IF k = i THEN x ELSE q[k - 1]
  BY <1>2, <1>3, <1>6
<1>8. QED
  BY <1>4, <1>5, <1>7

\* What RemoveAt returns.
LEMMA Removed ==
  ASSUME NEW q \in Seq(Rows), NEW i \in 1 .. Len(q)
  PROVE  /\ RemoveAt(q, i) \in Seq(Rows)
         /\ Len(RemoveAt(q, i)) = Len(q) - 1
         /\ \A k \in 1 .. Len(q) - 1 :
              RemoveAt(q, i)[k] = IF k < i THEN q[k] ELSE q[k + 1]
<1> DEFINE front == SubSeq(q, 1, i - 1)
           back == SubSeq(q, i + 1, Len(q))
<1>1. /\ front \in Seq(Rows) /\ Len(front) = i - 1
      /\ \A k \in 1 .. i - 1 : front[k] = q[k]
  OBVIOUS
<1>2. /\ back \in Seq(Rows) /\ Len(back) = Len(q) - i
      /\ \A k \in 1 .. Len(q) - i : back[k] = q[i + k]
  OBVIOUS
<1>3. RemoveAt(q, i) = front \o back
  BY DEF RemoveAt
<1> HIDE DEF front, back
<1>4. /\ front \o back \in Seq(Rows)
      /\ Len(front \o back) = Len(q) - 1
  BY <1>1, <1>2
<1>5. \A k \in 1 .. Len(q) - 1 :
        (front \o back)[k] = IF k < i THEN front[k] ELSE back[k - (i - 1)]
  BY <1>1, <1>2
<1>6. \A k \in 1 .. Len(q) - 1 :
        (front \o back)[k] = IF k < i THEN q[k] ELSE q[k + 1]
  <2> TAKE k \in 1 .. Len(q) - 1
  <2>1. (front \o back)[k] = IF k < i THEN front[k] ELSE back[k - (i - 1)]
    BY <1>5
  <2>2. CASE k < i
    <3>1. k \in 1 .. i - 1
      BY <2>2
    <3>2. QED
      BY <1>1, <2>1, <2>2, <3>1
  <2>3. CASE ~(k < i)
    <3>1. k - (i - 1) \in 1 .. Len(q) - i /\ i + (k - (i - 1)) = k + 1
      BY <2>3
    <3>2. back[k - (i - 1)] = q[k + 1]
      BY <1>2, <3>1
    <3>3. QED
      BY <2>1, <2>3, <3>2
  <2>4. QED
    BY <2>2, <2>3
<1>7. QED
  BY <1>3, <1>4, <1>6

----------------------------------------------------------------------------
\* What a change does to the rows on either side of position n.
LEMMA InsertMoves ==
  ASSUME NEW q \in Seq(Rows), NEW i \in 1 .. Len(q) + 1, NEW x \in Rows, NEW n \in Nat,
         NEW s, s = InsertAt(q, i, x)
  PROVE  /\ s \in Seq(Rows) /\ Len(s) = Len(q) + 1
         /\ \A row : Ahead(q, row, n) => Ahead(s, row, n)
         /\ \A row : i <= n + 1 /\ Ahead(q, row, n) => Ahead(s, row, n + 1)
         /\ \A row : i > n /\ Passed(q, row, n) => Passed(s, row, n)
         /\ \A row : Passed(q, row, n) => Passed(s, row, n + 1)
         /\ IF i > n THEN Ahead(s, x, n) ELSE Passed(s, x, n)
<1>1. /\ s \in Seq(Rows) /\ Len(s) = Len(q) + 1 /\ s[i] = x /\ i \in DOMAIN s
      /\ \A k \in DOMAIN q : k < i => k \in DOMAIN s /\ s[k] = q[k]
      /\ \A k \in DOMAIN q : k >= i => k + 1 \in DOMAIN s /\ s[k + 1] = q[k]
  <2>1. /\ s \in Seq(Rows) /\ Len(s) = Len(q) + 1
        /\ \A k \in 1 .. Len(q) + 1 :
             s[k] = IF k < i THEN q[k] ELSE IF k = i THEN x ELSE q[k - 1]
    BY Inserted
  <2>2. DOMAIN s = 1 .. Len(q) + 1 /\ DOMAIN q = 1 .. Len(q) /\ Len(q) \in Nat
    BY <2>1
  <2>3. QED
    BY <2>1, <2>2
<1>2. ASSUME NEW row, Ahead(q, row, n)
      PROVE  Ahead(s, row, n) /\ (i <= n + 1 => Ahead(s, row, n + 1))
  <2>1. PICK k \in DOMAIN q : q[k] = row /\ k > n
    BY <1>2 DEF Ahead
  <2>2. CASE k < i
    BY <1>1, <2>1, <2>2 DEF Ahead
  <2>3. CASE k >= i
    BY <1>1, <2>1, <2>3 DEF Ahead
  <2>4. QED
    BY <2>2, <2>3
<1>3. ASSUME NEW row, Passed(q, row, n)
      PROVE  Passed(s, row, n + 1) /\ (i > n => Passed(s, row, n))
  <2>1. PICK k \in DOMAIN q : q[k] = row /\ k <= n
    BY <1>3 DEF Passed
  <2>2. CASE k < i
    BY <1>1, <2>1, <2>2 DEF Passed
  <2>3. CASE k >= i
    BY <1>1, <2>1, <2>3 DEF Passed
  <2>4. QED
    BY <2>2, <2>3
<1>4. IF i > n THEN Ahead(s, x, n) ELSE Passed(s, x, n)
  BY <1>1 DEF Ahead, Passed
<1>5. QED
  BY <1>1, <1>2, <1>3, <1>4

\* Inserting a row that is not there repeats none.
LEMMA InsertDistinct ==
  ASSUME NEW q \in Seq(Rows), NEW i \in 1 .. Len(q) + 1, NEW x \in Rows,
         IsDistinct(q), x \notin ToSet(q)
  PROVE  IsDistinct(InsertAt(q, i, x))
<1> DEFINE s == InsertAt(q, i, x)
           from(k) == IF k < i THEN k ELSE k - 1
<1>1. /\ s \in Seq(Rows) /\ DOMAIN s = 1 .. Len(q) + 1 /\ s[i] = x
      /\ \A k \in DOMAIN s : k # i => from(k) \in DOMAIN q /\ s[k] = q[from(k)]
  <2> HIDE DEF s
  <2>1. /\ s \in Seq(Rows) /\ Len(s) = Len(q) + 1
        /\ \A k \in 1 .. Len(q) + 1 :
             s[k] = IF k < i THEN q[k] ELSE IF k = i THEN x ELSE q[k - 1]
    BY Inserted DEF s
  <2>2. DOMAIN s = 1 .. Len(q) + 1 /\ DOMAIN q = 1 .. Len(q) /\ Len(q) \in Nat
    BY <2>1
  <2>3. QED
    BY <2>1, <2>2
<1>2. \A k \in DOMAIN s : k # i => s[k] # x
  BY <1>1 DEF ToSet
<1>3. \A k, l \in DOMAIN s : k # i /\ l # i /\ from(k) = from(l) => k = l
  BY <1>1
<1> HIDE DEF s, from
<1>4. QED
  BY <1>1, <1>2, <1>3 DEF IsDistinct, s

\* A removal pulls up what is behind it: the boundary at n becomes one at n - 1.
LEMMA RemoveMoves ==
  ASSUME NEW q \in Seq(Rows), NEW i \in 1 .. Len(q), NEW n \in Nat,
         NEW s, s = RemoveAt(q, i), NEW row, row # q[i]
  PROVE  /\ s \in Seq(Rows) /\ Len(s) = Len(q) - 1
         /\ i > n /\ Ahead(q, row, n) => Ahead(s, row, n)
         /\ i <= n /\ Ahead(q, row, n) => Ahead(s, row, n - 1)
         /\ Passed(q, row, n) => Passed(s, row, n)
         /\ i <= n /\ Passed(q, row, n) => Passed(s, row, n - 1)
<1>1. /\ s \in Seq(Rows) /\ Len(s) = Len(q) - 1
      /\ \A k \in DOMAIN q : k < i => k \in DOMAIN s /\ s[k] = q[k]
      /\ \A k \in DOMAIN q : k > i => k - 1 \in DOMAIN s /\ s[k - 1] = q[k]
  <2>1. /\ s \in Seq(Rows) /\ Len(s) = Len(q) - 1
        /\ \A k \in 1 .. Len(q) - 1 : s[k] = IF k < i THEN q[k] ELSE q[k + 1]
    BY Removed
  <2>2. DOMAIN s = 1 .. Len(q) - 1 /\ DOMAIN q = 1 .. Len(q) /\ Len(q) \in Nat
    BY <2>1
  <2>3. QED
    BY <2>1, <2>2
<1>2. ASSUME Ahead(q, row, n)
      PROVE  /\ i > n => Ahead(s, row, n)
             /\ i <= n => Ahead(s, row, n - 1)
  <2>1. PICK k \in DOMAIN q : q[k] = row /\ k > n /\ k # i
    BY <1>2 DEF Ahead
  <2>2. CASE k < i
    BY <1>1, <2>1, <2>2 DEF Ahead
  <2>3. CASE k > i
    BY <1>1, <2>1, <2>3 DEF Ahead
  <2>4. QED
    BY <2>1, <2>2, <2>3
<1>3. ASSUME Passed(q, row, n)
      PROVE  /\ Passed(s, row, n)
             /\ i <= n => Passed(s, row, n - 1)
  <2>1. PICK k \in DOMAIN q : q[k] = row /\ k <= n /\ k # i
    BY <1>3 DEF Passed
  <2>2. CASE k < i
    BY <1>1, <2>1, <2>2 DEF Passed
  <2>3. CASE k > i
    BY <1>1, <2>1, <2>3 DEF Passed
  <2>4. QED
    BY <2>1, <2>2, <2>3
<1>4. QED
  BY <1>1, <1>2, <1>3

\* A removal repeats none, and the row is gone.
LEMMA RemoveDistinct ==
  ASSUME NEW q \in Seq(Rows), NEW i \in 1 .. Len(q), IsDistinct(q)
  PROVE  IsDistinct(RemoveAt(q, i)) /\ q[i] \notin ToSet(RemoveAt(q, i))
<1> DEFINE s == RemoveAt(q, i)
           from(k) == IF k < i THEN k ELSE k + 1
<1>1. /\ s \in Seq(Rows)
      /\ \A k \in DOMAIN s : from(k) \in DOMAIN q /\ from(k) # i /\ s[k] = q[from(k)]
      /\ \A k, l \in DOMAIN s : from(k) = from(l) => k = l
  <2> HIDE DEF s
  <2>1. /\ s \in Seq(Rows) /\ Len(s) = Len(q) - 1
        /\ \A k \in 1 .. Len(q) - 1 : s[k] = IF k < i THEN q[k] ELSE q[k + 1]
    BY Removed DEF s
  <2>2. DOMAIN s = 1 .. Len(q) - 1 /\ DOMAIN q = 1 .. Len(q) /\ Len(q) \in Nat
    BY <2>1
  <2>3. QED
    BY <2>1, <2>2
<1> HIDE DEF s, from
<1>2. IsDistinct(s)
  BY <1>1 DEF IsDistinct
<1>3. \A k \in DOMAIN s : s[k] # q[i]
  BY <1>1 DEF IsDistinct
<1>4. QED
  BY <1>2, <1>3 DEF ToSet, s

\* A list whose rows move is one of the same rows.
LEMMA MoveDistinct ==
  ASSUME NEW q \in Seq(Rows), IsDistinct(q), NEW i \in 1 .. Len(q), NEW j \in 1 .. Len(q),
         NEW t, t = InsertAt(RemoveAt(q, i), j, q[i])
  PROVE  t \in Seq(Rows) /\ Len(t) = Len(q) /\ IsDistinct(t)
<1> DEFINE s == RemoveAt(q, i)
           x == q[i]
<1>1. x \in Rows /\ s \in Seq(Rows) /\ Len(s) = Len(q) - 1 /\ j \in 1 .. Len(s) + 1
  BY Removed
<1>2. IsDistinct(s) /\ x \notin ToSet(s)
  BY RemoveDistinct
<1>3. QED
  BY <1>1, <1>2, InsertDistinct, Inserted

\* A row that moves on one side of a boundary takes no other over it.
LEMMA MoveMoves ==
  ASSUME NEW q \in Seq(Rows), IsDistinct(q), NEW i \in 1 .. Len(q), NEW j \in 1 .. Len(q),
         NEW t, t = InsertAt(RemoveAt(q, i), j, q[i]), NEW n \in Nat, i <= n <=> j <= n, NEW row
  PROVE  /\ Ahead(q, row, n) => Ahead(t, row, n)
         /\ Passed(q, row, n) => Passed(t, row, n)
<1> DEFINE s == RemoveAt(q, i)
           x == q[i]
<1>1. x \in Rows /\ s \in Seq(Rows) /\ Len(s) = Len(q) - 1 /\ j \in 1 .. Len(s) + 1
  BY Removed
<1> HIDE DEF s, x
<1>2. CASE row = x
  <2>1. (Ahead(q, row, n) => j > n) /\ (Passed(q, row, n) => j <= n)
    BY <1>2 DEF Ahead, Passed, IsDistinct, x
  <2>2. IF j > n THEN Ahead(t, x, n) ELSE Passed(t, x, n)
    BY <1>1, InsertMoves DEF s, x
  <2>3. QED
    BY <1>2, <2>1, <2>2
<1>3. CASE row # x /\ j > n
  <2>1. /\ Ahead(q, row, n) => Ahead(s, row, n)
        /\ Passed(q, row, n) => Passed(s, row, n)
    BY <1>3, RemoveMoves DEF s, x
  <2>2. /\ Ahead(s, row, n) => Ahead(t, row, n)
        /\ Passed(s, row, n) => Passed(t, row, n)
    BY <1>1, <1>3, InsertMoves DEF s, x
  <2>3. QED
    BY <2>1, <2>2
<1>4. CASE row # x /\ j <= n
  <2>1. n - 1 \in Nat /\ j <= n - 1 + 1 /\ n - 1 + 1 = n
    BY <1>4
  <2>2. /\ Ahead(q, row, n) => Ahead(s, row, n - 1)
        /\ Passed(q, row, n) => Passed(s, row, n - 1)
    BY <1>4, RemoveMoves DEF s, x
  <2>3. /\ Ahead(s, row, n - 1) => Ahead(t, row, n - 1 + 1)
        /\ Passed(s, row, n - 1) => Passed(t, row, n - 1 + 1)
    BY <1>1, <2>1, InsertMoves DEF s, x
  <2>4. QED
    BY <2>1, <2>2, <2>3
<1>5. QED
  BY <1>1, <1>2, <1>3, <1>4

\* An insertion keeps the order of the others.
LEMMA InsertKeepsOrder ==
  ASSUME NEW q \in Seq(Rows), NEW i \in 1 .. Len(q) + 1, NEW x \in Rows,
         NEW s, s = InsertAt(q, i, x)
  PROVE  \A a, b \in DOMAIN q : a < b =>
           \E c, d \in DOMAIN s : c < d /\ s[c] = q[a] /\ s[d] = q[b]
<1>1. /\ s \in Seq(Rows) /\ Len(s) = Len(q) + 1
      /\ \A k \in 1 .. Len(q) + 1 :
           s[k] = IF k < i THEN q[k] ELSE IF k = i THEN x ELSE q[k - 1]
  <2> DEFINE t == InsertAt(q, i, x)
  <2> HIDE DEF t
  <2>1. /\ t \in Seq(Rows) /\ Len(t) = Len(q) + 1
        /\ \A k \in 1 .. Len(q) + 1 :
             t[k] = IF k < i THEN q[k] ELSE IF k = i THEN x ELSE q[k - 1]
    BY Inserted DEF t
  <2>2. QED
    BY <2>1 DEF t
<1>2. DOMAIN s = 1 .. Len(q) + 1 /\ DOMAIN q = 1 .. Len(q) /\ Len(q) \in Nat
  BY <1>1
<1> DEFINE to(k) == IF k < i THEN k ELSE k + 1
<1>3. \A k \in DOMAIN q : to(k) \in DOMAIN s /\ s[to(k)] = q[k]
  BY <1>1, <1>2
<1>4. \A a, b \in DOMAIN q : a < b => to(a) < to(b)
  BY <1>2
<1> HIDE DEF to
<1>5. QED
  BY <1>3, <1>4

----------------------------------------------------------------------------
\* What the records of the clients become.
Disturbs(c, d, risk, lost) ==
  /\ d.pc = c.pc /\ d.page = c.page /\ d.total = c.total /\ d.items = c.items
  /\ d.mark = [row \in Rows |-> IF row \in lost THEN "none" ELSE c.mark[row]]
  /\ d.risks = c.risks \cup risk

\* The fields of the record of a client that a change has disturbed.
LEMMA DisturbedFields ==
  ASSUME NEW c \in Clients, NEW risk, risk \subseteq Risks, NEW lost,
         NEW d, d = Disturbed(c, risk, lost)
  PROVE  d \in Clients /\ Disturbs(c, d, risk, lost)
<1>1. [row \in Rows |-> IF row \in lost THEN "none" ELSE c.mark[row]] \in [Rows -> DOMAIN Again]
  BY DEF Clients, Again
<1>2. c.risks \cup risk \in SUBSET Risks
  BY DEF Clients
<1>3. QED
  BY <1>1, <1>2 DEF Disturbed, Disturbs, Clients

\* The marks after the rows of a page have been seen.
Seen(mark, items) ==
  [row \in Rows |-> IF row \in ToSet(items) THEN Again[mark[row]] ELSE mark[row]]

Turns(c, d, answer) ==
  /\ IF c.page < TotalPages(answer.total)
       THEN d.pc = "lookup" /\ d.page = c.page + 1
       ELSE d.pc = "done"
  /\ d.mark = Seen(c.mark, answer.items)
  /\ d.risks = c.risks

\* The fields of the record of a client that has turned a page; the next page exists.
LEMMA TurnedFields ==
  ASSUME NEW c \in Clients, NEW answer \in KeptAnswers,
         NEW d, d = Turned(c, answer)
  PROVE  d \in Clients /\ Turns(c, d, answer)
<1> DEFINE more == c.page < TotalPages(answer.total)
           page == IF more THEN c.page + 1 ELSE 1
           place == IF more THEN "lookup" ELSE "done"
<1>1. Seen(c.mark, answer.items) \in [Rows -> DOMAIN Again]
  BY DEF Seen, Clients, Again
<1>2. page \in Pages
  <2>1. /\ answer.total \in Nat /\ answer.total <= Cardinality(Rows)
        /\ c.page \in Nat /\ c.page >= 1
    BY RowCount DEF KeptAnswers, Totals, Clients, Pages
  <2>2. TotalPages(answer.total) \in Nat /\ TotalPages(answer.total) <= answer.total
    BY <2>1, LastPage
  <2>3. QED
    BY <2>1, <2>2, RowCount DEF Pages
<1>3. place \in Steps
  BY DEF Steps
<1>4. 0 \in Totals /\ <<>> \in PageLists
  BY RowCount, PerPositive DEF Totals, PageLists, Lists
<1>5. d = [c EXCEPT !.mark = Seen(c.mark, answer.items), !.total = 0, !.items = <<>>,
                    !.page = page, !.pc = place]
  BY DEF Turned, Seen, Clients
<1> HIDE DEF page, place
<1>6. /\ d \in Clients /\ d.pc = place /\ d.page = page
      /\ d.mark = Seen(c.mark, answer.items) /\ d.risks = c.risks
  BY <1>1, <1>2, <1>3, <1>4, <1>5 DEF Clients
<1>7. QED
  BY <1>6 DEF page, place, Turns

----------------------------------------------------------------------------
\* Types.
LEMMA IdleIsClient == Idle \in Clients
<1>1. 0 \in Totals /\ <<>> \in PageLists /\ 1 \in Pages
  BY RowCount, PerPositive DEF Totals, PageLists, Lists, Pages
<1>2. [row \in Rows |-> "none"] \in [Rows -> DOMAIN Again]
  BY DEF Again
<1>3. "idle" \in Steps /\ {} \in SUBSET Risks
  BY DEF Steps
<1>4. QED
  BY <1>1, <1>2, <1>3 DEF Idle, Clients

\* The types at the start.
LEMMA InitTyped == Init => Typed
<1> SUFFICES ASSUME Init PROVE Typed
  OBVIOUS
<1>1. ListTyped
  <2>1. Start \in Seq(Rows) /\ MaxChanges \in Nat
    BY ListingAssumption
  <2>2. IsDistinct(Start)
    BY ListingAssumption DEF IsDistinct
  <2>3. Start \in Lists
    BY <2>1, <2>2, DistinctIsShort
  <2>4. QED
    BY <2>1, <2>2, <2>3 DEF Init, ListTyped
<1>2. ReadTyped
  <2>1. Idle \in Clients /\ Idle.pc = "idle"
    BY IdleIsClient DEF Idle
  <2>2. QED
    BY <2>1 DEF Init, ReadTyped
<1>3. StreamTyped
  BY DEF Init, StreamTyped, Streams
<1>4. QED
  BY <1>1, <1>2, <1>3 DEF Typed

\* The risks that a change brings, and the rows that it takes away.
Changing(lost, risk) ==
  /\ risk \in [Readers -> SUBSET Risks]
  /\ reader' = [r \in Readers |->
       IF r \notin Followed \/ reader[r].pc \in {"idle", "done"} THEN reader[r]
       ELSE Disturbed(reader[r], risk[r], lost)]
  /\ changes < MaxChanges
  /\ changes' = changes + 1
  /\ unflushed' \in {unflushed, unflushed + 1}
  /\ UNCHANGED <<kind, cache, stream>>

EnterRisk(i) == [r \in Readers |->
  (IF i <= Behind(reader[r]) THEN {"pushed"} ELSE {})
    \cup (IF reader[r].pc = "find" THEN {"raced"} ELSE {})]
LeaveRisk(i) == [r \in Readers |-> IF i <= Behind(reader[r]) THEN {"pulled"} ELSE {}]
MoveRisk(i, j) == [r \in Readers |->
  IF (i <= Behind(reader[r])) # (j <= Behind(reader[r])) THEN {"crossed"} ELSE {}]

\* A row that enters pushes others over the boundary behind it, and races with the
\* statements of a query.
LEMMA EnterChanges ==
  ASSUME NEW row, NEW i, Enter(row, i)
  PROVE  Changing({}, EnterRisk(i))
<1>1. EnterRisk(i) \in [Readers -> SUBSET Risks]
  BY DEF EnterRisk, Risks
<1>2. reader' = [r \in Readers |->
       IF r \notin Followed \/ reader[r].pc \in {"idle", "done"} THEN reader[r]
       ELSE Disturbed(reader[r], EnterRisk(i)[r], {})]
  BY DEF Enter, Noted, EnterRisk
<1>3. QED
  BY <1>1, <1>2 DEF Enter, Changed, Changing

\* A row that leaves pulls others over the boundary behind it.
LEMMA LeaveChanges ==
  ASSUME NEW i, Leave(i)
  PROVE  Changing({result[i]}, LeaveRisk(i))
<1>1. LeaveRisk(i) \in [Readers -> SUBSET Risks]
  BY DEF LeaveRisk, Risks
<1>2. reader' = [r \in Readers |->
       IF r \notin Followed \/ reader[r].pc \in {"idle", "done"} THEN reader[r]
       ELSE Disturbed(reader[r], LeaveRisk(i)[r], {result[i]})]
  BY DEF Leave, Noted, LeaveRisk
<1>3. QED
  BY <1>1, <1>2 DEF Leave, Changed, Changing

\* A row that moves may cross the boundary.
LEMMA MoveChanges ==
  ASSUME NEW i, NEW j, Move(i, j)
  PROVE  Changing({}, MoveRisk(i, j))
<1>1. MoveRisk(i, j) \in [Readers -> SUBSET Risks]
  BY DEF MoveRisk, Risks
<1>2. reader' = [r \in Readers |->
       IF r \notin Followed \/ reader[r].pc \in {"idle", "done"} THEN reader[r]
       ELSE Disturbed(reader[r], MoveRisk(i, j)[r], {})]
  BY DEF Move, Noted, MoveRisk
<1>3. QED
  BY <1>1, <1>2 DEF Move, Changed, Changing

\* What a change leaves to the clients and to the stream has its type.
LEMMA ChangingTyped ==
  ASSUME Typed, NEW lost, NEW risk, Changing(lost, risk)
  PROVE  /\ ReadTyped' /\ StreamTyped' /\ kind' \in Kinds
         /\ changes' \in 0 .. MaxChanges /\ unflushed' \in 0 .. changes'
<1>1. /\ UNCHANGED <<kind, cache, stream>> /\ changes' = changes + 1
      /\ reader \in [Readers -> Clients] /\ risk \in [Readers -> SUBSET Risks]
  BY DEF Changing, Typed, ReadTyped
<1>2. \A r \in Readers :
        reader'[r] \in Clients /\ reader'[r].pc = reader[r].pc
  <2> TAKE r \in Readers
  <2>1. reader'[r] = reader[r] \/ reader'[r] = Disturbed(reader[r], risk[r], lost)
    BY <1>1 DEF Changing
  <2>2. reader[r] \in Clients /\ risk[r] \in SUBSET Risks
    BY <1>1
  <2>3. CASE reader'[r] = Disturbed(reader[r], risk[r], lost)
    <3>1. reader'[r] \in Clients /\ Disturbs(reader[r], reader'[r], risk[r], lost)
      BY <2>2, <2>3, DisturbedFields
    <3>2. QED
      BY <3>1 DEF Disturbs
  <2>4. QED
    BY <2>1, <2>2, <2>3
<1>3. reader' \in [Readers -> Clients]
  BY <1>2 DEF Changing
<1>4. ReadTyped' /\ StreamTyped' /\ kind' \in Kinds
  BY <1>1, <1>2, <1>3 DEF Typed, ListTyped, ReadTyped, StreamTyped
<1>5. changes' \in 0 .. MaxChanges /\ unflushed' \in 0 .. changes'
  <2>1. MaxChanges \in Nat
    BY ListingAssumption
  <2>2. changes \in 0 .. MaxChanges /\ unflushed \in 0 .. changes
    BY DEF Typed, ListTyped
  <2>3. QED
    BY <2>1, <2>2 DEF Changing
<1>6. QED
  BY <1>4, <1>5

\* The list as a sequence.
LEMMA ResultIsSeq ==
  ASSUME Typed
  PROVE  result \in Seq(Rows) /\ Len(result) \in Nat /\ IsDistinct(result)
  BY ListIsSeq, RowCount DEF Typed, ListTyped, Totals

\* A change of the list keeps the types.
LEMMA ChangeTyped ==
  ASSUME Typed, Change
  PROVE  Typed'
<1>1. result \in Seq(Rows) /\ Len(result) \in Nat /\ IsDistinct(result)
  BY ResultIsSeq
<1>2. ASSUME NEW row \in Rows, NEW i \in Positions, Enter(row, i) PROVE Typed'
  <2>1. ReadTyped' /\ StreamTyped' /\ kind' \in Kinds
        /\ changes' \in 0 .. MaxChanges /\ unflushed' \in 0 .. changes'
    BY <1>2, EnterChanges, ChangingTyped
  <2>2. /\ i \in 1 .. Len(result) + 1 /\ row \notin ToSet(result)
        /\ result' = InsertAt(result, i, row) /\ gone' = gone
    BY <1>2 DEF Enter
  <2>3. result' \in Seq(Rows) /\ IsDistinct(result')
    BY <1>1, <2>2, Inserted, InsertDistinct
  <2>4. result' \in Lists
    BY <2>3, DistinctIsShort
  <2>5. QED
    BY <2>1, <2>2, <2>3, <2>4 DEF Typed, ListTyped
<1>3. ASSUME NEW i \in Positions, Leave(i) PROVE Typed'
  <2>1. ReadTyped' /\ StreamTyped' /\ kind' \in Kinds
        /\ changes' \in 0 .. MaxChanges /\ unflushed' \in 0 .. changes'
    BY <1>3, LeaveChanges, ChangingTyped
  <2>2. /\ i \in 1 .. Len(result) /\ result' = RemoveAt(result, i)
        /\ gone' = gone \cup {result[i]} /\ result[i] \in Rows
    <3>1. /\ i \in DOMAIN result /\ result' = RemoveAt(result, i)
          /\ gone' = gone \cup {result[i]}
      BY <1>3 DEF Leave
    <3>2. DOMAIN result = 1 .. Len(result)
      BY <1>1
    <3>3. QED
      BY <1>1, <3>1, <3>2
  <2>3. result' \in Seq(Rows) /\ IsDistinct(result')
    BY <1>1, <2>2, Removed, RemoveDistinct
  <2>4. result' \in Lists
    BY <2>3, DistinctIsShort
  <2>5. QED
    BY <2>1, <2>2, <2>3, <2>4 DEF Typed, ListTyped
<1>4. ASSUME NEW i \in Positions, NEW j \in Positions, Move(i, j) PROVE Typed'
  <2>1. ReadTyped' /\ StreamTyped' /\ kind' \in Kinds
        /\ changes' \in 0 .. MaxChanges /\ unflushed' \in 0 .. changes'
    BY <1>4, MoveChanges, ChangingTyped
  <2>2. /\ i \in 1 .. Len(result) /\ j \in 1 .. Len(result)
        /\ result' = InsertAt(RemoveAt(result, i), j, result[i]) /\ gone' = gone
    <3>1. /\ i \in DOMAIN result /\ j \in DOMAIN result
          /\ result' = InsertAt(RemoveAt(result, i), j, result[i]) /\ gone' = gone
      BY <1>4 DEF Move
    <3>2. DOMAIN result = 1 .. Len(result)
      BY <1>1
    <3>3. QED
      BY <3>1, <3>2
  <2>3. result' \in Seq(Rows) /\ IsDistinct(result')
    BY <1>1, <2>2, MoveDistinct
  <2>4. result' \in Lists
    BY <2>3, DistinctIsShort
  <2>5. QED
    BY <2>1, <2>2, <2>3, <2>4 DEF Typed, ListTyped
<1>5. QED
  BY <1>2, <1>3, <1>4 DEF Change

\* What a statement of a client makes of its record.
LEMMA GotoTyped ==
  ASSUME Typed, NEW r \in Readers, NEW c \in Clients, Goto(r, c),
         cache' \in [Pages -> {None} \cup KeptAnswers],
         kind # "catalog" => cache' = cache /\ c.pc # "keep"
  PROVE  Typed'
<1>1. UNCHANGED <<kind, result, gone, changes, unflushed, stream>>
      /\ reader' = [reader EXCEPT ![r] = c]
  BY DEF Goto
<1>2. ReadTyped'
  BY <1>1 DEF Typed, ReadTyped
<1>3. QED
  BY <1>1, <1>2 DEF Typed, ListTyped, StreamTyped

\* The record of a client after each of its statements.
AskOf(r) ==
  [reader[r] EXCEPT !.pc = "lookup",
     !.mark = [row \in Rows |->
                 IF r \in Followed /\ row \in ToSet(result) THEN "owed" ELSE "none"]]
CountOf(r) == [reader[r] EXCEPT !.pc = "find", !.total = Len(result)]
FindOf(r) == [reader[r] EXCEPT !.pc = "keep", !.items = Page(result, reader[r].page)]
Answer(total, items) == [total |-> total, items |-> items]
Staler(c, risk) == [c EXCEPT !.risks = @ \cup risk]

\* The records of a client after its statements have their type.
LEMMA RecordTypes ==
  ASSUME Typed, NEW r \in Readers
  PROVE  /\ reader[r] \in Clients /\ reader[r].page \in Pages /\ reader[r].total \in Totals
         /\ reader[r].items \in PageLists
         /\ AskOf(r) \in Clients
         /\ CountOf(r) \in Clients
         /\ Page(result, reader[r].page) \in PageLists
         /\ FindOf(r) \in Clients
<1>1. /\ reader[r] \in Clients /\ reader[r].page \in Pages /\ reader[r].total \in Totals
      /\ reader[r].items \in PageLists
  BY DEF Typed, ReadTyped, Clients
<1>2. result \in Lists /\ Len(result) \in Totals
  BY ListIsSeq DEF Typed, ListTyped
<1>3. Page(result, reader[r].page) \in PageLists
  BY <1>1, <1>2, PageHas
<1>4. AskOf(r) \in Clients
  <2>1. [row \in Rows |-> IF r \in Followed /\ row \in ToSet(result) THEN "owed" ELSE "none"]
           \in [Rows -> DOMAIN Again]
    BY DEF Again
  <2>2. "lookup" \in Steps
    BY DEF Steps
  <2>3. QED
    BY <1>1, <2>1, <2>2 DEF AskOf, Clients
<1>5. CountOf(r) \in Clients
  BY <1>1, <1>2 DEF CountOf, Clients, Steps
<1>6. FindOf(r) \in Clients
  BY <1>1, <1>3 DEF FindOf, Clients, Steps
<1>7. QED
  BY <1>1, <1>3, <1>4, <1>5, <1>6

\* So has the record of a client that was shown an old page.
LEMMA StalerIsClient ==
  ASSUME NEW c \in Clients, NEW risk, risk \subseteq Risks
  PROVE  Staler(c, risk) \in Clients
  BY DEF Staler, Clients

\* A statement of a client keeps the types.
LEMMA ReadTypedStep ==
  ASSUME Typed, NEW r \in Readers, Read(r)
  PROVE  Typed'
<1> DEFINE c == reader[r]
           items == Page(result, c.page)
<1>1. /\ c \in Clients /\ c.page \in Pages /\ c.total \in Totals /\ c.items \in PageLists
      /\ items \in PageLists
  BY RecordTypes
<1>2. /\ cache \in [Pages -> {None} \cup KeptAnswers]
      /\ kind # "catalog" => c.pc # "keep"
  BY DEF Typed, ReadTyped
<1>3. CASE Ask(r)
  <2>1. Goto(r, AskOf(r)) /\ cache' = cache
    BY <1>3 DEF Ask, AskOf
  <2>2. AskOf(r).pc # "keep"
    BY <1>1 DEF AskOf, Clients
  <2>3. QED
    BY <1>2, <2>1, <2>2, RecordTypes, GotoTyped
<1>4. CASE Count(r)
  <2>1. Goto(r, CountOf(r)) /\ cache' = cache
    BY <1>4 DEF Count, CountOf
  <2>2. CountOf(r).pc # "keep"
    BY <1>1 DEF CountOf, Clients
  <2>3. QED
    BY <1>2, <2>1, <2>2, RecordTypes, GotoTyped
<1>5. CASE Hit(r)
  <2> DEFINE kept == cache[c.page]
             d == Turned(c, kept)
             risk == IF r \in Followed /\ kept # Current(c.page) THEN {"stale"} ELSE {}
  <2>1. kept \in KeptAnswers /\ Goto(r, Staler(d, risk)) /\ cache' = cache
    BY <1>1, <1>2, <1>5 DEF Hit, Staler
  <2>2. d \in Clients /\ Turns(c, d, kept)
    BY <1>1, <2>1, TurnedFields
  <2>3. risk \subseteq Risks
    BY DEF Risks
  <2>4. d.pc # "keep"
    BY <2>2 DEF Turns
  <2> HIDE DEF d, risk
  <2>5. Staler(d, risk) \in Clients /\ Staler(d, risk).pc # "keep"
    <3>1. Staler(d, risk).pc = d.pc
      BY <2>2 DEF Staler, Clients
    <3>2. QED
      BY <2>2, <2>3, <2>4, <3>1, StalerIsClient
  <2>6. QED
    BY <1>2, <2>1, <2>5, GotoTyped
<1>6. CASE Find(r)
  <2>1. CASE kind = "catalog"
    <3>1. Goto(r, FindOf(r)) /\ cache' = cache
      BY <1>6, <2>1 DEF Find, FindOf
    <3>2. QED
      BY <1>2, <2>1, <3>1, RecordTypes, GotoTyped
  <2>2. CASE kind # "catalog"
    <3> DEFINE answer == Answer(c.total, items)
               d == Turned(c, answer)
    <3>1. Goto(r, d) /\ cache' = cache
      BY <1>6, <2>2 DEF Find, Answer
    <3>2. answer \in KeptAnswers
      BY <1>1 DEF KeptAnswers, Answer
    <3>3. d \in Clients /\ Turns(c, d, answer)
      BY <1>1, <3>2, TurnedFields
    <3>4. d.pc # "keep"
      BY <3>3 DEF Turns
    <3> HIDE DEF d
    <3>5. QED
      BY <1>2, <3>1, <3>3, <3>4, GotoTyped
  <2>3. QED
    BY <2>1, <2>2
<1>7. CASE Keep(r)
  <2> DEFINE answer == Answer(c.total, c.items)
             d == Turned(c, answer)
  <2>1. /\ Goto(r, d) /\ c.pc = "keep"
        /\ cache' = [cache EXCEPT ![c.page] = answer] \/ cache' = cache
    BY <1>7 DEF Keep, Answer
  <2>2. answer \in KeptAnswers
    BY <1>1 DEF KeptAnswers, Answer
  <2>3. d \in Clients
    BY <1>1, <2>2, TurnedFields
  <2>4. cache' \in [Pages -> {None} \cup KeptAnswers]
    BY <1>2, <2>1, <2>2
  <2>5. kind = "catalog"
    BY <1>2, <2>1
  <2> HIDE DEF d
  <2>6. QED
    BY <2>1, <2>3, <2>4, <2>5, GotoTyped
<1>8. QED
  BY <1>3, <1>4, <1>5, <1>6, <1>7 DEF Read

----------------------------------------------------------------------------
\* The activity stream.  A poll tells nothing, or the first row of the log when it is
\* not the one told last.
TellsFirst(told) ==
  /\ told = Append(stream.told, result[1])
  /\ 1 \in DOMAIN result /\ result[1] \in Rows
  /\ stream.told # <<>> => Last(stream.told) # result[1]

LEMMA PollTells ==
  ASSUME Typed, NEW st, st = Poll(stream)
  PROVE  st \in Streams /\ (st.told = stream.told \/ TellsFirst(st.told))
<1>1. /\ result \in Seq(Rows) /\ stream \in Streams
  BY ResultIsSeq DEF Typed, StreamTyped
<1>2. CASE st = stream
  BY <1>1, <1>2
<1>3. CASE st # stream
  <2>1. /\ Newest # None /\ st = [stream EXCEPT !.told = Append(@, Newest)]
        /\ stream.told # <<>> => Last(stream.told) # Newest
    BY <1>3 DEF Poll
  <2>2. result # <<>> /\ Newest = result[1]
    BY <2>1 DEF Newest
  <2>3. 1 \in DOMAIN result /\ result[1] \in Rows
    BY <1>1, <2>2
  <2>4. st \in Streams /\ st.told = Append(stream.told, result[1])
    <3> DEFINE told == Append(stream.told, result[1])
    <3>1. told \in Seq(Rows)
      BY <1>1, <2>3 DEF Streams
    <3>2. st = [stream EXCEPT !.told = told]
      BY <2>1, <2>2
    <3> HIDE DEF told
    <3>3. st \in Streams /\ st.told = told
      BY <1>1, <3>1, <3>2 DEF Streams
    <3>4. QED
      BY <3>3 DEF told
  <2>5. TellsFirst(st.told)
    BY <2>1, <2>2, <2>3, <2>4 DEF TellsFirst
  <2>6. QED
    BY <2>4, <2>5
<1>4. QED
  BY <1>2, <1>3

\* Only the stream changes in its steps, and only for the audit log.
LEMMA StreamSteps ==
  ASSUME Typed, Connect \/ Tick \/ Disconnect
  PROVE  /\ UNCHANGED <<kind, result, gone, changes, cache, unflushed, reader>>
         /\ kind = "audit" /\ stream' \in Streams
         /\ stream'.told = stream.told \/ TellsFirst(stream'.told)
<1> DEFINE st == Poll(stream)
<1>1. st \in Streams /\ (st.told = stream.told \/ TellsFirst(st.told))
  BY PollTells
<1>2. stream \in Streams /\ (stream.up => kind = "audit")
  BY DEF Typed, StreamTyped
<1>3. CASE Connect
  <2>1. kind = "audit" /\ Streaming([st EXCEPT !.up = TRUE])
    BY <1>3 DEF Connect
  <2> HIDE DEF st
  <2>2. [st EXCEPT !.up = TRUE] \in Streams /\ [st EXCEPT !.up = TRUE].told = st.told
    BY <1>1 DEF Streams
  <2>3. QED
    BY <1>1, <2>1, <2>2 DEF Streaming
<1>4. CASE Tick
  <2>1. stream.up /\ Streaming(st)
    BY <1>4 DEF Tick
  <2> HIDE DEF st
  <2>2. QED
    BY <1>1, <1>2, <2>1 DEF Streaming
<1>5. CASE Disconnect
  <2>1. stream.up /\ Streaming([stream EXCEPT !.up = FALSE])
    BY <1>5 DEF Disconnect
  <2>2. [stream EXCEPT !.up = FALSE] \in Streams
        /\ [stream EXCEPT !.up = FALSE].told = stream.told
    BY <1>2 DEF Streams
  <2>3. QED
    BY <1>2, <2>1, <2>2 DEF Streaming
<1>6. QED
  BY <1>3, <1>4, <1>5

\* Every step keeps the types.
LEMMA NextTyped == Typed /\ [Next]_vars => Typed'
<1> SUFFICES ASSUME Typed, [Next]_vars PROVE Typed'
  OBVIOUS
<1>1. CASE Change
  BY <1>1, ChangeTyped
<1>2. CASE Invalidate
  <2>1. UNCHANGED <<kind, result, gone, changes, reader, stream>>
        /\ unflushed > 0 /\ unflushed' = unflushed - 1
        /\ cache' = [p \in Pages |-> None]
    BY <1>2 DEF Invalidate
  <2>2. unflushed' \in 0 .. changes
    <3>1. MaxChanges \in Nat
      BY ListingAssumption
    <3>2. unflushed \in 0 .. changes /\ changes \in 0 .. MaxChanges
      BY DEF Typed, ListTyped
    <3>3. QED
      BY <2>1, <3>1, <3>2
  <2>3. QED
    BY <2>1, <2>2 DEF Typed, ListTyped, ReadTyped, StreamTyped
<1>3. ASSUME NEW r \in Readers, Read(r) PROVE Typed'
  BY <1>3, ReadTypedStep
<1>4. CASE Connect \/ Tick \/ Disconnect
  <2>1. /\ UNCHANGED <<kind, result, gone, changes, cache, unflushed, reader>>
        /\ kind = "audit" /\ stream' \in Streams
    BY <1>4, StreamSteps
  <2>2. QED
    BY <2>1 DEF Typed, ListTyped, ReadTyped, StreamTyped
<1>5. CASE UNCHANGED vars
  BY <1>5 DEF vars, Typed, ListTyped, ReadTyped, StreamTyped
<1>6. QED
  BY <1>1, <1>2, <1>3, <1>4, <1>5 DEF Next

\* The variables keep their types: a client asks for pages that exist, and no list is
\* longer than the table.
THEOREM ListingTypeCorrect == Spec => []TypeOK
<1>1. Typed => TypeOK
  <2> SUFFICES ASSUME Typed PROVE TypeOK
    OBVIOUS
  <2>1. \A p \in Pages : cache[p] = None \/ (kind = "catalog" /\ cache[p] \in Answers)
    <3>1. KeptAnswers \subseteq Answers
      BY RowCount DEF KeptAnswers, Answers, Totals, PageLists
    <3>2. QED
      BY <3>1 DEF Typed, ReadTyped
  <2>2. ASSUME NEW r \in Readers
        PROVE  /\ reader[r].pc \in Steps /\ reader[r].page \in Pages
               /\ reader[r].total \in 0 .. Cardinality(Rows)
               /\ Len(reader[r].items) <= Per
               /\ reader[r].mark \in [Rows -> DOMAIN Again]
               /\ reader[r].risks \subseteq Risks
    BY DEF Typed, ReadTyped, Clients, PageLists, Totals
  <2>3. stream.up \in BOOLEAN /\ ToSet(stream.told) \subseteq Rows
    BY DEF Typed, StreamTyped, Streams, ToSet
  <2>4. QED
    BY <2>1, <2>2, <2>3 DEF Typed, ListTyped, TypeOK
<1>2. QED
  BY <1>1, InitTyped, NextTyped, PTL DEF Spec

\* Nothing leaves the audit log or moves in it.
LEMMA AuditOnlyGrows == MayChange["audit"] = {"enter"}
  BY DEF MayChange

\* Every step keeps what was told in the order of the log.
LEMMA NextToldInOrder == Typed /\ ToldInOrder /\ [Next]_vars => ToldInOrder'
<1> SUFFICES ASSUME Typed, ToldInOrder, [Next]_vars PROVE ToldInOrder'
  OBVIOUS
<1> DEFINE told == stream.told
<1>1. /\ result \in Seq(Rows) /\ told \in Seq(Rows)
      /\ told # <<>> => kind = "audit"
  BY ResultIsSeq DEF Typed, StreamTyped, Streams
<1>2. CASE UNCHANGED <<result, stream>>
  BY <1>2 DEF ToldInOrder, ActivityGoesForward
<1>3. CASE Change
  <2>1. stream' = stream
    BY <1>3, EnterChanges, LeaveChanges, MoveChanges DEF Change, Changing
  <2>2. CASE told = <<>>
    BY <2>1, <2>2 DEF ToldInOrder, ActivityGoesForward
  <2>3. CASE told # <<>>
    <3>1. PICK row \in Rows, i \in Positions : Enter(row, i)
      <4>1. MayChange[kind] = {"enter"}
        BY <1>1, <2>3, AuditOnlyGrows
      <4>2. \A i \in Positions : ~Leave(i)
        BY <4>1 DEF Leave, Changed
      <4>3. \A i, j \in Positions : ~Move(i, j)
        BY <4>1 DEF Move, Changed
      <4>4. QED
        BY <1>3, <4>2, <4>3 DEF Change
    <3>2. i \in 1 .. Len(result) + 1 /\ result' = InsertAt(result, i, row)
      BY <3>1 DEF Enter
    <3>3. \A a, b \in DOMAIN result : a < b =>
             \E c, d \in DOMAIN result' :
               c < d /\ result'[c] = result[a] /\ result'[d] = result[b]
      BY <1>1, <3>2, InsertKeepsOrder
    <3>4. \A a \in DOMAIN result : \E c \in DOMAIN result' : result'[c] = result[a]
      <4> TAKE a \in DOMAIN result
      <4>1. Ahead(result, result[a], 0)
        BY <1>1 DEF Ahead
      <4>2. Ahead(result', result[a], 0)
        BY <1>1, <3>2, <4>1, InsertMoves
      <4>3. QED
        BY <4>2 DEF Ahead
    <3>5. \A i1 \in DOMAIN told : \E a \in DOMAIN result' : result'[a] = told[i1]
      BY <3>4 DEF ToldInOrder
    <3>6. \A i1, j1 \in DOMAIN told : i1 < j1 =>
             \E a, b \in DOMAIN result' : a < b /\ result'[a] = told[j1] /\ result'[b] = told[i1]
      <4> TAKE i1, j1 \in DOMAIN told
      <4> HAVE i1 < j1
      <4>1. PICK a, b \in DOMAIN result : a < b /\ result[a] = told[j1] /\ result[b] = told[i1]
        BY DEF ToldInOrder, ActivityGoesForward
      <4>2. QED
        BY <3>3, <4>1
    <3>7. QED
      BY <2>1, <3>5, <3>6 DEF ToldInOrder, ActivityGoesForward
  <2>4. QED
    BY <2>2, <2>3
<1>4. CASE Connect \/ Tick \/ Disconnect
  <2>1. /\ result' = result
        /\ stream'.told = told \/ TellsFirst(stream'.told)
    BY <1>4, StreamSteps
  <2>2. CASE stream'.told = told
    BY <2>1, <2>2 DEF ToldInOrder, ActivityGoesForward
  <2>3. CASE TellsFirst(stream'.told)
    <3> DEFINE n == Len(told)
               more == stream'.told
    <3>1. /\ n \in Nat /\ DOMAIN told = 1 .. n /\ DOMAIN more = 1 .. n + 1
          /\ \A k \in 1 .. n : more[k] = told[k]
          /\ more[n + 1] = result[1] /\ 1 \in DOMAIN result
      BY <1>1, <2>3 DEF TellsFirst
    <3>2. \A k \in 1 .. n : \E a \in DOMAIN result : result[a] = told[k] /\ a > 1
      <4> TAKE k \in 1 .. n
      <4>1. told # <<>> /\ told[n] # result[1]
        BY <3>1, <2>3 DEF TellsFirst, Last
      <4>2. CASE k = n
        <5>1. PICK a \in DOMAIN result : result[a] = told[k]
          BY <3>1 DEF ToldInOrder
        <5>2. a # 1 /\ a \in Nat /\ a >= 1
          BY <1>1, <4>1, <4>2, <5>1
        <5>3. QED
          BY <5>1, <5>2
      <4>3. CASE k < n
        <5>1. PICK a, b \in DOMAIN result : a < b /\ result[a] = told[n] /\ result[b] = told[k]
          BY <3>1, <4>3 DEF ToldInOrder, ActivityGoesForward
        <5>2. b > 1
          BY <1>1, <5>1
        <5>3. QED
          BY <5>1, <5>2
      <4>4. QED
        BY <3>1, <4>2, <4>3
    <3> HIDE DEF n, more, told
    <3>3. \A i \in 1 .. n + 1 : \E a \in DOMAIN result : result[a] = more[i]
      <4> TAKE i \in 1 .. n + 1
      <4>1. i \in 1 .. n \/ i = n + 1
        BY <3>1
      <4>2. QED
        BY <3>1, <3>2, <4>1
    <3>4. \A i, j \in 1 .. n + 1 : i < j =>
             \E a, b \in DOMAIN result : a < b /\ result[a] = more[j] /\ result[b] = more[i]
      <4> TAKE i, j \in 1 .. n + 1
      <4> HAVE i < j
      <4>1. i \in 1 .. n /\ (j \in 1 .. n \/ j = n + 1)
        BY <3>1
      <4>2. CASE j \in 1 .. n
        <5>1. \E a, b \in DOMAIN result : a < b /\ result[a] = told[j] /\ result[b] = told[i]
          BY <3>1, <4>1, <4>2 DEF ToldInOrder, ActivityGoesForward, told
        <5>2. QED
          BY <3>1, <4>1, <4>2, <5>1
      <4>3. CASE j = n + 1
        BY <3>1, <3>2, <4>1, <4>3
      <4>4. QED
        BY <4>1, <4>2, <4>3
    <3>5. QED
      BY <2>1, <3>1, <3>3, <3>4 DEF ToldInOrder, ActivityGoesForward, more
  <2>4. QED
    BY <2>1, <2>2, <2>3
<1>5. QED
  <2>1. ASSUME NEW r \in Readers, Read(r) PROVE UNCHANGED <<result, stream>>
    BY <2>1 DEF Read, Ask, Hit, Count, Find, Keep, Goto
  <2>2. QED
    BY <1>2, <1>3, <1>4, <2>1 DEF Next, Invalidate, vars

\* The stream tells no activity twice and never goes back.
THEOREM ActivityForward == Spec => []ActivityGoesForward
<1>1. Init => ToldInOrder
  BY DEF Init, ToldInOrder, ActivityGoesForward
<1>2. ToldInOrder => ActivityGoesForward
  BY DEF ToldInOrder
<1>3. QED
  BY <1>1, <1>2, InitTyped, NextTyped, NextToldInOrder, PTL DEF Spec

----------------------------------------------------------------------------
\* The clients.
LEMMA BehindIs ==
  ASSUME NEW c \in Clients
  PROVE  /\ c.page \in Nat /\ c.page >= 1 /\ Behind(c) \in Nat
         /\ c.pc = "keep" => Behind(c) = c.page * Per
         /\ c.pc \in {"lookup", "find"} => Behind(c) = (c.page - 1) * Per
<1>1. c.page \in Nat /\ c.page >= 1 /\ c.page - 1 \in Nat
  BY RowCount DEF Clients, Pages
<1>2. c.page * Per \in Nat /\ (c.page - 1) * Per \in Nat
  BY <1>1, PerPositive
<1>3. QED
  BY <1>1, <1>2 DEF Behind

\* What a client holds are rows.
LEMMA ItemsAreRows ==
  ASSUME NEW c \in Clients
  PROVE  ToSet(c.items) \subseteq Rows
<1>1. c.items \in Lists
  BY DEF Clients, PageLists
<1>2. c.items \in Seq(Rows)
  BY <1>1, ListIsSeq
<1>3. QED
  BY <1>2 DEF ToSet

\* A change of the list that is a risk only where it notes one.
LEMMA DisturbedExplained ==
  ASSUME NEW c \in Clients, NEW d \in Clients, NEW risk, NEW lost, Disturbs(c, d, risk, lost),
         NEW list \in Seq(Rows), NEW new \in Seq(Rows), Explained(list, c),
         risk \cap Missing = {} =>
           /\ \A row \in Rows \ lost : Ahead(list, row, Behind(c)) => Ahead(new, row, Behind(c))
           /\ c.pc = "find" => Len(new) <= Len(list),
         risk \cap Repeating = {} =>
           \A row \in Rows \ lost : Passed(list, row, Behind(c)) => Passed(new, row, Behind(c))
  PROVE  Explained(new, d)
<1>1. /\ d.pc = c.pc /\ d.page = c.page /\ d.total = c.total /\ d.items = c.items
      /\ \A row \in Rows : d.mark[row] = IF row \in lost THEN "none" ELSE c.mark[row]
      /\ d.risks = c.risks \cup risk
  BY DEF Disturbs
<1>2. Behind(d) = Behind(c)
  BY <1>1 DEF Behind
<1>3. ASSUME d.risks \cap Missing = {} PROVE NoneMissed(new, d)
  <2>1. c.risks \cap Missing = {} /\ risk \cap Missing = {}
    BY <1>1, <1>3
  <2>2. NoneMissed(list, c)
    BY <2>1 DEF Explained
  <2>3. c.pc = "find" => Len(new) <= c.total
    <3>1. Len(new) \in Nat /\ Len(list) \in Nat /\ c.total \in Nat
      BY RowCount DEF Clients, Totals
    <3>2. QED
      BY <2>1, <2>2, <3>1 DEF NoneMissed
  <2>4. \A row \in Rows : d.mark[row] = "owed" =>
           c.mark[row] = "owed" /\ (Ahead(list, row, Behind(c)) => Ahead(new, row, Behind(c)))
    BY <1>1, <2>1
  <2>5. QED
    BY <1>1, <1>2, <2>2, <2>3, <2>4 DEF NoneMissed
<1>4. ASSUME d.risks \cap Repeating = {} PROVE NoneTwice(new, d)
  <2>1. c.risks \cap Repeating = {} /\ risk \cap Repeating = {}
    BY <1>1, <1>4
  <2>2. NoneTwice(list, c)
    BY <2>1 DEF Explained
  <2>3. \A row \in Rows : d.mark[row] # "none" =>
           /\ d.mark[row] = c.mark[row]
           /\ Passed(list, row, Behind(c)) => Passed(new, row, Behind(c))
    BY <1>1, <2>1
  <2>4. ToSet(c.items) \subseteq Rows
    BY ItemsAreRows
  <2>5. QED
    BY <1>1, <1>2, <2>2, <2>3, <2>4 DEF NoneTwice
<1>5. QED
  BY <1>3, <1>4 DEF Explained

\* A page found for what was counted.
LEMMA FoundExplained ==
  ASSUME NEW list \in Lists, IsDistinct(list), NEW c \in Clients, c.pc \in {"lookup", "find"},
         Explained(list, c), NEW d \in Clients, d.pc = "keep", d.page = c.page, d.mark = c.mark,
         d.risks = c.risks, d.items = Page(list, c.page),
         c.risks \cap Missing = {} => Len(list) <= d.total
  PROVE  Explained(list, d)
<1> DEFINE a == (c.page - 1) * Per
           b == c.page * Per
<1>1. /\ a \in Nat /\ b = a + Per /\ Per \in Nat
      /\ \A row : row \in ToSet(d.items) <=>
           \E k \in DOMAIN list : list[k] = row /\ a < k /\ k <= b
  BY PageHas, PerPositive DEF Clients
<1>2. Behind(c) = a /\ Behind(d) = b
  BY BehindIs
<1>3. DOMAIN list = 1 .. Len(list) /\ Len(list) \in Nat /\ list \in Seq(Rows)
  BY ListIsSeq
<1>4. /\ c.page \in Nat /\ d.total \in Nat
      /\ TotalPages(d.total) \in Nat
      /\ TotalPages(d.total) <= c.page => d.total <= b
  <2>1. c.page \in Nat /\ d.total \in Nat
    BY BehindIs, RowCount DEF Clients, Totals
  <2>2. QED
    BY <2>1, LastPage
<1> HIDE DEF a, b
<1>5. ASSUME c.risks \cap Missing = {} PROVE NoneMissed(list, d)
  <2>1. NoneMissed(list, c) /\ Len(list) <= d.total
    BY <1>5 DEF Explained
  <2>2. ASSUME NEW row \in Rows, d.mark[row] = "owed"
        PROVE  \/ row \in ToSet(d.items)
               \/ d.page < TotalPages(d.total) /\ Ahead(list, row, Behind(d))
    <3>1. PICK k \in DOMAIN list : list[k] = row /\ k > a
      BY <1>2, <2>1, <2>2 DEF NoneMissed, Ahead
    <3>2. CASE k <= b
      BY <1>1, <3>1, <3>2
    <3>3. CASE k > b
      <4>1. Ahead(list, row, Behind(d))
        BY <1>2, <3>1, <3>3 DEF Ahead
      <4>2. ~(TotalPages(d.total) <= c.page)
        BY <1>1, <1>3, <1>4, <2>1, <3>1, <3>3
      <4>3. QED
        BY <1>4, <4>1, <4>2
    <3>4. QED
      BY <1>1, <1>3, <3>1, <3>2, <3>3
  <2>3. QED
    BY <2>2 DEF NoneMissed
<1>6. ASSUME c.risks \cap Repeating = {} PROVE NoneTwice(list, d)
  <2>1. NoneTwice(list, c)
    BY <1>6 DEF Explained
  <2>2. \A row \in Rows : d.mark[row] = "once" => Passed(list, row, a)
    BY <1>2, <2>1 DEF NoneTwice
  <2>3. \A row : Passed(list, row, a) => Passed(list, row, b)
    BY <1>1, <1>3 DEF Passed
  <2>4. \A row \in ToSet(d.items) : Passed(list, row, b) /\ ~Passed(list, row, a)
    BY <1>1, <1>3 DEF Passed, IsDistinct
  <2>5. ToSet(d.items) \subseteq Rows
    BY ItemsAreRows
  <2>6. QED
    BY <1>2, <2>1, <2>2, <2>3, <2>4, <2>5 DEF NoneTwice
<1>7. QED
  BY <1>5, <1>6 DEF Explained

\* The client turns a page it has seen.
LEMMA TurnedExplained ==
  ASSUME NEW list \in Seq(Rows), NEW c \in Clients, c.pc = "keep", Explained(list, c),
         NEW d \in Clients, NEW answer, answer = Answer(c.total, c.items), Turns(c, d, answer)
  PROVE  Explained(list, d)
<1>1. answer.total = c.total /\ answer.items = c.items
  BY DEF Answer
<1>2. /\ IF c.page < TotalPages(c.total)
           THEN d.pc = "lookup" /\ d.page = c.page + 1
           ELSE d.pc = "done"
      /\ d.mark = Seen(c.mark, c.items)
      /\ d.risks = c.risks
  BY <1>1 DEF Turns
<1>3. d.pc = "lookup" => Behind(d) = Behind(c)
  <2>1. c.page + 1 - 1 = c.page
    BY BehindIs
  <2>2. QED
    BY <1>2, <2>1, BehindIs
<1>4. \A row \in Rows :
        /\ d.mark[row] = IF row \in ToSet(c.items) THEN Again[c.mark[row]] ELSE c.mark[row]
        /\ c.mark[row] \in {"none", "owed", "once", "twice"}
  BY <1>2 DEF Seen, Clients, Again
<1>5. /\ Again["none"] = "none" /\ Again["owed"] = "once"
      /\ Again["once"] = "twice" /\ Again["twice"] = "twice"
  BY DEF Again
<1>6. ASSUME c.risks \cap Missing = {} PROVE NoneMissed(list, d)
  <2>1. NoneMissed(list, c)
    BY <1>6 DEF Explained
  <2>2. \A row \in Rows : d.mark[row] = "owed" =>
           c.page < TotalPages(c.total) /\ Ahead(list, row, Behind(c))
    BY <1>4, <1>5, <2>1 DEF NoneMissed
  <2>3. QED
    BY <1>2, <1>3, <2>2 DEF NoneMissed
<1>7. ASSUME c.risks \cap Repeating = {} PROVE NoneTwice(list, d)
  <2>1. NoneTwice(list, c)
    BY <1>7 DEF Explained
  <2>2. ASSUME NEW row \in Rows
        PROVE  d.mark[row] # "twice" /\ (d.mark[row] = "once" => Passed(list, row, Behind(c)))
    BY <1>4, <1>5, <2>1 DEF NoneTwice
  <2>3. QED
    BY <1>2, <1>3, <2>2 DEF NoneTwice
<1>8. QED
  BY <1>2, <1>6, <1>7 DEF Explained

\* A change that is noted where it harms keeps the histories explained.
Harmless(c, risk, lost) ==
  /\ risk \cap Missing = {} =>
       /\ \A row \in Rows \ lost :
            Ahead(result, row, Behind(c)) => Ahead(result', row, Behind(c))
       /\ c.pc = "find" => Len(result') <= Len(result)
  /\ risk \cap Repeating = {} =>
       \A row \in Rows \ lost :
         Passed(result, row, Behind(c)) => Passed(result', row, Behind(c))

LEMMA ChangingTraversals ==
  ASSUME Typed, Typed', Traversals, NEW lost, NEW risk, Changing(lost, risk),
         \A r \in Readers : Harmless(reader[r], risk[r], lost)
  PROVE  Traversals'
<1> SUFFICES ASSUME NEW r \in Readers PROVE Traversal(r)'
  BY DEF Traversals
<1>1. result \in Seq(Rows) /\ result' \in Seq(Rows)
  BY ResultIsSeq, ListIsSeq DEF Typed, ListTyped
<1>2. reader[r] \in Clients /\ reader'[r] \in Clients /\ risk[r] \subseteq Risks
  BY DEF Typed, ReadTyped, Changing
<1>3. CASE r \notin Followed \/ reader[r].pc = "idle"
  <2>1. reader'[r] = reader[r]
    BY <1>3 DEF Changing
  <2>2. QED
    BY <1>3, <2>1 DEF Traversals, Traversal
<1>4. CASE r \in Followed /\ reader[r].pc = "done"
  <2>1. reader'[r] = reader[r]
    BY <1>4 DEF Changing
  <2>2. Explained(result, reader[r])
    BY <1>4 DEF Traversals, Traversal
  <2>3. Explained(result', reader[r])
    BY <1>4, <2>2 DEF Explained, NoneMissed, NoneTwice
  <2>4. QED
    BY <1>4, <2>1, <2>3 DEF Traversal
<1>5. CASE r \in Followed /\ reader[r].pc \notin {"idle", "done"}
  <2>1. reader'[r] = Disturbed(reader[r], risk[r], lost)
    BY <1>5 DEF Changing
  <2>2. Disturbs(reader[r], reader'[r], risk[r], lost)
    BY <1>2, <2>1, DisturbedFields
  <2>3. Explained(result, reader[r])
    BY <1>5 DEF Traversals, Traversal
  <2>4. Harmless(reader[r], risk[r], lost)
    OBVIOUS
  <2>5. Explained(result', reader'[r])
    BY <1>1, <1>2, <2>2, <2>3, <2>4, DisturbedExplained DEF Harmless
  <2>6. reader'[r].pc = reader[r].pc
    BY <2>2 DEF Disturbs
  <2>7. QED
    BY <1>5, <2>5, <2>6 DEF Traversal
<1>6. QED
  BY <1>3, <1>4, <1>5

\* Every change of the list notes the risk it is to a client.
LEMMA ChangeTraversals ==
  ASSUME Typed, Typed', Traversals, Change
  PROVE  Traversals'
<1>1. result \in Seq(Rows) /\ Len(result) \in Nat /\ IsDistinct(result)
      /\ DOMAIN result = 1 .. Len(result)
  BY ResultIsSeq
<1>2. \A r \in Readers : Behind(reader[r]) \in Nat
  BY BehindIs DEF Typed, ReadTyped
<1>3. ASSUME NEW row \in Rows, NEW i \in Positions, Enter(row, i) PROVE Traversals'
  <2>1. i \in 1 .. Len(result) + 1 /\ result' = InsertAt(result, i, row)
    BY <1>3 DEF Enter
  <2>2. ASSUME NEW r \in Readers PROVE Harmless(reader[r], EnterRisk(i)[r], {})
    <3> DEFINE n == Behind(reader[r])
    <3>1. /\ \A x : Ahead(result, x, n) => Ahead(result', x, n)
          /\ \A x : i > n /\ Passed(result, x, n) => Passed(result', x, n)
      BY <1>1, <1>2, <2>1, InsertMoves
    <3>2. EnterRisk(i)[r] \cap Missing = {} => reader[r].pc # "find"
      BY DEF EnterRisk, Missing
    <3>3. EnterRisk(i)[r] \cap Repeating = {} => i > n
      BY <1>2, <2>1 DEF EnterRisk, Repeating
    <3>4. QED
      BY <3>1, <3>2, <3>3 DEF Harmless
  <2>3. QED
    BY <1>3, <2>2, EnterChanges, ChangingTraversals
<1>4. ASSUME NEW i \in Positions, Leave(i) PROVE Traversals'
  <2>1. i \in 1 .. Len(result) /\ result' = RemoveAt(result, i)
    <3>1. i \in DOMAIN result /\ result' = RemoveAt(result, i)
      BY <1>4 DEF Leave
    <3>2. QED
      BY <1>1, <3>1
  <2>2. ASSUME NEW r \in Readers PROVE Harmless(reader[r], LeaveRisk(i)[r], {result[i]})
    <3> DEFINE n == Behind(reader[r])
    <3>1. \A x \in Rows \ {result[i]} :
            /\ i > n /\ Ahead(result, x, n) => Ahead(result', x, n)
            /\ Passed(result, x, n) => Passed(result', x, n)
      BY <1>1, <1>2, <2>1, RemoveMoves
    <3>2. Len(result') <= Len(result)
      BY <1>1, <2>1, Removed
    <3>3. LeaveRisk(i)[r] \cap Missing = {} => i > n
      BY <1>2, <2>1 DEF LeaveRisk, Missing
    <3>4. QED
      BY <3>1, <3>2, <3>3 DEF Harmless
  <2>3. QED
    BY <1>4, <2>2, LeaveChanges, ChangingTraversals
<1>5. ASSUME NEW i \in Positions, NEW j \in Positions, Move(i, j) PROVE Traversals'
  <2>1. /\ i \in 1 .. Len(result) /\ j \in 1 .. Len(result)
        /\ result' = InsertAt(RemoveAt(result, i), j, result[i])
    <3>1. /\ i \in DOMAIN result /\ j \in DOMAIN result
          /\ result' = InsertAt(RemoveAt(result, i), j, result[i])
      BY <1>5 DEF Move
    <3>2. QED
      BY <1>1, <3>1
  <2>2. ASSUME NEW r \in Readers PROVE Harmless(reader[r], MoveRisk(i, j)[r], {})
    <3> DEFINE n == Behind(reader[r])
    <3>1. Len(result') = Len(result)
      BY <1>1, <2>1, MoveDistinct
    <3>2. ASSUME i <= n <=> j <= n, NEW x
          PROVE  /\ Ahead(result, x, n) => Ahead(result', x, n)
                 /\ Passed(result, x, n) => Passed(result', x, n)
      BY <1>1, <1>2, <2>1, <3>2, MoveMoves
    <3>3. \/ i <= n <=> j <= n
          \/ MoveRisk(i, j)[r] = {"crossed"}
      BY DEF MoveRisk
    <3>4. "crossed" \in Missing /\ "crossed" \in Repeating
      BY DEF Missing, Repeating
    <3>5. QED
      BY <1>1, <3>1, <3>2, <3>3, <3>4 DEF Harmless
  <2>3. QED
    BY <1>5, <2>2, MoveChanges, ChangingTraversals
<1>6. QED
  BY <1>3, <1>4, <1>5 DEF Change

\* The record of a client that has gone through its pages so far.
Accounted(r, c) ==
  IF r \in Followed THEN Explained(result, c) ELSE \A row \in Rows : c.mark[row] = "none"

\* A statement of one client concerns no other.
LEMMA GotoTraversals ==
  ASSUME Typed, Traversals, NEW r \in Readers, NEW c \in Clients, Goto(r, c),
         c.pc # "idle", Accounted(r, c)
  PROVE  Traversals'
<1>1. result' = result /\ reader' = [reader EXCEPT ![r] = c] /\ reader \in [Readers -> Clients]
  BY DEF Goto, Typed, ReadTyped
<1>2. reader'[r] = c /\ \A u \in Readers \ {r} : reader'[u] = reader[u]
  BY <1>1
<1>3. Traversal(r)'
  BY <1>1, <1>2 DEF Accounted, Traversal
<1>4. ASSUME NEW u \in Readers \ {r} PROVE Traversal(u)'
  BY <1>1, <1>2 DEF Traversals, Traversal
<1>5. QED
  BY <1>3, <1>4 DEF Traversals, Traversal

\* Turning the page keeps the account, with the page just found or the one kept.
LEMMA TurnedAccounted ==
  ASSUME Typed, NEW r \in Readers, NEW c \in Clients, c.pc = "keep", Accounted(r, c),
         NEW answer, answer = Answer(c.total, c.items),
         NEW d \in Clients, Turns(c, d, answer)
  PROVE  Accounted(r, d) /\ d.pc # "idle"
<1>1. d.pc # "idle"
  BY DEF Turns
<1>2. CASE r \in Followed
  <2>1. Explained(result, c) /\ result \in Seq(Rows)
    BY <1>2, ResultIsSeq DEF Accounted
  <2>2. Explained(result, d)
    BY <2>1, TurnedExplained
  <2>3. QED
    BY <1>1, <1>2, <2>2 DEF Accounted
<1>3. CASE r \notin Followed
  <2>1. \A row \in Rows : c.mark[row] = "none"
    BY <1>3 DEF Accounted
  <2>2. d.mark = Seen(c.mark, answer.items) /\ Again["none"] = "none"
    BY DEF Turns, Again
  <2>3. \A row \in Rows : d.mark[row] = "none"
    BY <2>1, <2>2 DEF Seen
  <2>4. QED
    BY <1>1, <1>3, <2>3 DEF Accounted
<1>4. QED
  BY <1>2, <1>3

\* A client that holds the page it found for the rows it counted.
LEMMA FoundAccounted ==
  ASSUME Typed, NEW r \in Readers, NEW c \in Clients, c.pc \in {"lookup", "find"}, Accounted(r, c),
         NEW d \in Clients, d.pc = "keep", d.page = c.page, d.mark = c.mark,
         d.risks = c.risks, d.items = Page(result, c.page),
         d.total = Len(result) \/ (c.pc = "find" /\ d.total = c.total)
  PROVE  Accounted(r, d)
<1>1. CASE r \in Followed
  <2>1. Explained(result, c) /\ result \in Lists /\ IsDistinct(result) /\ Len(result) \in Nat
    BY <1>1, ResultIsSeq DEF Accounted, Typed, ListTyped
  <2>2. c.risks \cap Missing = {} => Len(result) <= d.total
    BY <2>1 DEF Explained, NoneMissed
  <2>3. Explained(result, d)
    BY <2>1, <2>2, FoundExplained
  <2>4. QED
    BY <1>1, <2>3 DEF Accounted
<1>2. CASE r \notin Followed
  BY <1>2 DEF Accounted
<1>3. QED
  BY <1>1, <1>2

\* A statement of a client keeps its history explained.
LEMMA ReadTraversals ==
  ASSUME Typed, Traversals, NEW r \in Readers, Read(r)
  PROVE  Traversals'
<1> DEFINE c == reader[r]
           items == Page(result, c.page)
<1>1. /\ c \in Clients /\ c.page \in Pages /\ c.total \in Totals /\ c.items \in PageLists
      /\ items \in PageLists /\ FindOf(r) \in Clients
  BY RecordTypes
<1>2. c.pc # "idle" => Accounted(r, c)
  BY DEF Traversals, Traversal, Accounted
<1>3. CASE Ask(r)
  <2> DEFINE d == AskOf(r)
  <2>1. Goto(r, d) /\ d \in Clients /\ c.page = 1
    BY <1>3, RecordTypes DEF Ask, AskOf, Traversals, Traversal
  <2>2. /\ d.pc = "lookup" /\ d.page = 1 /\ d.risks = c.risks
        /\ \A row \in Rows : d.mark[row] =
             IF r \in Followed /\ row \in ToSet(result) THEN "owed" ELSE "none"
    BY <1>1, <2>1 DEF AskOf, Clients
  <2> HIDE DEF d
  <2>3. Behind(d) = 0
    BY <2>1, <2>2, BehindIs, PerPositive
  <2>4. \A row \in ToSet(result) : Ahead(result, row, 0)
    BY ResultIsSeq DEF ToSet, Ahead
  <2>5. Explained(result, d)
    BY <2>2, <2>3, <2>4 DEF Explained, NoneMissed, NoneTwice
  <2>6. Accounted(r, d)
    BY <2>2, <2>5 DEF Accounted
  <2>7. QED
    BY <2>1, <2>2, <2>6, GotoTraversals
<1>4. CASE Count(r)
  <2> DEFINE d == CountOf(r)
  <2>1. Goto(r, d) /\ d \in Clients /\ c.pc = "lookup"
    BY <1>4, RecordTypes DEF Count, CountOf
  <2>2. /\ d.pc = "find" /\ d.page = c.page /\ d.risks = c.risks /\ d.mark = c.mark
        /\ d.total = Len(result) /\ Len(result) \in Nat
    BY <1>1, <2>1, ResultIsSeq DEF CountOf, Clients
  <2> HIDE DEF d
  <2>3. Behind(d) = Behind(c)
    BY <1>1, <2>1, <2>2, BehindIs
  <2>4. Accounted(r, d)
    BY <1>2, <2>1, <2>2, <2>3 DEF Accounted, Explained, NoneMissed, NoneTwice
  <2>5. QED
    BY <2>1, <2>2, <2>4, GotoTraversals
<1>5. CASE Hit(r)
  <2> DEFINE kept == cache[c.page]
             d == Turned(c, kept)
             risk == IF r \in Followed /\ kept # Current(c.page) THEN {"stale"} ELSE {}
             e == Staler(d, risk)
  <2>1. /\ kept \in KeptAnswers /\ Goto(r, e) /\ c.pc = "lookup"
        /\ risk \subseteq Risks
    BY <1>1, <1>5 DEF Hit, Staler, Typed, ReadTyped, Risks
  <2>2. d \in Clients /\ Turns(c, d, kept)
    BY <1>1, <2>1, TurnedFields
  <2>3. d.pc # "idle"
    BY <2>2 DEF Turns
  <2> HIDE DEF d
  <2>4. /\ e \in Clients /\ e.pc = d.pc /\ e.page = d.page /\ e.total = d.total
        /\ e.items = d.items /\ e.mark = d.mark /\ e.risks = d.risks \cup risk
    <3> HIDE DEF risk
    <3>1. e \in Clients
      BY <2>1, <2>2, StalerIsClient
    <3>2. QED
      BY <2>2, <3>1 DEF Staler, Clients
  <2> HIDE DEF e
  <2>5. CASE r \in Followed /\ kept # Current(c.page)
    <3>1. "stale" \in e.risks
      BY <2>4, <2>5
    <3>2. Accounted(r, e)
      BY <2>5, <3>1 DEF Accounted, Explained, Missing, Repeating
    <3>3. QED
      BY <2>1, <2>3, <2>4, <3>2, GotoTraversals
  <2>6. CASE r \in Followed /\ kept = Current(c.page)
    <3> DEFINE k == [c EXCEPT !.pc = "keep", !.total = Len(result), !.items = items]
    <3>1. kept = Answer(Len(result), items) /\ Len(result) \in Totals
      BY <2>6, ListIsSeq DEF Current, Answer, Typed, ListTyped
    <3>2. /\ k \in Clients /\ k.pc = "keep" /\ k.total = Len(result) /\ k.items = items
          /\ k.page = c.page /\ k.mark = c.mark /\ k.risks = c.risks
      BY <1>1, <3>1 DEF Clients, Steps
    <3> HIDE DEF k
    <3>3. Accounted(r, k)
      BY <1>1, <1>2, <2>1, <3>2, FoundAccounted
    <3>4. Turns(k, d, kept) /\ kept = Answer(k.total, k.items)
      BY <2>2, <3>1, <3>2 DEF Turns
    <3>5. Accounted(r, d)
      BY <2>2, <3>2, <3>3, <3>4, TurnedAccounted
    <3>6. Behind(e) = Behind(d) /\ e.risks = d.risks
      BY <2>4, <2>6 DEF Behind
    <3>7. Accounted(r, e)
      BY <2>4, <2>6, <3>5, <3>6 DEF Accounted, Explained, NoneMissed, NoneTwice
    <3>8. QED
      BY <2>1, <2>3, <2>4, <3>7, GotoTraversals
  <2>7. CASE r \notin Followed
    <3>1. \A row \in Rows : c.mark[row] = "none"
      BY <1>2, <2>1, <2>7 DEF Accounted
    <3>2. e.mark = Seen(c.mark, kept.items) /\ Again["none"] = "none"
      BY <2>2, <2>4 DEF Turns, Again
    <3>3. Accounted(r, e)
      BY <2>7, <3>1, <3>2 DEF Seen, Accounted
    <3>4. QED
      BY <2>1, <2>3, <2>4, <3>3, GotoTraversals
  <2>8. QED
    BY <2>5, <2>6, <2>7
<1>6. CASE Find(r)
  <2> DEFINE k == FindOf(r)
  <2>1. /\ k \in Clients /\ k.pc = "keep" /\ k.total = c.total /\ k.items = items
        /\ k.page = c.page /\ k.mark = c.mark /\ k.risks = c.risks
    BY <1>1 DEF FindOf, Clients
  <2>2. c.pc = "find"
    BY <1>6 DEF Find
  <2> HIDE DEF k
  <2>3. Accounted(r, k)
    BY <1>1, <1>2, <2>1, <2>2, FoundAccounted
  <2>4. CASE kind = "catalog"
    <3>1. Goto(r, k)
      BY <1>6, <2>4 DEF Find, FindOf, k
    <3>2. QED
      BY <2>1, <2>3, <3>1, GotoTraversals
  <2>5. CASE kind # "catalog"
    <3> DEFINE answer == Answer(c.total, items)
               d == Turned(c, answer)
    <3>1. Goto(r, d)
      BY <1>6, <2>5 DEF Find, Answer
    <3>2. answer \in KeptAnswers
      BY <1>1 DEF KeptAnswers, Answer
    <3>3. d \in Clients /\ Turns(c, d, answer)
      BY <1>1, <3>2, TurnedFields
    <3> HIDE DEF d
    <3>4. Turns(k, d, answer) /\ answer = Answer(k.total, k.items)
      BY <2>1, <3>3 DEF Turns
    <3>5. Accounted(r, d) /\ d.pc # "idle"
      BY <2>1, <2>3, <3>3, <3>4, TurnedAccounted
    <3>6. QED
      BY <3>1, <3>3, <3>5, GotoTraversals
  <2>6. QED
    BY <2>4, <2>5
<1>7. CASE Keep(r)
  <2> DEFINE answer == Answer(c.total, c.items)
             d == Turned(c, answer)
  <2>1. Goto(r, d) /\ c.pc = "keep"
    BY <1>7 DEF Keep, Answer
  <2>2. answer \in KeptAnswers
    BY <1>1 DEF KeptAnswers, Answer
  <2>3. d \in Clients /\ Turns(c, d, answer)
    BY <1>1, <2>2, TurnedFields
  <2> HIDE DEF d
  <2>4. Accounted(r, d) /\ d.pc # "idle"
    BY <1>1, <1>2, <2>1, <2>3, TurnedAccounted
  <2>5. QED
    BY <2>1, <2>3, <2>4, GotoTraversals
<1>8. QED
  BY <1>3, <1>4, <1>5, <1>6, <1>7 DEF Read

\* Every step keeps the histories explained.
LEMMA NextTraversals == Typed /\ Typed' /\ Traversals /\ [Next]_vars => Traversals'
<1> SUFFICES ASSUME Typed, Typed', Traversals, [Next]_vars PROVE Traversals'
  OBVIOUS
<1>1. CASE Change
  BY <1>1, ChangeTraversals
<1>2. ASSUME NEW r \in Readers, Read(r) PROVE Traversals'
  BY <1>2, ReadTraversals
<1>3. CASE UNCHANGED <<result, reader>>
  BY <1>3 DEF Traversals, Traversal
<1>4. Change \/ (\E r \in Readers : Read(r)) \/ UNCHANGED <<result, reader>>
  BY DEF Next, vars, Invalidate, Connect, Tick, Disconnect, Streaming
<1>5. QED
  BY <1>1, <1>2, <1>3, <1>4

\* A client that goes through all the pages misses a row that was there all the time, or
\* sees it twice, only for one of the reasons that its history names.
THEOREM TraversalExplained == Spec => []TraversalIsExplained
<1>1. Init => Traversals
  BY DEF Init, Traversals, Traversal, Idle
<1>2. Typed /\ Traversals => TraversalIsExplained
  <2> SUFFICES ASSUME Typed, Traversals, NEW r \in Readers, reader[r].pc = "done"
               PROVE  TraversalIsExplained!(r)
    BY DEF TraversalIsExplained
  <2>1. CASE r \in Followed
    <3>1. Explained(result, reader[r])
      BY <2>1 DEF Traversals, Traversal
    <3>2. QED
      BY <3>1 DEF Explained, NoneMissed, NoneTwice, Missing, Repeating
  <2>2. CASE r \notin Followed
    BY <2>2 DEF Traversals, Traversal
  <2>3. QED
    BY <2>1, <2>2
<1>3. QED
  BY <1>1, <1>2, InitTyped, NextTyped, NextTraversals, PTL DEF Spec

-----------------------------------------------------------------------------
\* Every view is dropped by the writers it depends on, but for warehouses that are
\* created.
LEMMA WritersForget ==
  ASSUME NEW v \in Views, NEW o \in Writers, Reads(v) \cap Writes(o) # {}, v \notin Drops(o)
  PROVE  o = "createWarehouse"
  BY DEF Views, Writers, Reads, Writes, Drops

\* A created warehouse changes the two views that list or count warehouses.
LEMMA WarehousesRead ==
  ASSUME NEW v \in Views, Reads(v) \cap Writes("createWarehouse") # {}
  PROVE  v \in {"warehouses", "summary"}
  BY DEF Views, Reads, Writes

\* Only a writer writes.
WritersWrite == \A t \in Requests : pc[t] = "write" => op[t] \in Writers

ViewIInv ==
  /\ ViewTypeOK
  /\ WritersWrite
  /\ StaleIsExplained

\* At the start there is nothing to explain.
LEMMA InitExplained == ViewInit => ViewIInv
  BY DEF ViewInit, ViewIInv, ViewTypeOK, WritersWrite, StaleIsExplained, Excused

\* Every step keeps staleness explained: a writer forgets no view but at creations of
\* warehouses, and the others are seen to delete.
LEMMA NextExplained == ViewIInv /\ [ViewNext]_viewVars => ViewIInv'
<1> SUFFICES ASSUME ViewIInv, [ViewNext]_viewVars PROVE ViewIInv'
  OBVIOUS
<1> USE DEF ViewIInv, ViewTypeOK, WritersWrite, StaleIsExplained, Excused, Affects
<1>1. ASSUME NEW t \in Requests, NEW o \in Writers \cup {"read"}, Call(t, o) PROVE ViewIInv'
  BY <1>1 DEF Call, Proceed
<1>2. ASSUME NEW t \in Requests, CacheGet(t) PROVE ViewIInv'
  BY <1>2 DEF CacheGet, Proceed
<1>3. ASSUME NEW t \in Requests, Load(t) PROVE ViewIInv'
  BY <1>3 DEF Load, Proceed
<1>4. ASSUME NEW t \in Requests, CacheSet(t) PROVE ViewIInv'
  <2>1. copy[t] \in {"fresh", "stale"}
    BY <1>4 DEF CacheSet
  <2>2. /\ doubt' \in BOOLEAN /\ entry' \in {"none", "fresh", "stale"}
        /\ doubt' => entry' = "stale"
        /\ lacking' \in BOOLEAN
        /\ lacking' => entry' = "stale" /\ view \in {"warehouses", "summary"}
        /\ entry' = "stale" => doubt' \/ UNCHANGED <<entry, doubt, lacking>>
    <3>1. CASE entry' = copy[t] /\ doubt' = (copy[t] = "stale") /\ lacking' = FALSE
      BY <2>1, <3>1
    <3>2. CASE UNCHANGED <<entry, doubt, lacking>>
      BY <3>2
    <3>3. QED
      BY <1>4, <3>1, <3>2 DEF CacheSet
  <2>3. /\ pc' = [pc EXCEPT ![t] = "idle"] /\ copy' = [copy EXCEPT ![t] = "none"]
        /\ UNCHANGED <<view, op>> /\ pc[t] = "set"
    BY <1>4 DEF CacheSet, Proceed
  <2>4. ViewTypeOK' /\ WritersWrite'
    BY <2>2, <2>3
  <2>5. StaleIsExplained'
    BY <2>2, <2>3
  <2>6. QED
    BY <2>4, <2>5
<1>5. ASSUME NEW t \in Requests, Write(t) PROVE ViewIInv'
  <2>1. /\ pc[t] = "write" /\ op[t] \in Writers /\ UNCHANGED <<view, op, doubt>>
        /\ pc' = [pc EXCEPT ![t] = IF view \in Drops(op[t]) THEN "drop" ELSE "idle"]
    BY <1>5 DEF Write, Proceed
  <2>2. CASE ~Affects(op[t])
    <3>1. UNCHANGED <<entry, copy, lacking>>
      BY <1>5, <2>2 DEF Write
    <3>2. ViewTypeOK' /\ WritersWrite'
      BY <2>1, <3>1
    <3>3. StaleIsExplained'
      BY <2>1, <3>1
    <3>4. QED
      BY <3>2, <3>3
  <2>3. CASE Affects(op[t])
    <3>1. /\ entry' = Aged(entry) /\ copy' = [u \in Requests |-> Aged(copy[u])]
          /\ lacking' = (lacking \/ (op[t] = "createWarehouse" /\ entry = "fresh"))
      BY <1>5, <2>3 DEF Write
    <3>2. /\ \A v \in {"none", "fresh", "stale"} :
               Aged(v) \in {"none", "stale"} /\ (Aged(v) = "none" <=> v = "none")
          /\ Aged("fresh") = "stale" /\ Aged("stale") = "stale"
      BY DEF Aged
    <3>3. /\ lacking' \in BOOLEAN /\ (lacking => lacking') /\ (lacking' => entry' = "stale")
          /\ op[t] = "createWarehouse" /\ entry = "fresh" => lacking'
          /\ doubt => entry' = "stale"
      BY <3>1, <3>2
    <3>4. lacking' => view \in {"warehouses", "summary"}
      BY <2>3, <3>1, WarehousesRead
    <3>5. ViewTypeOK' /\ WritersWrite'
      BY <2>1, <3>1, <3>2, <3>3, <3>4
    <3>6. ASSUME entry' = "stale", ~doubt', ~lacking'
          PROVE  \E u \in Requests : pc'[u] = "drop" /\ Affects(op[u])'
      <4>1. CASE view \in Drops(op[t])
        BY <2>1, <2>3, <4>1
      <4>2. CASE view \notin Drops(op[t])
        <5>1. op[t] = "createWarehouse"
          BY <2>1, <2>3, <4>2, WritersForget
        <5>2. entry = "stale" /\ ~doubt /\ ~lacking
          BY <2>1, <3>1, <3>2, <3>3, <3>6, <5>1
        <5>3. PICK u \in Requests : pc[u] = "drop" /\ Affects(op[u])
          BY <5>2
        <5>4. QED
          BY <2>1, <5>3
      <4>3. QED
        BY <4>1, <4>2
    <3>7. QED
      BY <3>5, <3>6
  <2>4. QED
    BY <2>2, <2>3
<1>6. ASSUME NEW t \in Requests, Drop(t) PROVE ViewIInv'
  BY <1>6 DEF Drop, Proceed
<1>7. ASSUME NEW t \in Requests, Fail(t) PROVE ViewIInv'
  BY <1>7 DEF Fail, Proceed
<1>8. CASE Expire
  BY <1>8 DEF Expire
<1>9. CASE UNCHANGED viewVars
  BY <1>9 DEF viewVars
<1>10. QED
  BY <1>1, <1>2, <1>3, <1>4, <1>5, <1>6, <1>7, <1>8, <1>9 DEF ViewNext

\* The state of the cache, of its readers and of its writers keeps its type.
THEOREM ViewCacheTypeCorrect == ViewSpec => []ViewTypeOK
<1>1. ViewIInv => ViewTypeOK
  BY DEF ViewIInv
<1>2. QED
  BY <1>1, InitExplained, NextExplained, PTL DEF ViewSpec

\* A stale entry is about to be deleted by the writer that made it stale, or it came too
\* late, or outlived a failed deletion; or else it lacks a created warehouse.
THEOREM StalenessExplained == ViewSpec => []StaleIsExplained
<1>1. ViewIInv => StaleIsExplained
  BY DEF ViewIInv
<1>2. QED
  BY <1>1, InitExplained, NextExplained, PTL DEF ViewSpec
=============================================================================
