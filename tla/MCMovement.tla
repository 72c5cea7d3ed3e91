----------------------------- MODULE MCMovement -----------------------------
(***************************************************************************)
(* Instances of Movement for TLC.  Two warehouses, two products; m1 and m2 *)
(* transfer the same product in opposite directions, m1 has two lines, m4  *)
(* adjusts up a row that does not exist at first, m3 takes from that row   *)
(* in two lines, and with MaxQty = 3 both ends of the range are met.       *)
(***************************************************************************)
EXTENDS Movement, FiniteSetsExt, TLC

CONSTANTS m1, m2, m3, m4, l1, l2, l3, l4, l5, l6

MCWarehouses == {1, 2}
MCProducts == {1, 2}
MCLines == {l1, l2, l3, l4, l5, l6}

Document(type, src, dst, lines) ==
  [type |-> type, src |-> src, dst |-> dst, lines |-> lines]
Entry(product, qty) == [product |-> product, qty |-> qty]

AllDocs ==
  m1 :> Document("transfer", 1, 2, {l1, l2})
    @@ m2 :> Document("transfer", 2, 1, {l3})
    @@ m3 :> Document("outbound", 2, None, {l4, l5})
    @@ m4 :> Document("adjustment", None, 2, {l6})
MCDoc == [m \in Movements |-> AllDocs[m]]

MCItem ==
  l1 :> Entry(1, 1) @@ l2 :> Entry(2, 1) @@ l3 :> Entry(1, 1)
    @@ l4 :> Entry(2, 1) @@ l5 :> Entry(2, 1) @@ l6 :> Entry(2, 3)

MCOpeningRows == {<<1, 1>>, <<1, 2>>, <<2, 1>>}
MCOpening == [k \in MCWarehouses \X MCProducts |->
                IF k = <<1, 1>> THEN 2 ELSE IF k = <<2, 2>> THEN 0 ELSE 2]
MCReorderLevel == [p \in MCProducts |-> IF p = 1 THEN 2 ELSE 0]

MCNet ==
  [m \in Movements |->
    [S \in SUBSET MCDoc[m].lines |->
      [k \in Keys |-> MapThenSumSet(LAMBDA ln : Delta(m, ln, k), S)]]]

\* Requests are interchangeable: Next quantifies over them and chooses none.
Symmetry == Permutations(Requests)
=============================================================================
