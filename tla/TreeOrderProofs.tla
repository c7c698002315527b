-------------------------- MODULE TreeOrderProofs --------------------------
(***************************************************************************)
(* Theorems about the order of the keys in the tree of ProllyTree, and     *)
(* what follows from it for trees that are only inserted into: the tree is *)
(* the map that its callers expect (Dictionary), its leaves are sorted and *)
(* list_keys answers its keys.                                             *)
(***************************************************************************)
EXTENDS ProllyTreeProofs

-----------------------------------------------------------------------------
(* Order: what is below a separator and its digest, level by level         *)

(***************************************************************************)
(* A layer says of a separator and what stands beside it which pairs are   *)
(* below (part), and of a digest and a lower bound whether what is below   *)
(* is in order (ok).                                                       *)
(***************************************************************************)
Layers == [part : [Keys \X Universe -> SUBSET (Keys \X Values)], ok : SUBSET (Universe \X Nat)]

(***************************************************************************)
(* The keys of a set of pairs.                                             *)
(***************************************************************************)
KeysOf(P) == {p[1] : p \in P}

(***************************************************************************)
(* The pairs below item i of a node with digest h, seen from the layer     *)
(* under it.                                                               *)
(***************************************************************************)
PartAt(h, i, L) == L.part[<<h[1][i], h[2][i]>>]

(***************************************************************************)
(* The pairs below a whole node.                                           *)
(***************************************************************************)
Within(h, L) == UNION {PartAt(h, i, L) : i \in 1..Len(h[1])}

(***************************************************************************)
(* The lower bound of item i: the first item stands for its parent, whose  *)
(* bound it keeps (the root has 0), each other begins at its own           *)
(* separator.                                                              *)
(***************************************************************************)
LowAt(h, lo, i) == IF i = 1 THEN lo ELSE h[1][i]

(***************************************************************************)
(* What is below item i is in order from its lower bound, and the          *)
(* separator is a key below it. It need not be the least one: an insert of *)
(* a smaller key descends into the first child and leaves the separators   *)
(* above as they were.                                                     *)
(***************************************************************************)
ItemAt(h, lo, i, L) ==
    /\ <<h[2][i], LowAt(h, lo, i)>> \in L.ok
    /\ h[1][i] \in KeysOf(PartAt(h, i, L))
    /\ \A x \in KeysOf(PartAt(h, i, L)) : LowAt(h, lo, i) <= x

(***************************************************************************)
(* Every key below an item is smaller than the separators after it.        *)
(***************************************************************************)
Apart(h, L) ==
    \A i, j \in 1..Len(h[1]) : i < j => \A x \in KeysOf(PartAt(h, i, L)) : x < h[1][j]

(***************************************************************************)
(* The items of a node are in order from a lower bound. The separator of   *)
(* the first one is that bound, except on the left edge of the tree.       *)
(***************************************************************************)
Row(h, lo, L) ==
    /\ Len(h[1]) = Len(h[2])
    /\ \A i \in 1..Len(h[1]) : ItemAt(h, lo, i, L)
    /\ Apart(h, L)
    /\ h[1] # <<>> => lo = 0 \/ h[1][1] = lo

(***************************************************************************)
(* The lowest layer: beside its key in a leaf stands a value, and the pair *)
(* of the two is all that is below.                                        *)
(***************************************************************************)
Bottom ==
    [part |-> [x \in Keys \X Universe |-> {x} \cap (Keys \X Values)], ok |-> Values \X Nat]

(***************************************************************************)
(* A digest with as many keys as values.                                   *)
(***************************************************************************)
Paired(h) == h \in Digests /\ Len(h[1]) = Len(h[2])

(***************************************************************************)
(* One layer up: below a digest is what is below the items of its node,    *)
(* and it is in order if they are and there is one.                        *)
(***************************************************************************)
Up(L) ==
    [part |-> [x \in Keys \X Universe |-> IF Paired(x[2]) THEN Within(x[2], L) ELSE {}],
     ok |-> {x \in Digests \X Nat : x[1][2] # <<>> /\ Row(x[1], x[2], L)}]

(***************************************************************************)
(* Layer[0] is the layer of the items of leaves, Layer[e] that of the      *)
(* items of nodes at level e.                                              *)
(***************************************************************************)
Layer == CHOOSE f : Repeats(f, Layers, Bottom, [L \in Layers |-> Up(L)])

(***************************************************************************)
(* What a digest is made of.                                               *)
(***************************************************************************)
LEMMA DigestIs ==
    ASSUME NEW h \in Digests
    PROVE  /\ h[1] \in Seq(Keys) /\ h[2] \in Seq(Universe) /\ h = <<h[1], h[2]>>
           /\ Len(h[1]) \in Nat /\ Len(h[2]) \in Nat
           /\ \A i \in 1..Len(h[1]) : h[1][i] \in Keys /\ h[1][i] \in Nat
           /\ \A i \in 1..Len(h[2]) : h[2][i] \in Universe
<1>1. h[1] \in Seq(Keys) /\ h[2] \in Seq(Universe) /\ h = <<h[1], h[2]>>
  BY DEF Digests
<1>2. Keys \subseteq Nat
  BY TreeAssumption
<1>3. \A i \in 1..Len(h[1]) : h[1][i] \in Keys
  BY <1>1, ElementOfSeq
<1>4. \A i \in 1..Len(h[2]) : h[2][i] \in Universe
  BY <1>1, ElementOfSeq
<1> QED BY <1>1, <1>2, <1>3, <1>4

(***************************************************************************)
(* Below an item there are pairs of keys and values.                       *)
(***************************************************************************)
LEMMA PartType ==
    ASSUME NEW L \in Layers, NEW h \in Digests, Len(h[1]) = Len(h[2])
    PROVE  /\ \A i \in 1..Len(h[1]) : /\ PartAt(h, i, L) \in SUBSET (Keys \X Values)
                                     /\ KeysOf(PartAt(h, i, L)) \subseteq Keys
                                     /\ \A p \in PartAt(h, i, L) : p[1] \in Keys
           /\ Within(h, L) \in SUBSET (Keys \X Values)
<1>1. ASSUME NEW i \in 1..Len(h[1])
      PROVE  PartAt(h, i, L) \in SUBSET (Keys \X Values)
  <2>1. <<h[1][i], h[2][i]>> \in Keys \X Universe
    BY DigestIs
  <2>2. L.part \in [Keys \X Universe -> SUBSET (Keys \X Values)]
    BY DEF Layers
  <2> QED BY <2>1, <2>2 DEF PartAt
<1>2. ASSUME NEW i \in 1..Len(h[1])
      PROVE  KeysOf(PartAt(h, i, L)) \subseteq Keys /\ \A p \in PartAt(h, i, L) : p[1] \in Keys
  BY <1>1 DEF KeysOf
<1> QED BY <1>1, <1>2 DEF Within

(***************************************************************************)
(* A layer up is a layer.                                                  *)
(***************************************************************************)
LEMMA UpType ==
    ASSUME NEW L \in Layers
    PROVE  Up(L) \in Layers
<1>1. Digests \subseteq Universe
  BY UniverseClosed
<1> DEFINE part == [x \in Keys \X Universe |-> IF Paired(x[2]) THEN Within(x[2], L) ELSE {}]
           ok == {x \in Digests \X Nat : x[1][2] # <<>> /\ Row(x[1], x[2], L)}
<1>2. ok \in SUBSET (Universe \X Nat)
  BY <1>1
<1>3. part \in [Keys \X Universe -> SUBSET (Keys \X Values)]
  BY PartType DEF Paired
<1> HIDE DEF part, ok
<1>4. [part |-> part, ok |-> ok] \in Layers
  BY <1>2, <1>3 DEF Layers
<1> QED BY <1>4 DEF Up, part, ok

(***************************************************************************)
(* The layers exist, one over the other.                                   *)
(***************************************************************************)
LEMMA LayerIs ==
    /\ Layer[0] = Bottom
    /\ \A e \in Nat : Layer[e] \in Layers /\ Layer[e + 1] = Up(Layer[e])
<1> DEFINE S == [L \in Layers |-> Up(L)]
<1>1. Bottom \in Layers
  <2>1. Values \subseteq Universe
    BY UniverseClosed
  <2> QED BY <2>1 DEF Bottom, Layers
<1>2. S \in [Layers -> Layers]
  BY UpType
<1>3. \A L \in Layers : S[L] = Up(L)
  OBVIOUS
<1>4. Layer = CHOOSE f : Repeats(f, Layers, Bottom, S)
  BY DEF Layer
<1> HIDE DEF S
<1>5. Repeats(Layer, Layers, Bottom, S)
  BY <1>1, <1>2, <1>4, Repeated
<1>6. \A e \in Nat : Layer[e] \in Layers
  BY <1>5 DEF Repeats
<1> QED BY <1>3, <1>5, <1>6 DEF Repeats

(***************************************************************************)
(* What the next layer says of a digest.                                   *)
(***************************************************************************)
LEMMA LayerUp ==
    ASSUME NEW e \in Nat, NEW k \in Keys, NEW h, Paired(h)
    PROVE  /\ Layer[e + 1].part[<<k, h>>] = Within(h, Layer[e])
           /\ \A lo \in Nat : <<h, lo>> \in Layer[e + 1].ok <=> h[2] # <<>> /\ Row(h, lo, Layer[e])
<1>1. Layer[e + 1] = Up(Layer[e])
  BY LayerIs
<1>2. <<k, h>> \in Keys \X Universe /\ <<k, h>>[2] = h
  BY UniverseClosed DEF Paired
<1>3. Up(Layer[e]).part[<<k, h>>] = Within(h, Layer[e])
  BY <1>2 DEF Up
<1>4. ASSUME NEW lo \in Nat
      PROVE  <<h, lo>> \in Up(Layer[e]).ok <=> h[2] # <<>> /\ Row(h, lo, Layer[e])
  <2>1. <<h, lo>> \in Digests \X Nat /\ <<h, lo>>[1] = h /\ <<h, lo>>[2] = lo
    BY DEF Paired
  <2> QED BY <2>1 DEF Up
<1> QED BY <1>1, <1>3, <1>4

(***************************************************************************)
(* What is in order is a digest with items in order.                       *)
(***************************************************************************)
LEMMA LayerOk ==
    ASSUME NEW e \in Nat, NEW h, NEW lo, <<h, lo>> \in Layer[e + 1].ok
    PROVE  Paired(h) /\ h[2] # <<>> /\ lo \in Nat /\ Row(h, lo, Layer[e])
<1>1. Layer[e + 1] = Up(Layer[e])
  BY LayerIs
<1>2. <<h, lo>> \in {x \in Digests \X Nat : x[1][2] # <<>> /\ Row(x[1], x[2], Layer[e])}
  BY <1>1 DEF Up
<1> QED BY <1>2 DEF Paired, Row

(***************************************************************************)
(* What the lowest layer says of a value.                                  *)
(***************************************************************************)
LEMMA BottomIs ==
    /\ Layer[0].ok = Values \X Nat
    /\ \A k \in Keys, v \in Values : Layer[0].part[<<k, v>>] = {<<k, v>>}
<1>1. ASSUME NEW k \in Keys, NEW v \in Values PROVE Bottom.part[<<k, v>>] = {<<k, v>>}
  <2>1. <<k, v>> \in Keys \X Universe
    BY UniverseClosed
  <2> QED BY <2>1 DEF Bottom
<1>2. Bottom.ok = Values \X Nat
  BY DEF Bottom
<1>3. Layer[0] = Bottom
  BY LayerIs
<1> QED BY <1>1, <1>2, <1>3

(***************************************************************************)
(* Membership in the keys of a set of pairs.                               *)
(***************************************************************************)
LEMMA KeysIn ==
    ASSUME NEW P, NEW x
    PROVE  x \in KeysOf(P) <=> \E p \in P : p[1] = x
BY DEF KeysOf

(***************************************************************************)
(* A pair, or a key, is below a node exactly if it is below one of its     *)
(* items.                                                                  *)
(***************************************************************************)
LEMMA WithinHas ==
    ASSUME NEW L, NEW h
    PROVE  /\ \A p : p \in Within(h, L) <=> \E i \in 1..Len(h[1]) : p \in PartAt(h, i, L)
           /\ \A x : x \in KeysOf(Within(h, L)) <=> \E i \in 1..Len(h[1]) : x \in KeysOf(PartAt(h, i, L))
<1>1. \A p : p \in Within(h, L) <=> \E i \in 1..Len(h[1]) : p \in PartAt(h, i, L)
  BY DEF Within
<1> QED BY <1>1, KeysIn

(***************************************************************************)
(* The separators of a row increase, are keys below their items and not    *)
(* below the bounds of these.                                              *)
(***************************************************************************)
LEMMA RowItems ==
    ASSUME NEW L \in Layers, NEW h \in Digests, NEW lo \in Nat, Row(h, lo, L)
    PROVE  /\ Paired(h) /\ Len(h[1]) \in Nat /\ Len(h[2]) = Len(h[1])
           /\ \A i \in 1..Len(h[1]) :
                /\ h[1][i] \in Keys /\ h[1][i] \in Nat /\ h[2][i] \in Universe
                /\ LowAt(h, lo, i) \in Nat /\ LowAt(h, lo, i) <= h[1][i]
                /\ KeysOf(PartAt(h, i, L)) \subseteq Nat
                /\ h[1][i] \in KeysOf(PartAt(h, i, L))
           /\ \A i, j \in 1..Len(h[1]) : i < j => h[1][i] < h[1][j]
<1>1. Paired(h) /\ Len(h[1]) \in Nat /\ Len(h[2]) = Len(h[1])
  BY DigestIs DEF Row, Paired
<1>2. \A i \in 1..Len(h[1]) : h[1][i] \in Keys /\ h[1][i] \in Nat /\ h[2][i] \in Universe
  BY <1>1, DigestIs
<1>3. \A i \in 1..Len(h[1]) : h[1][i] \in KeysOf(PartAt(h, i, L)) /\ LowAt(h, lo, i) <= h[1][i]
  BY DEF Row, ItemAt
<1>4. \A i \in 1..Len(h[1]) : LowAt(h, lo, i) \in Nat
  BY <1>2 DEF LowAt
<1>5. \A i \in 1..Len(h[1]) : KeysOf(PartAt(h, i, L)) \subseteq Nat
  BY <1>1, PartType, TreeAssumption
<1>6. \A i, j \in 1..Len(h[1]) : i < j => h[1][i] < h[1][j]
  BY <1>3 DEF Row, Apart
<1> QED BY <1>1, <1>2, <1>3, <1>4, <1>5, <1>6

-----------------------------------------------------------------------------
(* Order: a part of a row, rows that follow each other, a removed item     *)

(***************************************************************************)
(* Item q of one digest is item p of another.                              *)
(***************************************************************************)
SameItem(r, q, h, p) == r[1][q] = h[1][p] /\ r[2][q] = h[2][p]

(***************************************************************************)
(* The same item has the same pairs below it.                              *)
(***************************************************************************)
LEMMA SameItemPart ==
    ASSUME NEW L, NEW r, NEW q, NEW h, NEW p, SameItem(r, q, h, p)
    PROVE  PartAt(r, q, L) = PartAt(h, p, L)
BY DEF SameItem, PartAt

(***************************************************************************)
(* The same item with the same bound is in order in both.                  *)
(***************************************************************************)
LEMMA SameItemAt ==
    ASSUME NEW L, NEW r, NEW q, NEW h, NEW p, SameItem(r, q, h, p),
           NEW lo, NEW low, ItemAt(h, lo, p, L), LowAt(r, low, q) = LowAt(h, lo, p)
    PROVE  ItemAt(r, low, q, L)
<1>1. PartAt(r, q, L) = PartAt(h, p, L)
  BY SameItemPart
<1> QED BY <1>1 DEF SameItem, ItemAt

(***************************************************************************)
(* Consecutive items of a row are a row from the bound of the first of     *)
(* them: a piece of a node that is cut.                                    *)
(***************************************************************************)
LEMMA RowPart ==
    ASSUME NEW L \in Layers, NEW h \in Digests, NEW lo \in Nat, Row(h, lo, L),
           NEW g, Paired(g), NEW s \in Nat,
           \A j \in 1..Len(g[1]) : s + j \in 1..Len(h[1]) /\ SameItem(g, j, h, s + j)
    PROVE  Row(g, LowAt(h, lo, s + 1), L)
<1> DEFINE low == LowAt(h, lo, s + 1)
<1>0. Len(g[1]) \in Nat /\ Len(g[1]) = Len(g[2]) /\ g[1] \in Seq(Keys)
  BY DigestIs DEF Paired
<1>1. ASSUME NEW j \in 1..Len(g[1]) PROVE ItemAt(g, low, j, L)
  <2>1. s + j \in 1..Len(h[1]) /\ SameItem(g, j, h, s + j)
    OBVIOUS
  <2>2. ItemAt(h, lo, s + j, L)
    BY <2>1 DEF Row
  <2>3. LowAt(g, low, j) = LowAt(h, lo, s + j)
    <3>1. CASE j = 1
      BY <3>1 DEF LowAt
    <3>2. CASE j # 1
      <4>1. s + j # 1
        BY <3>2
      <4> QED BY <2>1, <3>2, <4>1 DEF LowAt, SameItem
    <3> QED BY <3>1, <3>2
  <2> HIDE DEF low
  <2> QED BY <2>1, <2>2, <2>3, SameItemAt
<1>2. Apart(g, L)
  <2> SUFFICES ASSUME NEW i \in 1..Len(g[1]), NEW j \in 1..Len(g[1]), i < j,
                      NEW x \in KeysOf(PartAt(g, i, L))
               PROVE  x < g[1][j]
    BY DEF Apart
  <2>1. s + i \in 1..Len(h[1]) /\ s + j \in 1..Len(h[1]) /\ s + i < s + j
    OBVIOUS
  <2>2. SameItem(g, i, h, s + i) /\ SameItem(g, j, h, s + j)
    OBVIOUS
  <2>3. PartAt(g, i, L) = PartAt(h, s + i, L)
    BY <2>2, SameItemPart
  <2> QED BY <2>1, <2>2, <2>3 DEF Row, Apart, SameItem
<1>3. ASSUME g[1] # <<>> PROVE low = 0 \/ g[1][1] = low
  <2>1. 1 \in 1..Len(g[1])
    BY <1>0, <1>3, EmptySeq
  <2>2. s + 1 \in 1..Len(h[1]) /\ g[1][1] = h[1][s + 1]
    BY <2>1 DEF SameItem
  <2>3. h[1] # <<>>
    <3>1. Len(<<>>) = 0
      OBVIOUS
    <3> QED BY <2>2, <3>1
  <2> QED BY <2>2, <2>3 DEF LowAt, Row
<1> QED BY <1>0, <1>1, <1>2, <1>3 DEF Row

(***************************************************************************)
(* Two rows that follow each other make one: a node and the sibling that   *)
(* it takes in.                                                            *)
(***************************************************************************)
LEMMA RowJoin ==
    ASSUME NEW L \in Layers, NEW h \in Digests, NEW g \in Digests, NEW lo \in Nat, Row(h, lo, L),
           g[1] # <<>>, Row(g, g[1][1], L), h[1] # <<>>,
           \A x \in KeysOf(Within(h, L)) : x < g[1][1],
           NEW r \in Digests, Joins(r[1], h[1], g[1], Keys), Joins(r[2], h[2], g[2], Universe)
    PROVE  Row(r, lo, L) /\ Within(r, L) = Within(h, L) \cup Within(g, L)
<1> DEFINE a == Len(h[1])
           b == Len(g[1])
           low == g[1][1]
<1>0. /\ a \in Nat /\ b \in Nat /\ a > 0 /\ b > 0 /\ Len(r[1]) = a + b /\ Len(r[2]) = a + b
      /\ Len(h[2]) = a /\ Len(g[2]) = b /\ low \in Nat /\ Len(h[1]) = a /\ Len(g[1]) = b
  <2>1. a \in Nat /\ b \in Nat /\ Len(h[2]) = a /\ Len(g[2]) = b
    BY DigestIs DEF Row
  <2>2. a > 0 /\ b > 0
    BY <2>1, DigestIs, EmptySeq
  <2>3. low \in Nat
    BY <2>1, <2>2, DigestIs
  <2> QED BY <2>1, <2>2, <2>3 DEF Joins
<1> HIDE DEF a, b
<1>1. \A q \in 1..a : SameItem(r, q, h, q)
  BY <1>0 DEF Joins, SameItem
<1>2. \A p \in 1..b : SameItem(r, a + p, g, p)
  BY <1>0 DEF Joins, SameItem
<1>3. \A q \in 1..(a + b) : q \in 1..a \/ (q - a \in 1..b /\ q = a + (q - a))
  BY <1>0
<1>4. \A i, j \in 1..b : i < j => g[1][i] < g[1][j]
  BY <1>0, RowItems
<1>5. \A i \in 1..b : low <= g[1][i] /\ g[1][i] \in Nat
  <2> SUFFICES ASSUME NEW i \in 1..b PROVE low <= g[1][i] /\ g[1][i] \in Nat
    OBVIOUS
  <2>1. g[1][i] \in Nat
    BY <1>0, DigestIs
  <2>2. 1 \in 1..b
    BY <1>0
  <2>3. i = 1 \/ 1 < i
    BY <1>0
  <2>4. i # 1 => low < g[1][i]
    BY <1>4, <2>2, <2>3
  <2> QED BY <1>0, <2>1, <2>4
<1>6. ASSUME NEW q \in 1..(a + b) PROVE ItemAt(r, lo, q, L)
  <2>1. CASE q \in 1..a
    <3>1. ItemAt(h, lo, q, L)
      BY <1>0, <2>1 DEF Row
    <3>2. LowAt(r, lo, q) = LowAt(h, lo, q)
      BY <1>1, <2>1 DEF LowAt, SameItem
    <3> QED BY <1>1, <2>1, <3>1, <3>2, SameItemAt
  <2>2. CASE q \notin 1..a
    <3> DEFINE p == q - a
    <3>1. p \in 1..b /\ q = a + p
      BY <1>3, <2>2
    <3>2. SameItem(r, q, g, p)
      BY <1>2, <3>1
    <3>3. ItemAt(g, low, p, L)
      BY <1>0, <3>1 DEF Row
    <3>4. LowAt(r, lo, q) = g[1][p] /\ LowAt(g, low, p) = g[1][p]
      <4>1. q # 1
        BY <1>0, <2>2
      <4> QED BY <3>2, <4>1 DEF LowAt, SameItem
    <3> HIDE DEF p, low
    <3>5. LowAt(r, lo, q) = LowAt(g, low, p)
      BY <3>4
    <3> QED BY <3>2, <3>3, <3>5, SameItemAt
  <2> QED BY <2>1, <2>2
<1>7. Apart(r, L)
  <2> SUFFICES ASSUME NEW i \in 1..Len(r[1]), NEW j \in 1..Len(r[1]), i < j,
                      NEW x \in KeysOf(PartAt(r, i, L))
               PROVE  x < r[1][j]
    BY DEF Apart
  <2>0. i \in 1..(a + b) /\ j \in 1..(a + b)
    BY <1>0
  <2>1. CASE j \in 1..a
    <3>1. i \in 1..a
      BY <1>0, <2>1
    <3>2. PartAt(r, i, L) = PartAt(h, i, L) /\ r[1][j] = h[1][j]
      BY <1>1, <2>1, <3>1, SameItemPart DEF SameItem
    <3> QED BY <1>0, <2>1, <3>1, <3>2 DEF Row, Apart
  <2>2. CASE j \notin 1..a /\ i \in 1..a
    <3>1. PartAt(r, i, L) = PartAt(h, i, L)
      BY <1>1, <2>2, SameItemPart
    <3>2. x \in KeysOf(Within(h, L))
      BY <1>0, <2>2, <3>1, WithinHas
    <3>3. x < low
      BY <3>2
    <3>4. j - a \in 1..b /\ r[1][j] = g[1][j - a]
      BY <1>2, <1>3, <2>0, <2>2 DEF SameItem
    <3>5. x \in Nat
      BY <1>0, <2>2, <3>1, RowItems
    <3>6. low <= r[1][j] /\ r[1][j] \in Nat
      BY <1>5, <3>4
    <3> HIDE DEF low
    <3> QED BY <1>0, <3>3, <3>5, <3>6
  <2>3. CASE i \notin 1..a
    <3>1. i - a \in 1..b /\ i = a + (i - a)
      BY <1>3, <2>0, <2>3
    <3>2. j - a \in 1..b /\ j = a + (j - a) /\ i - a < j - a
      BY <1>0, <2>0, <3>1
    <3>3. PartAt(r, i, L) = PartAt(g, i - a, L) /\ r[1][j] = g[1][j - a]
      BY <1>2, <3>1, <3>2, SameItemPart DEF SameItem
    <3> QED BY <1>0, <3>1, <3>2, <3>3 DEF Row, Apart
  <2> QED BY <2>1, <2>2, <2>3
<1>8. lo = 0 \/ r[1][1] = lo
  <2>1. 1 \in 1..a
    BY <1>0
  <2>2. r[1][1] = h[1][1]
    BY <1>1, <2>1 DEF SameItem
  <2> QED BY <2>2 DEF Row
<1>9. ASSUME NEW p PROVE p \in Within(r, L) <=> p \in Within(h, L) \/ p \in Within(g, L)
  <2>1. ASSUME NEW i \in 1..(a + b), p \in PartAt(r, i, L) PROVE p \in Within(h, L) \/ p \in Within(g, L)
    <3>1. CASE i \in 1..a
      <4>1. PartAt(r, i, L) = PartAt(h, i, L)
        BY <1>1, <3>1, SameItemPart
      <4> QED BY <1>0, <2>1, <3>1, <4>1, WithinHas
    <3>2. CASE i \notin 1..a
      <4>1. i - a \in 1..b /\ SameItem(r, i, g, i - a)
        BY <1>2, <1>3, <3>2
      <4> QED BY <1>0, <2>1, <4>1, SameItemPart, WithinHas
    <3> QED BY <3>1, <3>2
  <2>2. ASSUME NEW i \in 1..a, p \in PartAt(h, i, L) PROVE p \in Within(r, L)
    <3>1. i \in 1..Len(r[1]) /\ PartAt(r, i, L) = PartAt(h, i, L)
      BY <1>0, <1>1, SameItemPart
    <3> QED BY <2>2, <3>1, WithinHas
  <2>3. ASSUME NEW i \in 1..b, p \in PartAt(g, i, L) PROVE p \in Within(r, L)
    <3>1. a + i \in 1..Len(r[1]) /\ PartAt(r, a + i, L) = PartAt(g, i, L)
      BY <1>0, <1>2, SameItemPart
    <3> QED BY <2>3, <3>1, WithinHas
  <2> QED BY <1>0, <2>1, <2>2, <2>3, WithinHas
<1> QED BY <1>0, <1>6, <1>7, <1>8, <1>9 DEF Row

(***************************************************************************)
(* A row without one of its items, not the first, is a row: the parent of  *)
(* a node that has taken in its sibling.                                   *)
(***************************************************************************)
LEMMA RowRemove ==
    ASSUME NEW L \in Layers, NEW h \in Digests, NEW lo \in Nat, Row(h, lo, L),
           NEW k \in 2..Len(h[1]), NEW g \in Digests,
           Removes(g[1], h[1], k, Keys), Removes(g[2], h[2], k, Universe)
    PROVE  /\ Row(g, lo, L)
           /\ \A j \in 1..(k - 1) : SameItem(g, j, h, j) /\ LowAt(g, lo, j) = LowAt(h, lo, j)
           /\ \A j \in k..Len(g[1]) : SameItem(g, j, h, j + 1)
<1> DEFINE a == Len(h[1])
<1>0. a \in Nat /\ Len(h[2]) = a /\ Len(h[1]) = a /\ Len(g[1]) = a - 1 /\ Len(g[2]) = a - 1 /\ k <= a
  BY RowItems DEF Removes
<1> HIDE DEF a
<1>1. \A j \in 1..(k - 1) : SameItem(g, j, h, j)
  BY DEF Removes, SameItem
<1>2. \A j \in k..(a - 1) : SameItem(g, j, h, j + 1)
  <2> SUFFICES ASSUME NEW j \in k..(a - 1) PROVE SameItem(g, j, h, j + 1)
    OBVIOUS
  <2>1. j + 1 \in (k + 1)..Len(h[1]) /\ j + 1 \in (k + 1)..Len(h[2]) /\ (j + 1) - 1 = j
    BY <1>0
  <2> QED BY <2>1 DEF Removes, SameItem
<1>3. \A j \in 1..(k - 1) : LowAt(g, lo, j) = LowAt(h, lo, j)
  BY <1>1 DEF SameItem, LowAt
<1>4. \A j \in k..(a - 1) : LowAt(g, lo, j) = LowAt(h, lo, j + 1)
  <2> SUFFICES ASSUME NEW j \in k..(a - 1) PROVE LowAt(g, lo, j) = LowAt(h, lo, j + 1)
    OBVIOUS
  <2>1. j # 1 /\ j + 1 # 1
    BY <1>0
  <2> QED BY <1>2, <2>1 DEF SameItem, LowAt
<1>5. ASSUME NEW j \in 1..(a - 1) PROVE ItemAt(g, lo, j, L)
  <2>1. CASE j <= k - 1
    <3>1. j \in 1..(k - 1) /\ j \in 1..Len(h[1])
      BY <1>0, <2>1
    <3>2. ItemAt(h, lo, j, L)
      BY <3>1 DEF Row
    <3> QED BY <1>1, <1>3, <3>1, <3>2, SameItemAt
  <2>2. CASE j >= k
    <3>1. j \in k..(a - 1) /\ j + 1 \in 1..Len(h[1])
      BY <1>0, <2>2
    <3>2. ItemAt(h, lo, j + 1, L)
      BY <3>1 DEF Row
    <3> QED BY <1>2, <1>4, <3>1, <3>2, SameItemAt
  <2> QED BY <2>1, <2>2
<1>6. Apart(g, L)
  <2> SUFFICES ASSUME NEW i \in 1..Len(g[1]), NEW j \in 1..Len(g[1]), i < j,
                      NEW x \in KeysOf(PartAt(g, i, L))
               PROVE  x < g[1][j]
    BY DEF Apart
  <2> DEFINE at(q) == IF q < k THEN q ELSE q + 1
  <2>1. \A q \in 1..(a - 1) : at(q) \in 1..a /\ SameItem(g, q, h, at(q))
    <3> SUFFICES ASSUME NEW q \in 1..(a - 1) PROVE at(q) \in 1..a /\ SameItem(g, q, h, at(q))
      OBVIOUS
    <3>1. CASE q < k
      <4>1. q \in 1..(k - 1) /\ q \in 1..a
        BY <1>0, <3>1
      <4> QED BY <1>1, <3>1, <4>1
    <3>2. CASE q >= k
      <4>1. q \in k..(a - 1) /\ q + 1 \in 1..a /\ ~(q < k)
        BY <1>0, <3>2
      <4> QED BY <1>2, <4>1
    <3> QED BY <3>1, <3>2
  <2>2. at(i) < at(j)
    BY <1>0
  <2> HIDE DEF at
  <2>3. i \in 1..(a - 1) /\ j \in 1..(a - 1)
    BY <1>0
  <2>4. PartAt(g, i, L) = PartAt(h, at(i), L) /\ g[1][j] = h[1][at(j)]
    BY <2>1, <2>3, SameItemPart DEF SameItem
  <2> QED BY <1>0, <2>1, <2>2, <2>3, <2>4 DEF Row, Apart
<1>7. ASSUME g[1] # <<>> PROVE lo = 0 \/ g[1][1] = lo
  <2>1. 1 \in 1..(k - 1) /\ h[1] # <<>>
    <3>1. Len(<<>>) = 0
      OBVIOUS
    <3> QED BY <1>0, <3>1
  <2>2. g[1][1] = h[1][1]
    BY <1>1, <2>1 DEF SameItem
  <2> QED BY <2>1, <2>2 DEF Row
<1> QED BY <1>0, <1>1, <1>2, <1>3, <1>5, <1>6, <1>7 DEF Row

-----------------------------------------------------------------------------
(* Order: a row put in the place of one item                               *)

(***************************************************************************)
(* The pairs below the items other than i.                                 *)
(***************************************************************************)
Others(h, i, L) == UNION {PartAt(h, j, L) : j \in (1..Len(h[1])) \ {i}}

(***************************************************************************)
(* Membership in them.                                                     *)
(***************************************************************************)
LEMMA OthersHas ==
    ASSUME NEW L, NEW h, NEW i
    PROVE  \A p : p \in Others(h, i, L) <=> \E j \in (1..Len(h[1])) \ {i} : p \in PartAt(h, j, L)
BY DEF Others

(***************************************************************************)
(* A row stays one if an item is replaced by a row from the bound of that  *)
(* item whose keys are below the separators after it.                      *)
(***************************************************************************)
LEMMA RowSplice ==
    ASSUME NEW L \in Layers, NEW h \in Digests, NEW lo \in Nat, Row(h, lo, L),
           NEW i \in 1..Len(h[1]),
           NEW t \in Digests, t[1] # <<>>, Row(t, LowAt(h, lo, i), L),
           \A x \in KeysOf(Within(t, L)) : \A j \in (i + 1)..Len(h[1]) : x < h[1][j],
           NEW r \in Digests, Splices(r[1], h[1], i, t[1], Keys), Splices(r[2], h[2], i, t[2], Universe)
    PROVE  Row(r, lo, L) /\ Within(r, L) = Others(h, i, L) \cup Within(t, L)
<1> DEFINE a == Len(h[1])
           b == Len(t[1])
           low == LowAt(h, lo, i)
           N == a + b - 1
<1>0. /\ a \in Nat /\ b \in Nat /\ b > 0 /\ i \in 1..a /\ low \in Nat
      /\ Len(h[1]) = a /\ Len(h[2]) = a /\ Len(t[1]) = b /\ Len(t[2]) = b
      /\ Len(r[1]) = N /\ Len(r[2]) = N
  <2>1. a \in Nat /\ Len(h[2]) = a /\ low \in Nat
    BY RowItems
  <2>2. b \in Nat /\ Len(t[2]) = b
    BY <2>1, RowItems
  <2>3. b > 0
    BY <2>2, DigestIs, EmptySeq
  <2> QED BY <2>1, <2>2, <2>3 DEF Splices
<1> HIDE DEF a, b
<1>1. \A q \in 1..(i - 1) : SameItem(r, q, h, q)
  BY DEF Splices, SameItem
<1>2. \A p \in 1..b : SameItem(r, i - 1 + p, t, p)
  BY <1>0 DEF Splices, SameItem
<1>3. \A p \in (i + 1)..a : SameItem(r, p + b - 1, h, p)
  BY <1>0 DEF Splices, SameItem
<1>4. \A q \in 1..N : \/ q \in 1..(i - 1)
                      \/ \E p \in 1..b : q = i - 1 + p
                      \/ \E p \in (i + 1)..a : q = p + b - 1
  <2> SUFFICES ASSUME NEW q \in 1..N
               PROVE  \/ q \in 1..(i - 1)
                      \/ \E p \in 1..b : q = i - 1 + p
                      \/ \E p \in (i + 1)..a : q = p + b - 1
    OBVIOUS
  <2>1. CASE q <= i - 1
    BY <1>0, <2>1
  <2>2. CASE q >= i /\ q <= i + b - 1
    <3> DEFINE p == q - i + 1
    <3>1. p \in 1..b /\ q = i - 1 + p
      BY <1>0, <2>2
    <3> QED BY <3>1
  <2>3. CASE q > i + b - 1
    <3> DEFINE p == q - (b - 1)
    <3>1. p \in (i + 1)..a /\ q = p + b - 1
      BY <1>0, <2>3
    <3> QED BY <3>1
  <2> QED BY <1>0, <2>1, <2>2, <2>3
<1>5. /\ \A q \in 1..(i - 1) : q \in 1..N /\ q \in 1..a
      /\ \A p \in 1..b : i - 1 + p \in 1..N
      /\ \A p \in (i + 1)..a : p + b - 1 \in 1..N /\ p \in 1..a
  BY <1>0
<1>6. \A p \in 1..b : low <= t[1][p] /\ t[1][p] \in Nat
  <2> SUFFICES ASSUME NEW p \in 1..b PROVE low <= t[1][p] /\ t[1][p] \in Nat
    OBVIOUS
  <2>1. 1 \in 1..b
    BY <1>0
  <2>2. t[1][p] \in Nat /\ t[1][1] \in Nat /\ low <= t[1][1] /\ (1 < p => t[1][1] < t[1][p])
    BY <1>0, <2>1, RowItems DEF LowAt
  <2> HIDE DEF low
  <2> QED BY <1>0, <2>2
<1>7. (low = 0 /\ i = 1) \/ t[1][1] = low
  <2>0. low = 0 \/ t[1][1] = low
    <3>1. Row(t, low, L)
      OBVIOUS
    <3> HIDE DEF low
    <3> QED BY <3>1 DEF Row
  <2>1. CASE i = 1
    <3> HIDE DEF low
    <3> QED BY <2>0, <2>1
  <2>2. CASE i # 1
    <3>1. 1 \in 1..a /\ 1 < i
      BY <1>0, <2>2
    <3>2. h[1][1] < h[1][i] /\ h[1][1] \in Nat /\ low = h[1][i]
      BY <1>0, <2>2, <3>1, RowItems DEF LowAt
    <3>3. low # 0
      BY <1>0, <3>2
    <3> HIDE DEF low
    <3> QED BY <2>0, <3>3
  <2> HIDE DEF low
  <2> QED BY <2>1, <2>2
<1>8. /\ \A q \in 1..(i - 1) : LowAt(r, lo, q) = LowAt(h, lo, q)
      /\ \A p \in 1..b : LowAt(r, lo, i - 1 + p) = LowAt(t, low, p)
      /\ \A p \in (i + 1)..a : LowAt(r, lo, p + b - 1) = LowAt(h, lo, p)
  <2>1. \A q \in 1..(i - 1) : LowAt(r, lo, q) = LowAt(h, lo, q)
    BY <1>1 DEF SameItem, LowAt
  <2>2. ASSUME NEW p \in 1..b PROVE LowAt(r, lo, i - 1 + p) = LowAt(t, low, p)
    <3>1. CASE i - 1 + p = 1
      <4>1. i = 1 /\ p = 1
        BY <1>0, <3>1
      <4> QED BY <4>1 DEF LowAt
    <3>2. CASE i - 1 + p # 1
      <4>1. LowAt(r, lo, i - 1 + p) = t[1][p]
        BY <1>2, <3>2 DEF SameItem, LowAt
      <4>2. LowAt(t, low, p) = t[1][p]
        <5>1. CASE p = 1
          <6>1. i # 1
            BY <3>2, <5>1
          <6>2. t[1][1] = low
            BY <1>7, <6>1
          <6> HIDE DEF low
          <6> QED BY <5>1, <6>2 DEF LowAt
        <5>2. CASE p # 1
          BY <5>2 DEF LowAt
        <5> QED BY <5>1, <5>2
      <4> QED BY <4>1, <4>2
    <3> QED BY <3>1, <3>2
  <2>3. ASSUME NEW p \in (i + 1)..a PROVE LowAt(r, lo, p + b - 1) = LowAt(h, lo, p)
    <3>1. p # 1 /\ p + b - 1 # 1
      BY <1>0
    <3> QED BY <1>3, <3>1 DEF SameItem, LowAt
  <2> QED BY <2>1, <2>2, <2>3
<1>9. ASSUME NEW q \in 1..N PROVE ItemAt(r, lo, q, L)
  <2>1. CASE q \in 1..(i - 1)
    <3>1. ItemAt(h, lo, q, L)
      BY <1>0, <1>5, <2>1 DEF Row
    <3> QED BY <1>1, <1>8, <2>1, <3>1, SameItemAt
  <2>2. ASSUME NEW p \in 1..b, q = i - 1 + p PROVE ItemAt(r, lo, q, L)
    <3>1. ItemAt(t, low, p, L)
      BY <1>0 DEF Row
    <3>2. SameItem(r, q, t, p) /\ LowAt(r, lo, q) = LowAt(t, low, p)
      BY <1>2, <1>8, <2>2
    <3> HIDE DEF low
    <3> QED BY <3>1, <3>2, SameItemAt
  <2>3. ASSUME NEW p \in (i + 1)..a, q = p + b - 1 PROVE ItemAt(r, lo, q, L)
    <3>1. ItemAt(h, lo, p, L)
      BY <1>0, <1>5 DEF Row
    <3> QED BY <1>3, <1>8, <2>3, <3>1, SameItemAt
  <2> QED BY <1>4, <2>1, <2>2, <2>3
<1> DEFINE Fine2(u, v) == \A x \in KeysOf(PartAt(r, u, L)) : x < r[1][v]
<1>10. ASSUME NEW u \in 1..(i - 1), NEW v \in 1..(i - 1), u < v PROVE Fine2(u, v)
  <2>1. PartAt(r, u, L) = PartAt(h, u, L) /\ r[1][v] = h[1][v]
    BY <1>1, SameItemPart DEF SameItem
  <2> QED BY <1>0, <1>5, <1>10, <2>1 DEF Row, Apart
<1>11. ASSUME NEW u \in 1..(i - 1), NEW p \in 1..b PROVE Fine2(u, i - 1 + p)
  <2>1. PartAt(r, u, L) = PartAt(h, u, L) /\ r[1][i - 1 + p] = t[1][p]
    BY <1>1, <1>2, SameItemPart DEF SameItem
  <2>2. low = h[1][i] /\ u \in 1..a /\ u < i
    BY <1>0 DEF LowAt
  <2>3. \A x \in KeysOf(PartAt(h, u, L)) : x < low /\ x \in Nat
    <3>1. \A x \in KeysOf(PartAt(h, u, L)) : x < h[1][i]
      BY <1>0, <2>2 DEF Row, Apart
    <3>2. KeysOf(PartAt(h, u, L)) \subseteq Nat
      BY <1>0, <2>2, RowItems
    <3> QED BY <2>2, <3>1, <3>2
  <2>4. low <= t[1][p] /\ t[1][p] \in Nat
    BY <1>6
  <2> HIDE DEF low
  <2> QED BY <1>0, <2>1, <2>3, <2>4
<1>12. ASSUME NEW u \in 1..(i - 1), NEW p \in (i + 1)..a PROVE Fine2(u, p + b - 1)
  <2>1. PartAt(r, u, L) = PartAt(h, u, L) /\ r[1][p + b - 1] = h[1][p]
    BY <1>1, <1>3, SameItemPart DEF SameItem
  <2>2. u < p
    BY <1>0
  <2> QED BY <1>0, <1>5, <2>1, <2>2 DEF Row, Apart
<1>13. ASSUME NEW u \in 1..b, NEW p \in 1..b, u < p PROVE Fine2(i - 1 + u, i - 1 + p)
  <2>1. PartAt(r, i - 1 + u, L) = PartAt(t, u, L) /\ r[1][i - 1 + p] = t[1][p]
    BY <1>2, SameItemPart DEF SameItem
  <2> QED BY <1>0, <1>13, <2>1 DEF Row, Apart
<1>14. ASSUME NEW u \in 1..b, NEW p \in (i + 1)..a PROVE Fine2(i - 1 + u, p + b - 1)
  <2>1. PartAt(r, i - 1 + u, L) = PartAt(t, u, L) /\ r[1][p + b - 1] = h[1][p]
    BY <1>2, <1>3, SameItemPart DEF SameItem
  <2> QED BY <1>0, <2>1, WithinHas
<1>15. ASSUME NEW u \in (i + 1)..a, NEW p \in (i + 1)..a, u < p PROVE Fine2(u + b - 1, p + b - 1)
  <2>1. PartAt(r, u + b - 1, L) = PartAt(h, u, L) /\ r[1][p + b - 1] = h[1][p]
    BY <1>3, SameItemPart DEF SameItem
  <2> QED BY <1>0, <1>5, <1>15, <2>1 DEF Row, Apart
<1>16. ASSUME NEW u \in 1..N, NEW v \in 1..N, u < v PROVE Fine2(u, v)
  <2> HIDE DEF Fine2
  <2>1. CASE u \in 1..(i - 1)
    BY <1>4, <1>10, <1>11, <1>12, <1>16, <2>1
  <2>2. ASSUME NEW p \in 1..b, u = i - 1 + p PROVE Fine2(u, v)
    <3>1. v \notin 1..(i - 1)
      BY <1>0, <1>16, <2>2
    <3>2. ASSUME NEW w \in 1..b, v = i - 1 + w PROVE Fine2(u, v)
      <4>1. p < w
        BY <1>0, <1>16, <2>2, <3>2
      <4> QED BY <1>13, <2>2, <3>2, <4>1
    <3>3. ASSUME NEW w \in (i + 1)..a, v = w + b - 1 PROVE Fine2(u, v)
      BY <1>14, <2>2, <3>3
    <3> QED BY <1>4, <3>1, <3>2, <3>3
  <2>3. ASSUME NEW p \in (i + 1)..a, u = p + b - 1 PROVE Fine2(u, v)
    <3>1. v \notin 1..(i - 1)
      BY <1>0, <1>16, <2>3
    <3>2. ASSUME NEW w \in 1..b PROVE v # i - 1 + w
      BY <1>0, <1>16, <2>3
    <3>3. ASSUME NEW w \in (i + 1)..a, v = w + b - 1 PROVE Fine2(u, v)
      <4>1. p < w
        BY <1>0, <1>16, <2>3, <3>3
      <4> QED BY <1>15, <2>3, <3>3, <4>1
    <3> QED BY <1>4, <3>1, <3>2, <3>3
  <2> QED BY <1>4, <2>1, <2>2, <2>3
<1>17. Apart(r, L)
  BY <1>0, <1>16 DEF Apart
<1>18. lo = 0 \/ r[1][1] = lo
  <2>1. CASE i = 1
    <3>1. 1 \in 1..b /\ i - 1 + 1 = 1
      BY <1>0, <2>1
    <3>2. r[1][1] = t[1][1]
      BY <1>2, <3>1 DEF SameItem
    <3>3. low = lo
      BY <2>1 DEF LowAt
    <3> HIDE DEF low
    <3> QED BY <1>7, <3>2, <3>3
  <2>2. CASE i # 1
    <3>1. 1 \in 1..(i - 1) /\ a > 0
      BY <1>0, <2>2
    <3>2. r[1][1] = h[1][1]
      BY <1>1, <3>1 DEF SameItem
    <3>3. h[1] # <<>>
      <4>1. Len(<<>>) = 0
        OBVIOUS
      <4> QED BY <1>0, <3>1, <4>1
    <3> QED BY <3>2, <3>3 DEF Row
  <2> QED BY <2>1, <2>2
<1>19. ASSUME NEW x PROVE x \in Within(r, L) <=> x \in Others(h, i, L) \/ x \in Within(t, L)
  <2>1. ASSUME NEW q \in 1..N, x \in PartAt(r, q, L)
        PROVE  x \in Others(h, i, L) \/ x \in Within(t, L)
    <3>1. CASE q \in 1..(i - 1)
      <4>1. PartAt(r, q, L) = PartAt(h, q, L) /\ q \in (1..Len(h[1])) \ {i}
        BY <1>0, <1>1, <3>1, SameItemPart
      <4> QED BY <2>1, <4>1, OthersHas
    <3>2. ASSUME NEW p \in 1..b, q = i - 1 + p PROVE x \in Within(t, L)
      <4>1. PartAt(r, q, L) = PartAt(t, p, L)
        BY <1>2, <3>2, SameItemPart
      <4> QED BY <1>0, <2>1, <4>1, WithinHas
    <3>3. ASSUME NEW p \in (i + 1)..a, q = p + b - 1 PROVE x \in Others(h, i, L)
      <4>1. PartAt(r, q, L) = PartAt(h, p, L)
        BY <1>3, <3>3, SameItemPart
      <4>2. p \in (1..Len(h[1])) \ {i}
        BY <1>0
      <4> QED BY <2>1, <4>1, <4>2, OthersHas
    <3> QED BY <1>4, <3>1, <3>2, <3>3
  <2>2. ASSUME NEW p \in 1..b, x \in PartAt(t, p, L) PROVE x \in Within(r, L)
    <3>1. PartAt(r, i - 1 + p, L) = PartAt(t, p, L) /\ i - 1 + p \in 1..Len(r[1])
      BY <1>0, <1>2, <1>5, SameItemPart
    <3> QED BY <2>2, <3>1, WithinHas
  <2>3. ASSUME NEW p \in 1..a, p # i, x \in PartAt(h, p, L) PROVE x \in Within(r, L)
    <3>1. CASE p < i
      <4>1. p \in 1..(i - 1)
        BY <3>1
      <4>2. PartAt(r, p, L) = PartAt(h, p, L) /\ p \in 1..Len(r[1])
        BY <1>0, <1>1, <1>5, <4>1, SameItemPart
      <4> QED BY <2>3, <4>2, WithinHas
    <3>2. CASE p > i
      <4>1. p \in (i + 1)..a
        BY <1>0, <3>2
      <4>2. PartAt(r, p + b - 1, L) = PartAt(h, p, L) /\ p + b - 1 \in 1..Len(r[1])
        BY <1>0, <1>3, <1>5, <4>1, SameItemPart
      <4> QED BY <2>3, <4>2, WithinHas
    <3> QED BY <1>0, <2>3, <3>1, <3>2
  <2> QED BY <1>0, <2>1, <2>2, <2>3, WithinHas, OthersHas
<1> QED BY <1>0, <1>9, <1>17, <1>18, <1>19 DEF Row

-----------------------------------------------------------------------------
(* Order: leaves                                                           *)

(***************************************************************************)
(* A set of pairs after a value is put under a key.                        *)
(***************************************************************************)
Put(P, k, v) == {p \in P : p[1] # k} \cup {<<k, v>>}

(***************************************************************************)
(* A sequence of keys increases.                                           *)
(***************************************************************************)
Rising(s) == \A i, j \in 1..Len(s) : i < j => s[i] < s[j]

(***************************************************************************)
(* No key of a row is below its lower bound.                               *)
(***************************************************************************)
LEMMA RowLow ==
    ASSUME NEW L \in Layers, NEW h \in Digests, NEW lo \in Nat, Row(h, lo, L)
    PROVE  \A x \in KeysOf(Within(h, L)) : lo <= x /\ x \in Nat
<1> SUFFICES ASSUME NEW x \in KeysOf(Within(h, L)) PROVE lo <= x /\ x \in Nat
  OBVIOUS
<1>1. PICK i \in 1..Len(h[1]) : x \in KeysOf(PartAt(h, i, L))
  BY WithinHas
<1>2. LowAt(h, lo, i) <= x /\ x \in Nat
  BY <1>1, RowItems DEF Row, ItemAt
<1>3. CASE i = 1
  BY <1>2, <1>3 DEF LowAt
<1>4. CASE i # 1
  <2>1. 1 \in 1..Len(h[1]) /\ 1 < i /\ Len(h[1]) \in Nat
    BY <1>4, RowItems
  <2>2. h[1][1] < h[1][i] /\ h[1][1] \in Nat /\ h[1][i] \in Nat /\ lo <= h[1][1]
    BY <2>1, RowItems DEF LowAt
  <2>3. h[1][i] <= x
    BY <1>2, <1>4 DEF LowAt
  <2> QED BY <1>2, <2>2, <2>3
<1> QED BY <1>3, <1>4

(***************************************************************************)
(* Below an item of a leaf is its pair.                                    *)
(***************************************************************************)
LEMMA GroundPart ==
    ASSUME NEW h \in Digests, NEW i, h[1][i] \in Keys, h[2][i] \in Values
    PROVE  /\ PartAt(h, i, Layer[0]) = {<<h[1][i], h[2][i]>>}
           /\ KeysOf(PartAt(h, i, Layer[0])) = {h[1][i]}
<1>1. PartAt(h, i, Layer[0]) = {<<h[1][i], h[2][i]>>}
  BY BottomIs DEF PartAt
<1> QED BY <1>1 DEF KeysOf

(***************************************************************************)
(* A leaf is a row if its keys increase, and its pairs are the items.      *)
(***************************************************************************)
LEMMA GroundRow ==
    ASSUME NEW h \in Digests, NEW lo \in Nat
    PROVE  /\ Row(h, lo, Layer[0]) <=> /\ Len(h[1]) = Len(h[2])
                                       /\ \A i \in 1..Len(h[1]) : h[2][i] \in Values
                                       /\ Rising(h[1])
                                       /\ h[1] # <<>> => lo = 0 \/ h[1][1] = lo
           /\ Row(h, lo, Layer[0]) =>
                \A p : p \in Within(h, Layer[0]) <=> \E i \in 1..Len(h[1]) : p = <<h[1][i], h[2][i]>>
<1>0. Layer[0] \in Layers /\ Layer[0].ok = Values \X Nat
  BY LayerIs, BottomIs
<1>1. ASSUME Row(h, lo, Layer[0])
      PROVE  /\ Len(h[1]) = Len(h[2]) /\ Rising(h[1]) /\ (h[1] # <<>> => lo = 0 \/ h[1][1] = lo)
             /\ \A i \in 1..Len(h[1]) : h[2][i] \in Values /\ h[1][i] \in Keys
  <2>1. \A i \in 1..Len(h[1]) : h[2][i] \in Values
    BY <1>0, <1>1 DEF Row, ItemAt
  <2>2. Rising(h[1]) /\ \A i \in 1..Len(h[1]) : h[1][i] \in Keys
    BY <1>0, <1>1, RowItems DEF Rising
  <2> QED BY <1>1, <2>1, <2>2 DEF Row
<1>2. ASSUME Len(h[1]) = Len(h[2]), \A i \in 1..Len(h[1]) : h[2][i] \in Values,
             Rising(h[1]), h[1] # <<>> => lo = 0 \/ h[1][1] = lo
      PROVE  Row(h, lo, Layer[0])
  <2>1. \A i \in 1..Len(h[1]) : /\ PartAt(h, i, Layer[0]) = {<<h[1][i], h[2][i]>>}
                                /\ KeysOf(PartAt(h, i, Layer[0])) = {h[1][i]}
    BY <1>2, DigestIs, GroundPart
  <2>2. ASSUME NEW i \in 1..Len(h[1]) PROVE ItemAt(h, lo, i, Layer[0])
    <3>0. Len(<<>>) = 0
      OBVIOUS
    <3>1. h[1] # <<>> /\ h[1][i] \in Nat
      BY <3>0, DigestIs
    <3>2. LowAt(h, lo, i) \in Nat /\ LowAt(h, lo, i) <= h[1][i]
      BY <1>2, <3>1 DEF LowAt
    <3>3. h[2][i] \in Values
      BY <1>2
    <3> QED BY <1>0, <2>1, <3>2, <3>3 DEF ItemAt
  <2>3. Apart(h, Layer[0])
    BY <1>2, <2>1 DEF Apart, Rising
  <2> QED BY <1>2, <2>2, <2>3 DEF Row
<1>3. ASSUME Row(h, lo, Layer[0]), NEW p
      PROVE  p \in Within(h, Layer[0]) <=> \E i \in 1..Len(h[1]) : p = <<h[1][i], h[2][i]>>
  <2>1. \A i \in 1..Len(h[1]) : PartAt(h, i, Layer[0]) = {<<h[1][i], h[2][i]>>}
    BY <1>1, <1>3, GroundPart
  <2> QED BY <2>1, WithinHas
<1> QED BY <1>1, <1>2, <1>3

(***************************************************************************)
(* In increasing numbers, those below k are the first ones, as many as     *)
(* there are.                                                              *)
(***************************************************************************)
LEMMA CountBelow ==
    ASSUME NEW N \in Nat, NEW s, \A i \in 1..N : s[i] \in Nat,
           \A i, j \in 1..N : i < j => s[i] < s[j], NEW k \in Nat,
           NEW S \in SUBSET (1..N), \A i \in 1..N : i \in S <=> s[i] < k,
           NEW c, c = Cardinality(S)
    PROVE  c \in 0..N /\ \A i \in 1..N : i <= c <=> s[i] < k
<1>1. S \in SUBSET (0..N) /\ S \subseteq 1..N
  OBVIOUS
<1>0. c = Cardinality(S)
  OBVIOUS
<1>4. \A i \in 1..N : i \in S <=> s[i] < k
  OBVIOUS
<1>2. CASE S = {}
  <2>1. c = 0
    BY <1>0, <1>2, FS_EmptySet
  <2>2. c \in 0..N
    BY <2>1
  <2>3. ASSUME NEW i \in 1..N PROVE (i <= c => s[i] < k) /\ (s[i] < k => i <= c)
    BY <1>2, <1>4, <2>1
  <2> QED BY <2>2, <2>3
<1>3. CASE S # {}
  <2> DEFINE q == Max(S)
  <2>1. q \in S /\ \A m \in S : q >= m
    BY <1>1, <1>3, MaxOf
  <2>2. q \in 1..N /\ s[q] < k
    BY <2>1
  <2> HIDE DEF q
  <2>3. \A i \in 1..N : i \in S <=> i <= q
    <3> SUFFICES ASSUME NEW i \in 1..N PROVE i \in S <=> i <= q
      OBVIOUS
    <3>1. i \in S => i <= q
      BY <2>1, <2>2
    <3>2. i <= q => s[i] < k
      <4>1. i < q => s[i] < s[q]
        BY <2>2
      <4> QED BY <2>2, <4>1
    <3> QED BY <3>1, <3>2
  <2>4. S = 1..q
    <3>1. ASSUME NEW i \in 1..q PROVE i \in S
      <4>1. i \in 1..N /\ i <= q
        BY <2>2
      <4> QED BY <2>3, <4>1
    <3>2. ASSUME NEW i \in S PROVE i \in 1..q
      <4>1. i \in 1..N
        OBVIOUS
      <4> QED BY <2>2, <2>3, <4>1
    <3> QED BY <3>1, <3>2
  <2>5. Cardinality(1..q) = q
    BY <2>2, FS_Interval
  <2>6. c = q
    BY <1>0, <2>4, <2>5
  <2>7. c \in 0..N
    BY <2>2, <2>6
  <2>8. ASSUME NEW i \in 1..N PROVE (i <= c => s[i] < k) /\ (s[i] < k => i <= c)
    BY <1>4, <2>3, <2>6
  <2> QED BY <2>7, <2>8
<1> QED BY <1>2, <1>3

(***************************************************************************)
(* The sort at the end of a balance leaves increasing keys where they are. *)
(***************************************************************************)
LEMMA SortLastRising ==
    ASSUME NEW n \in Node, Rising(n.keys)
    PROVE  SortLast(n) \in Node /\ Hash(SortLast(n)) = Hash(n)
<1> DEFINE a == Len(n.keys)
           z == SortLast(n)
<1>0. /\ a \in Nat /\ Len(n.keys) = a /\ Len(n.vals) = a /\ n.keys \in Seq(Keys) /\ n.vals \in Seq(Universe)
      /\ z \in Node /\ Len(z.keys) = a /\ Len(z.vals) = a /\ z.keys \in Seq(Keys) /\ z.vals \in Seq(Universe)
  BY NodeFields, SortLastMoves
<1>1. CASE n.keys = <<>>
  BY <1>0, <1>1, SortLastMoves
<1>2. CASE n.keys # <<>>
  <2> DEFINE c == Cardinality({i \in 1..(a - 1) : n.keys[i] < Last(n.keys)})
  <2>1. Moved(z, n, c + 1)
    BY <1>2, SortLastMoves
  <2>2. a \in Nat \ {0} /\ Last(n.keys) = n.keys[a] /\ Last(n.vals) = n.vals[a]
    BY <1>0, <1>2, EmptySeq DEF Last
  <2>3. \A i \in 1..a : n.keys[i] \in Nat
    BY <1>0, TreeAssumption, ElementOfSeq
  <2> HIDE DEF a
  <2>4. a - 1 \in Nat /\ a \in 1..a
    BY <2>2
  <2>5. \A i \in 1..(a - 1) : n.keys[i] < n.keys[a]
    BY <1>0, <2>2 DEF Rising
  <2>6. \A i, j \in 1..(a - 1) : i < j => n.keys[i] < n.keys[j]
    BY <1>0, <2>2 DEF Rising
  <2>7. \A i \in 1..(a - 1) : n.keys[i] \in Nat
    BY <2>2, <2>3
  <2>8. n.keys[a] \in Nat
    BY <2>3, <2>4
  <2>9. c \in 0..(a - 1) /\ \A i \in 1..(a - 1) : i <= c <=> n.keys[i] < n.keys[a]
    <3> DEFINE N == a - 1
               s == n.keys
               k == n.keys[a]
    <3>1. N \in Nat /\ k \in Nat /\ (\A i \in 1..N : s[i] \in Nat)
          /\ \A i, j \in 1..N : i < j => s[i] < s[j]
      BY <2>4, <2>6, <2>7, <2>8
    <3> DEFINE S == {i \in 1..N : s[i] < k}
    <3>2. c = Cardinality(S) /\ S \in SUBSET (1..N) /\ \A i \in 1..N : i \in S <=> s[i] < k
      BY <2>2
    <3> HIDE DEF N, s, k, c, S
    <3>3. c \in 0..N /\ \A i \in 1..N : i <= c <=> s[i] < k
      BY <3>1, <3>2, CountBelow
    <3> QED BY <3>3 DEF N, s, k
  <2> HIDE DEF c
  <2>10. c = a - 1
    <3>1. CASE a = 1
      BY <2>9, <3>1
    <3>2. CASE a # 1
      <4>1. a - 1 \in 1..(a - 1)
        BY <2>2, <3>2
      <4>2. a - 1 <= c
        BY <2>5, <2>9, <4>1
      <4> QED BY <2>2, <2>9, <4>2
    <3> QED BY <3>1, <3>2
  <2>11. c + 1 = a
    BY <2>2, <2>10
  <2>12. n.vals # <<>>
    BY <1>0, <2>2, EmptySeq
  <2>13. /\ \A i \in 1..(a - 1) : Front(n.keys)[i] = n.keys[i] /\ Front(n.vals)[i] = n.vals[i]
         /\ Len(Front(n.keys)) = a - 1 /\ Len(Front(n.vals)) = a - 1
    BY <1>0, <1>2, <2>12, FrontOf
  <2>14. \A i \in 1..a : z.keys[i] = n.keys[i] /\ z.vals[i] = n.vals[i]
    <3> SUFFICES ASSUME NEW i \in 1..a PROVE z.keys[i] = n.keys[i] /\ z.vals[i] = n.vals[i]
      OBVIOUS
    <3> HIDE DEF z
    <3>1. CASE i = a
      BY <2>1, <2>2, <2>11, <3>1 DEF Moved, Inserts
    <3>2. CASE i # a
      <4>1. i \in 1..(a - 1) /\ i \in 1..((c + 1) - 1)
        BY <2>2, <2>10, <3>2
      <4> QED BY <2>1, <2>13, <4>1 DEF Moved, Inserts
    <3> QED BY <3>1, <3>2
  <2> HIDE DEF z
  <2>15. z.keys = n.keys /\ z.vals = n.vals
    BY <1>0, <2>14, SeqEqual
  <2>16. Hash(z) = Hash(n)
    BY <2>15 DEF Hash
  <2> QED BY <1>0, <2>16 DEF z
<1> QED BY <1>1, <1>2

-----------------------------------------------------------------------------
(* Order: a pair put into a leaf                                           *)

(***************************************************************************)
(* A pair put where its key belongs leaves the leaf in order and adds the  *)
(* pair.                                                                   *)
(***************************************************************************)
LEMMA GroundInsert ==
    ASSUME NEW h \in Digests, NEW lo \in Nat, Row(h, lo, Layer[0]),
           NEW key \in Keys, NEW val \in Values, lo = 0 \/ (h[1] # <<>> /\ lo <= key),
           NEW r \in Digests, NEW pos \in 1..(Len(h[1]) + 1),
           Inserts(r[1], h[1], pos, key, Keys), Inserts(r[2], h[2], pos, val, Universe),
           \A i \in 1..Len(h[1]) : (i < pos => h[1][i] < key) /\ (i >= pos => key < h[1][i])
    PROVE  /\ Row(r, lo, Layer[0])
           /\ Within(r, Layer[0]) = Put(Within(h, Layer[0]), key, val)
<1> DEFINE a == Len(h[1])
           at(i) == IF i < pos THEN i ELSE i + 1
<1>0. /\ a \in Nat /\ Len(h[1]) = a /\ Len(h[2]) = a /\ Len(r[1]) = a + 1 /\ Len(r[2]) = a + 1
      /\ pos \in 1..(a + 1) /\ key \in Nat
  BY DigestIs, TreeAssumption DEF Inserts, Row
<1>1. /\ \A i \in 1..a : h[2][i] \in Values /\ h[1][i] \in Nat
      /\ Rising(h[1]) /\ (h[1] # <<>> => lo = 0 \/ h[1][1] = lo)
      /\ \A p : p \in Within(h, Layer[0]) <=> \E i \in 1..a : p = <<h[1][i], h[2][i]>>
  BY GroundRow, DigestIs
<1> HIDE DEF a
<1>2. \A i \in 1..a : /\ at(i) \in 1..(a + 1) /\ at(i) # pos
                      /\ r[1][at(i)] = h[1][i] /\ r[2][at(i)] = h[2][i]
  <2> SUFFICES ASSUME NEW i \in 1..a
               PROVE  /\ at(i) \in 1..(a + 1) /\ at(i) # pos
                      /\ r[1][at(i)] = h[1][i] /\ r[2][at(i)] = h[2][i]
    OBVIOUS
  <2>1. CASE i < pos
    <3>1. i \in 1..(pos - 1)
      BY <1>0, <2>1
    <3> QED BY <1>0, <2>1, <3>1 DEF Inserts
  <2>2. CASE ~(i < pos)
    <3>1. i \in pos..Len(h[1]) /\ i \in pos..Len(h[2]) /\ i + 1 \in 1..(a + 1) /\ i + 1 # pos
      BY <1>0, <2>2
    <3> QED BY <2>2, <3>1 DEF Inserts
  <2> QED BY <2>1, <2>2
<1>3. r[1][pos] = key /\ r[2][pos] = val
  BY DEF Inserts
<1>4. \A q \in 1..(a + 1) : q = pos \/ \E i \in 1..a : q = at(i)
  <2> SUFFICES ASSUME NEW q \in 1..(a + 1), q # pos PROVE \E i \in 1..a : q = at(i)
    OBVIOUS
  <2>1. CASE q < pos
    <3>1. q \in 1..a /\ q = at(q)
      BY <1>0, <2>1
    <3> QED BY <3>1
  <2>2. CASE q > pos
    <3>1. q - 1 \in 1..a /\ q = at(q - 1)
      BY <1>0, <2>2
    <3> QED BY <3>1
  <2> QED BY <1>0, <2>1, <2>2
<1>5. \A i, j \in 1..a : at(i) < at(j) => i < j
  BY <1>0
<1>6. \A i \in 1..a : (at(i) < pos <=> i < pos)
  BY <1>0
<1>7. \A i \in 1..a : (i < pos => h[1][i] < key) /\ (~(i < pos) => key < h[1][i])
  BY <1>0
<1> HIDE DEF at
<1>8. Rising(r[1])
  <2> SUFFICES ASSUME NEW p \in 1..(a + 1), NEW q \in 1..(a + 1), p < q PROVE r[1][p] < r[1][q]
    BY <1>0 DEF Rising
  <2>1. CASE p = pos
    <3>1. PICK j \in 1..a : q = at(j)
      BY <1>0, <1>4, <2>1
    <3>2. ~(at(j) < pos)
      BY <1>0, <2>1, <3>1
    <3>3. key < h[1][j]
      BY <1>6, <1>7, <3>2
    <3> QED BY <1>2, <1>3, <2>1, <3>1, <3>3
  <2>2. CASE q = pos
    <3>1. PICK i \in 1..a : p = at(i)
      BY <1>0, <1>4, <2>2
    <3>2. h[1][i] < key
      BY <1>6, <1>7, <2>2, <3>1
    <3> QED BY <1>2, <1>3, <2>2, <3>1, <3>2
  <2>3. CASE p # pos /\ q # pos
    <3>1. PICK i \in 1..a : p = at(i)
      BY <1>4, <2>3
    <3>2. PICK j \in 1..a : q = at(j)
      BY <1>4, <2>3
    <3>3. h[1][i] < h[1][j]
      BY <1>0, <1>1, <1>5, <3>1, <3>2 DEF Rising
    <3> QED BY <1>2, <3>1, <3>2, <3>3
  <2> QED BY <2>1, <2>2, <2>3
<1>9. \A q \in 1..(a + 1) : r[2][q] \in Values
  BY <1>1, <1>2, <1>3, <1>4
<1>10. lo = 0 \/ r[1][1] = lo
  <2>1. CASE lo # 0
    <3>1. h[1] # <<>> /\ lo <= key /\ h[1][1] = lo
      BY <1>1, <2>1
    <3>2. 1 \in 1..a
      BY <1>0, <3>1, DigestIs, EmptySeq
    <3>3. 1 < pos
      <4>1. ~(1 < pos) => key < lo
        BY <1>7, <3>1, <3>2
      <4> QED BY <1>0, <3>1, <4>1
    <3>4. 1 \in 1..(pos - 1)
      BY <1>0, <3>3
    <3>5. r[1][1] = h[1][1]
      BY <3>4 DEF Inserts
    <3> QED BY <3>1, <3>5
  <2> QED BY <2>1
<1>11. Row(r, lo, Layer[0])
  BY <1>0, <1>8, <1>9, <1>10, GroundRow
<1>12. ASSUME NEW p PROVE p \in Within(r, Layer[0]) <=> p \in Put(Within(h, Layer[0]), key, val)
  <2>1. p \in Within(r, Layer[0]) <=> \E q \in 1..(a + 1) : p = <<r[1][q], r[2][q]>>
    BY <1>0, <1>11, GroundRow
  <2>2. \A i \in 1..a : h[1][i] # key
    BY <1>0, <1>1, <1>7
  <2>3. (\E q \in 1..(a + 1) : p = <<r[1][q], r[2][q]>>)
          <=> p = <<key, val>> \/ \E i \in 1..a : p = <<h[1][i], h[2][i]>>
    <3>1. ASSUME NEW q \in 1..(a + 1), p = <<r[1][q], r[2][q]>>
          PROVE  p = <<key, val>> \/ \E i \in 1..a : p = <<h[1][i], h[2][i]>>
      BY <1>2, <1>3, <1>4, <3>1
    <3>2. ASSUME NEW i \in 1..a, p = <<h[1][i], h[2][i]>>
          PROVE  \E q \in 1..(a + 1) : p = <<r[1][q], r[2][q]>>
      BY <1>2, <3>2
    <3>3. ASSUME p = <<key, val>> PROVE \E q \in 1..(a + 1) : p = <<r[1][q], r[2][q]>>
      BY <1>0, <1>3, <3>3
    <3> QED BY <3>1, <3>2, <3>3
  <2>4. p \in Put(Within(h, Layer[0]), key, val) <=> (p \in Within(h, Layer[0]) /\ p[1] # key) \/ p = <<key, val>>
    BY DEF Put
  <2>5. p \in Within(h, Layer[0]) => p[1] # key
    BY <1>1, <2>2
  <2> QED BY <1>1, <2>1, <2>3, <2>4, <2>5
<1> QED BY <1>11, <1>12

(***************************************************************************)
(* A value put in the place of an older one leaves the leaf in order and   *)
(* changes the pair.                                                       *)
(***************************************************************************)
LEMMA GroundOverwrite ==
    ASSUME NEW h \in Digests, NEW lo \in Nat, Row(h, lo, Layer[0]),
           NEW key, NEW val \in Values, NEW i \in 1..Len(h[1]), h[1][i] = key,
           NEW r \in Digests, r[1] = h[1], Len(r[2]) = Len(h[2]), r[2][i] = val,
           \A j \in 1..Len(h[2]) : j # i => r[2][j] = h[2][j]
    PROVE  /\ Row(r, lo, Layer[0])
           /\ Within(r, Layer[0]) = Put(Within(h, Layer[0]), key, val)
<1> DEFINE a == Len(h[1])
<1>0. a \in Nat /\ Len(h[1]) = a /\ Len(h[2]) = a /\ Len(r[1]) = a /\ Len(r[2]) = a /\ i \in 1..a
  BY DigestIs DEF Row
<1>1. /\ \A j \in 1..a : h[2][j] \in Values /\ h[1][j] \in Nat
      /\ Rising(h[1]) /\ (h[1] # <<>> => lo = 0 \/ h[1][1] = lo)
      /\ \A p : p \in Within(h, Layer[0]) <=> \E j \in 1..a : p = <<h[1][j], h[2][j]>>
  BY GroundRow, DigestIs
<1> HIDE DEF a
<1>2. \A j \in 1..a : r[2][j] = IF j = i THEN val ELSE h[2][j]
  BY <1>0
<1>3. Row(r, lo, Layer[0])
  BY <1>0, <1>1, <1>2, GroundRow
<1>4. \A j \in 1..a : h[1][j] = key <=> j = i
  <2> SUFFICES ASSUME NEW j \in 1..a, j # i PROVE h[1][j] # key
    OBVIOUS
  <2>1. j < i \/ i < j
    BY <1>0
  <2>2. h[1][j] < h[1][i] \/ h[1][i] < h[1][j]
    BY <1>0, <1>1, <2>1 DEF Rising
  <2> QED BY <1>0, <1>1, <2>2
<1>5. ASSUME NEW p PROVE p \in Within(r, Layer[0]) <=> p \in Put(Within(h, Layer[0]), key, val)
  <2>1. p \in Within(r, Layer[0]) <=> \E q \in 1..a : p = <<r[1][q], r[2][q]>>
    BY <1>0, <1>3, GroundRow
  <2>2. p \in Put(Within(h, Layer[0]), key, val) <=> (p \in Within(h, Layer[0]) /\ p[1] # key) \/ p = <<key, val>>
    BY DEF Put
  <2>3. ASSUME NEW q \in 1..a, p = <<r[1][q], r[2][q]>>
        PROVE  p = <<key, val>> \/ (p \in Within(h, Layer[0]) /\ p[1] # key)
    <3>1. CASE q = i
      BY <1>0, <1>2, <2>3, <3>1
    <3>2. CASE q # i
      <4>1. p = <<h[1][q], h[2][q]>> /\ h[1][q] # key
        BY <1>2, <1>4, <2>3, <3>2
      <4> QED BY <1>1, <4>1
    <3> QED BY <3>1, <3>2
  <2>4. ASSUME p = <<key, val>> PROVE \E q \in 1..a : p = <<r[1][q], r[2][q]>>
    BY <1>0, <1>2, <2>4
  <2>5. ASSUME NEW q \in 1..a, p = <<h[1][q], h[2][q]>>, p[1] # key
        PROVE  \E j \in 1..a : p = <<r[1][j], r[2][j]>>
    <3>1. q # i
      BY <1>4, <2>5
    <3> QED BY <1>2, <2>5, <3>1
  <2> QED BY <1>1, <2>1, <2>2, <2>3, <2>4, <2>5
<1> QED BY <1>3, <1>5

-----------------------------------------------------------------------------
(* Order: put_in_leaf keeps the order and puts the pair                    *)

(***************************************************************************)
(* The items of n are a row of level e from the bound lo, and P are the    *)
(* pairs below.                                                            *)
(***************************************************************************)
HoldsAt(n, lo, P, e) == Row(Hash(n), lo, Layer[e]) /\ Within(Hash(n), Layer[e]) = P

(***************************************************************************)
(* A leaf after insert has put its pair, with the last pair moved to its   *)
(* place by the sort, is in order and has the pair. The bound is what a    *)
(* descent guarantees: the key is not below it, and only the root may be   *)
(* empty.                                                                  *)
(***************************************************************************)
LEMMA LeafPut ==
    ASSUME NEW n \in Node, NEW key \in Keys, NEW val \in Values, NEW lo \in Nat, lo <= key,
           NEW P, HoldsAt(n, lo, P, 0), lo = 0 \/ n.keys # <<>>
    PROVE  LET z == SortLast(PutInLeaf(n, key, val))
           IN  z \in Node /\ HoldsAt(z, lo, Put(P, key, val), 0)
<1> DEFINE m == PutInLeaf(n, key, val)
           z == SortLast(m)
<1>0. /\ m \in Node /\ z \in Node /\ Hash(n) \in Digests /\ Hash(m) \in Digests /\ Hash(z) \in Digests
      /\ Hash(n)[1] = n.keys /\ Hash(n)[2] = n.vals /\ Hash(m)[1] = m.keys /\ Hash(m)[2] = m.vals
      /\ Hash(z)[1] = z.keys /\ Hash(z)[2] = z.vals
      /\ n.keys \in Seq(Keys) /\ n.vals \in Seq(Universe) /\ Len(n.keys) \in Nat /\ Len(n.vals) = Len(n.keys)
      /\ val \in Universe /\ key \in Nat
  BY PutInLeafType, SortLastMoves, NodeFields, UniverseClosed, TreeAssumption
<1>1. /\ Row(Hash(n), lo, Layer[0]) /\ P = Within(Hash(n), Layer[0])
      /\ Rising(n.keys) /\ \A i \in 1..Len(n.keys) : n.keys[i] \in Nat
  <2>1. Row(Hash(n), lo, Layer[0]) /\ P = Within(Hash(n), Layer[0])
    BY DEF HoldsAt
  <2>2. Rising(Hash(n)[1]) /\ \A i \in 1..Len(Hash(n)[1]) : Hash(n)[1][i] \in Nat
    BY <1>0, <2>1, GroundRow, DigestIs
  <2> QED BY <1>0, <2>1, <2>2
<1>2. ASSUME NEW i, n.keys[i] = key, Overwrites(m, n, i, val)
      PROVE  HoldsAt(z, lo, Put(P, key, val), 0)
  <2>1. Hash(z) = Hash(m)
    <3>1. Rising(m.keys)
      BY <1>1, <1>2 DEF Overwrites
    <3> HIDE DEF m
    <3> QED BY <1>0, <3>1, SortLastRising
  <2> HIDE DEF z, m
  <2> DEFINE h == Hash(n)
             r == Hash(m)
  <2>2. /\ h \in Digests /\ r \in Digests /\ Row(h, lo, Layer[0]) /\ i \in 1..Len(h[1]) /\ h[1][i] = key
        /\ r[1] = h[1] /\ Len(r[2]) = Len(h[2]) /\ r[2][i] = val
        /\ \A j \in 1..Len(h[2]) : j # i => r[2][j] = h[2][j]
    BY <1>0, <1>1, <1>2 DEF Overwrites
  <2> HIDE DEF h, r
  <2>3. Row(r, lo, Layer[0]) /\ Within(r, Layer[0]) = Put(Within(h, Layer[0]), key, val)
    BY <2>2, GroundOverwrite
  <2> QED BY <1>1, <2>1, <2>3 DEF HoldsAt, h, r
<1>3. ASSUME \A i \in 1..Len(n.keys) : n.keys[i] # key, Appends(m, n, key, val)
      PROVE  HoldsAt(z, lo, Put(P, key, val), 0)
  <2> DEFINE a == Len(n.keys)
             c == Cardinality({i \in 1..(Len(m.keys) - 1) : m.keys[i] < Last(m.keys)})
  <2>1. /\ Len(m.keys) = a + 1 /\ m.keys[a + 1] = key /\ m.keys # <<>>
        /\ \A i \in 1..a : m.keys[i] = n.keys[i]
        /\ Len(m.vals) = a + 1 /\ m.vals[a + 1] = val /\ m.vals # <<>>
        /\ \A i \in 1..a : m.vals[i] = n.vals[i]
    <3>1. m.keys = Append(n.keys, key) /\ m.vals = Append(n.vals, val)
      BY <1>3 DEF Appends
    <3> HIDE DEF m
    <3>2. /\ Len(m.keys) = a + 1 /\ m.keys[a + 1] = key /\ (\A i \in 1..a : m.keys[i] = n.keys[i])
          /\ Len(m.vals) = a + 1 /\ m.vals[a + 1] = val /\ \A i \in 1..a : m.vals[i] = n.vals[i]
      BY <1>0, <3>1, AppendProperties
    <3>3. Len(<<>>) = 0
      OBVIOUS
    <3>4. m.keys # <<>> /\ m.vals # <<>>
      BY <1>0, <3>2, <3>3
    <3> QED BY <3>2, <3>4
  <2>2. Moved(z, m, c + 1)
    <3> HIDE DEF m
    <3> QED BY <1>0, <2>1, SortLastMoves
  <2>3. Last(m.keys) = key /\ Last(m.vals) = val
    BY <2>1 DEF Last
  <2>4. c \in 0..a /\ \A i \in 1..a : i <= c <=> n.keys[i] < key
    <3> DEFINE s == m.keys
    <3>1. a \in Nat /\ (\A i \in 1..a : s[i] \in Nat) /\ \A i, j \in 1..a : i < j => s[i] < s[j]
      BY <1>0, <1>1, <2>1 DEF Rising
    <3> DEFINE S == {i \in 1..a : s[i] < key}
    <3>2. c = Cardinality(S) /\ S \in SUBSET (1..a) /\ \A i \in 1..a : i \in S <=> s[i] < key
      <4>1. Len(m.keys) - 1 = a
        BY <1>0, <2>1
      <4> QED BY <2>3, <4>1
    <3>3. \A i \in 1..a : s[i] = n.keys[i]
      BY <2>1
    <3>5. key \in Nat
      BY <1>0
    <3> HIDE DEF c, s, a, m, z, S
    <3>4. c \in 0..a /\ \A i \in 1..a : i <= c <=> s[i] < key
      BY <3>1, <3>2, <3>5, CountBelow
    <3> QED BY <3>3, <3>4
  <2>5. /\ Front(m.keys) \in Seq(Keys) /\ Len(Front(m.keys)) = a
        /\ \A i \in 1..a : Front(m.keys)[i] = n.keys[i]
        /\ Front(m.vals) \in Seq(Universe) /\ Len(Front(m.vals)) = a
        /\ \A i \in 1..a : Front(m.vals)[i] = n.vals[i]
    <3>1. m.keys \in Seq(Keys) /\ m.vals \in Seq(Universe)
      BY <1>0, NodeFields
    <3> HIDE DEF m
    <3>2. (a + 1) - 1 = a
      BY <1>0
    <3>3. /\ Front(m.keys) \in Seq(Keys) /\ Len(Front(m.keys)) = Len(m.keys) - 1
          /\ \A i \in 1..(Len(m.keys) - 1) : Front(m.keys)[i] = m.keys[i]
      BY <2>1, <3>1, FrontOf
    <3>4. /\ Front(m.vals) \in Seq(Universe) /\ Len(Front(m.vals)) = Len(m.vals) - 1
          /\ \A i \in 1..(Len(m.vals) - 1) : Front(m.vals)[i] = m.vals[i]
      BY <2>1, <3>1, FrontOf
    <3> QED BY <2>1, <3>2, <3>3, <3>4
  <2> HIDE DEF c
  <2>6. Front(m.keys) = n.keys /\ Front(m.vals) = n.vals
    <3> HIDE DEF m
    <3> QED BY <1>0, <2>5, SeqEqual
  <2> DEFINE h == Hash(n)
             r == Hash(z)
             pos == c + 1
  <2>7. /\ h \in Digests /\ r \in Digests /\ Row(h, lo, Layer[0]) /\ h[1] = n.keys
        /\ lo = 0 \/ (h[1] # <<>> /\ lo <= key)
        /\ P = Within(h, Layer[0])
    BY <1>0, <1>1
  <2>8. Inserts(r[1], h[1], pos, key, Keys) /\ Inserts(r[2], h[2], pos, val, Universe)
    BY <1>0, <2>2, <2>3, <2>6 DEF Moved
  <2>9. pos \in 1..(Len(h[1]) + 1)
    BY <1>0, <2>4, <2>7
  <2>10. \A i \in 1..Len(h[1]) : (i < pos => h[1][i] < key) /\ (i >= pos => key < h[1][i])
    <3> SUFFICES ASSUME NEW i \in 1..a
                 PROVE  (i < c + 1 => n.keys[i] < key) /\ (i >= c + 1 => key < n.keys[i])
      BY <2>7
    <3>1. n.keys[i] \in Nat /\ n.keys[i] # key /\ (i <= c <=> n.keys[i] < key) /\ c \in Nat
      BY <1>1, <1>3, <2>4
    <3> HIDE DEF a
    <3> QED BY <1>0, <3>1
  <2> HIDE DEF h, r, pos, z, m
  <2>11. Row(r, lo, Layer[0]) /\ Within(r, Layer[0]) = Put(Within(h, Layer[0]), key, val)
    BY <2>7, <2>8, <2>9, <2>10, GroundInsert
  <2>12. P = Within(h, Layer[0])
    BY <1>1 DEF h
  <2> QED BY <2>11, <2>12 DEF HoldsAt, r
<1>4. \/ /\ \A i \in 1..Len(n.keys) : n.keys[i] # key
         /\ Appends(m, n, key, val)
      \/ \E i : n.keys[i] = key /\ Overwrites(m, n, i, val)
  BY <1>0, PutInLeafType
<1>5. HoldsAt(z, lo, Put(P, key, val), 0)
  <2> HIDE DEF z, m
  <2> QED BY <1>2, <1>3, <1>4
<1> QED BY <1>0, <1>5

-----------------------------------------------------------------------------
(* Order: cutting a node                                                   *)

(***************************************************************************)
(* The cuts of a node are in order, and every item up to one is in one of  *)
(* the pieces before it.                                                   *)
(***************************************************************************)
LEMMA EndsGrow ==
    ASSUME NEW n, Len(n.keys) \in Nat, NEW ends \in Cuts(n)
    PROVE  /\ \A j \in 1..Len(ends) : \A i \in 1..j : ends[i] <= ends[j]
           /\ \A j \in 1..Len(ends) : \A p \in 1..ends[j] :
                \E i \in 1..j : p \in (Start(ends, i) + 1)..ends[i]
<1> DEFINE N == Len(ends)
           Grows(j) == /\ \A i \in 1..j : ends[i] <= ends[j]
                       /\ \A p \in 1..ends[j] :
                            \E i \in 1..j : p \in (Start(ends, i) + 1)..ends[i]
           S == {j \in 0..N : j # 0 => Grows(j)}
<1>0. /\ N \in Nat
      /\ \A i \in 1..N : ends[i] \in Nat /\ Start(ends, i) \in Nat /\ Start(ends, i) < ends[i]
                         /\ (i = 1 => Start(ends, i) = 0) /\ (i # 1 => Start(ends, i) = ends[i - 1])
  <2>1. ends \in Seq(Nat) /\ \A i \in 1..N : ends[i] \in (Start(ends, i) + 1)..Len(n.keys)
    BY DEF Cuts
  <2>2. N \in Nat /\ \A i \in 1..N : ends[i] \in Nat
    BY <2>1, ElementOfSeq
  <2> HIDE DEF N
  <2>3. ASSUME NEW i \in 1..N
        PROVE  Start(ends, i) \in Nat /\ (i = 1 => Start(ends, i) = 0) /\ (i # 1 => Start(ends, i) = ends[i - 1])
    <3>1. i # 1 => i - 1 \in 1..N
      BY <2>2
    <3> QED BY <2>2, <3>1 DEF Start
  <2> QED BY <2>1, <2>2, <2>3
<1> HIDE DEF N
<1>1. 0 \in S
  BY <1>0
<1>2. ASSUME NEW j \in 1..N, j - 1 \in S PROVE j \in S
  <2>1. ASSUME NEW i \in 1..j PROVE ends[i] <= ends[j]
    <3>1. CASE i = j
      BY <1>0, <3>1
    <3>2. CASE i # j
      <4>1. i \in 1..(j - 1) /\ j - 1 # 0 /\ j # 1 /\ i \in 1..N
        BY <1>0, <3>2
      <4>2. ends[i] <= ends[j - 1] /\ ends[j - 1] < ends[j] /\ ends[j - 1] \in Nat
        BY <1>0, <1>2, <4>1
      <4> QED BY <1>0, <4>1, <4>2
    <3> QED BY <3>1, <3>2
  <2>2. ASSUME NEW p \in 1..ends[j] PROVE \E i \in 1..j : p \in (Start(ends, i) + 1)..ends[i]
    <3>1. CASE p > Start(ends, j)
      <4>1. p \in (Start(ends, j) + 1)..ends[j] /\ j \in 1..j
        BY <1>0, <3>1
      <4> QED BY <4>1
    <3>2. CASE ~(p > Start(ends, j))
      <4>1. j # 1 /\ Start(ends, j) = ends[j - 1] /\ j - 1 # 0
        BY <1>0, <3>2
      <4>2. p \in 1..ends[j - 1]
        BY <1>0, <3>2, <4>1
      <4>3. PICK i \in 1..(j - 1) : p \in (Start(ends, i) + 1)..ends[i]
        BY <1>2, <4>1, <4>2
      <4>4. i \in 1..j
        OBVIOUS
      <4> QED BY <4>3, <4>4
    <3> QED BY <3>1, <3>2
  <2>3. j \in 0..N
    BY <1>0
  <2> QED BY <2>1, <2>2, <2>3
<1>3. 0..N \subseteq S
  <2> HIDE DEF S
  <2> QED BY <1>0, <1>1, <1>2, StepByStep
<1>4. \A j \in 1..N : j \in S /\ j # 0
  <2> HIDE DEF S
  <2>1. \A j \in 1..N : j \in 0..N /\ j # 0
    BY <1>0
  <2> QED BY <1>3, <2>1
<1> QED BY <1>4 DEF N

(***************************************************************************)
(* A piece of a node is a row from the bound of its first item, and its    *)
(* first key is below it.                                                  *)
(***************************************************************************)
LEMMA PieceRow ==
    ASSUME NEW n \in Node, NEW e \in Nat, NEW lo \in Nat, Row(Hash(n), lo, Layer[e]),
           NEW p, NEW s, NEW t, PieceAt(p, n, s, t)
    PROVE  /\ Paired(Hash(p)) /\ Hash(p)[2] # <<>> /\ p.keys[1] = n.keys[s + 1]
           /\ p.keys[1] \in KeysOf(Within(Hash(p), Layer[e]))
           /\ Row(Hash(p), LowAt(Hash(n), lo, s + 1), Layer[e])
           /\ \A x : x \in Within(Hash(p), Layer[e])
                       <=> \E q \in (s + 1)..t : x \in PartAt(Hash(n), q, Layer[e])
<1> DEFINE h == Hash(n)
           g == Hash(p)
           L == Layer[e]
<1>0. /\ p \in Node /\ s \in Nat /\ t \in (s + 1)..Len(n.keys) /\ Len(p.keys) = t - s
      /\ \A j \in 1..(t - s) : p.keys[j] = n.keys[s + j] /\ p.vals[j] = n.vals[s + j]
  BY DEF PieceAt
<1>1. /\ h \in Digests /\ h[1] = n.keys /\ h[2] = n.vals /\ Len(n.keys) \in Nat
      /\ g \in Digests /\ g[1] = p.keys /\ g[2] = p.vals /\ Len(p.vals) = Len(p.keys)
      /\ t \in Nat /\ t - s \in Nat /\ t - s > 0
  BY <1>0, NodeFields
<1>2. L \in Layers
  BY LayerIs
<1>3. Row(h, lo, L)
  OBVIOUS
<1> HIDE DEF h, g, L
<1>4. Paired(g) /\ g[2] # <<>>
  <2>1. Len(<<>>) = 0
    OBVIOUS
  <2> QED BY <1>0, <1>1, <2>1 DEF Paired
<1>5. \A j \in 1..Len(g[1]) : s + j \in 1..Len(h[1]) /\ SameItem(g, j, h, s + j)
  BY <1>0, <1>1 DEF SameItem
<1>6. Row(g, LowAt(h, lo, s + 1), L)
  BY <1>1, <1>2, <1>3, <1>4, <1>5, <1>0, RowPart
<1>7. ASSUME NEW x
      PROVE  x \in Within(g, L) <=> \E q \in (s + 1)..t : x \in PartAt(h, q, L)
  <2>1. ASSUME NEW j \in 1..Len(g[1]), x \in PartAt(g, j, L)
        PROVE  \E q \in (s + 1)..t : x \in PartAt(h, q, L)
    <3>1. s + j \in (s + 1)..t /\ PartAt(g, j, L) = PartAt(h, s + j, L)
      BY <1>0, <1>1, <1>5, SameItemPart
    <3> QED BY <2>1, <3>1
  <2>2. ASSUME NEW q \in (s + 1)..t, x \in PartAt(h, q, L)
        PROVE  \E j \in 1..Len(g[1]) : x \in PartAt(g, j, L)
    <3>1. q - s \in 1..Len(g[1]) /\ s + (q - s) = q
      BY <1>0, <1>1
    <3>2. PartAt(g, q - s, L) = PartAt(h, q, L)
      BY <1>5, <3>1, SameItemPart
    <3> QED BY <2>2, <3>1, <3>2
  <2> QED BY <2>1, <2>2, WithinHas
<1>8. p.keys[1] = n.keys[s + 1] /\ p.keys[1] \in KeysOf(Within(g, L))
  <2>1. 1 \in 1..Len(g[1]) /\ 1 \in 1..(t - s)
    BY <1>0, <1>1
  <2>2. LowAt(h, lo, s + 1) \in Nat
    <3>1. s + 1 \in 1..Len(h[1])
      BY <1>5, <2>1
    <3> QED BY <1>1, <1>2, <1>3, <3>1, RowItems
  <2>3. g[1][1] \in KeysOf(PartAt(g, 1, L))
    BY <1>1, <1>2, <1>6, <2>1, <2>2, RowItems
  <2> QED BY <1>0, <1>1, <2>1, <2>3, WithinHas
<1> QED BY <1>4, <1>6, <1>7, <1>8 DEF h, g, L

(***************************************************************************)
(* The node over the pieces of a cut is a row of the next level with the   *)
(* same pairs.                                                             *)
(***************************************************************************)
LEMMA PiecesRow ==
    ASSUME NEW n \in Node, NEW e \in Nat, NEW lo \in Nat, Row(Hash(n), lo, Layer[e]),
           NEW ends \in Cuts(n), ends # <<>>, Last(ends) = Len(n.keys),
           NEW pieces, pieces = Pieces(n, ends),
           NEW g \in Digests, g[1] = FirstKeys(pieces), g[2] = HashesOf(pieces), Len(g[1]) = Len(ends)
    PROVE  /\ Row(g, lo, Layer[e + 1])
           /\ Within(g, Layer[e + 1]) = Within(Hash(n), Layer[e])
<1> DEFINE h == Hash(n)
           L == Layer[e]
           M == Layer[e + 1]
           N == Len(ends)
           at(i) == Start(ends, i)
<1>0. /\ pieces \in Seq(Node) /\ N \in Nat /\ Len(pieces) = N
      /\ \A i \in 1..N : PieceAt(pieces[i], n, at(i), ends[i])
  BY PiecesOf
<1>1. /\ h \in Digests /\ h[1] = n.keys /\ h[2] = n.vals /\ Len(n.keys) \in Nat
      /\ L \in Layers /\ M \in Layers /\ Row(h, lo, L)
  BY NodeFields, LayerIs
<1>2. /\ N > 0 /\ ends[N] = Len(n.keys) /\ Len(g[1]) = N /\ Len(g[2]) = N
      /\ \A i \in 1..N : g[1][i] = pieces[i].keys[1] /\ g[2][i] = Hash(pieces[i])
  <2>1. ends \in Seq(Nat)
    BY DEF Cuts
  <2>2. N > 0
    BY <1>0, <2>1, EmptySeq
  <2>3. ends[N] = Len(n.keys)
    BY DEF Last
  <2>4. Len(HashesOf(pieces)) = N
    BY <1>0 DEF HashesOf
  <2>5. \A i \in 1..N : g[1][i] = pieces[i].keys[1] /\ g[2][i] = Hash(pieces[i])
    BY <1>0 DEF HashesOf, FirstKeys
  <2> QED BY <2>2, <2>3, <2>4, <2>5
<1>3. \A i \in 1..N : /\ at(i) \in Nat /\ at(i) + 1 \in 1..Len(n.keys) /\ ends[i] \in (at(i) + 1)..Len(n.keys)
                      /\ (i = 1 => at(i) = 0) /\ (i # 1 => at(i) = ends[i - 1] /\ at(i) # 0)
  <2> SUFFICES ASSUME NEW i \in 1..N
               PROVE  /\ at(i) \in Nat /\ at(i) + 1 \in 1..Len(n.keys) /\ ends[i] \in (at(i) + 1)..Len(n.keys)
                      /\ (i = 1 => at(i) = 0) /\ (i # 1 => at(i) = ends[i - 1] /\ at(i) # 0)
    OBVIOUS
  <2>1. at(i) \in Nat /\ ends[i] \in (at(i) + 1)..Len(n.keys)
    BY <1>0 DEF PieceAt
  <2>2. (i = 1 => at(i) = 0) /\ (i # 1 => at(i) = ends[i - 1])
    BY DEF Start
  <2>3. i # 1 => at(i) # 0
    <3>1. SUFFICES ASSUME i # 1 PROVE at(i) # 0
      OBVIOUS
    <3>2. i - 1 \in 1..N
      BY <1>0, <3>1
    <3>3. at(i - 1) \in Nat /\ ends[i - 1] \in (at(i - 1) + 1)..Len(n.keys)
      BY <1>0, <3>2 DEF PieceAt
    <3> HIDE DEF at
    <3> QED BY <1>1, <2>2, <3>1, <3>3
  <2> HIDE DEF at
  <2> QED BY <1>1, <2>1, <2>2, <2>3
<1>4. ASSUME NEW i \in 1..N
      PROVE  /\ Paired(g[2][i]) /\ g[2][i][2] # <<>> /\ g[1][i] = n.keys[at(i) + 1]
             /\ g[1][i] \in KeysOf(Within(g[2][i], L))
             /\ Row(g[2][i], LowAt(h, lo, at(i) + 1), L)
             /\ \A x : x \in Within(g[2][i], L) <=> \E q \in (at(i) + 1)..ends[i] : x \in PartAt(h, q, L)
  <2>1. PieceAt(pieces[i], n, at(i), ends[i]) /\ g[2][i] = Hash(pieces[i]) /\ g[1][i] = pieces[i].keys[1]
    BY <1>0, <1>2
  <2>2. Row(Hash(n), lo, Layer[e])
    OBVIOUS
  <2> DEFINE p == pieces[i]
             s == at(i)
             t == ends[i]
  <2> HIDE DEF at, p, s, t
  <2>3. PieceAt(p, n, s, t)
    BY <2>1 DEF p, s, t
  <2>4. /\ Paired(Hash(p)) /\ Hash(p)[2] # <<>> /\ p.keys[1] = n.keys[s + 1]
        /\ p.keys[1] \in KeysOf(Within(Hash(p), Layer[e]))
        /\ Row(Hash(p), LowAt(Hash(n), lo, s + 1), Layer[e])
        /\ \A x : x \in Within(Hash(p), Layer[e])
                    <=> \E q \in (s + 1)..t : x \in PartAt(Hash(n), q, Layer[e])
    BY <2>2, <2>3, PieceRow
  <2> QED BY <2>1, <2>4 DEF p, s, t
<1>5. ASSUME NEW i \in 1..N
      PROVE  /\ PartAt(g, i, M) = Within(g[2][i], L)
             /\ \A low \in Nat : <<g[2][i], low>> \in M.ok <=> g[2][i][2] # <<>> /\ Row(g[2][i], low, L)
  <2>1. g[1][i] \in Keys
    BY <1>2, DigestIs
  <2> QED BY <1>4, <2>1, LayerUp DEF PartAt
<1>6. ASSUME NEW i \in 1..N
      PROVE  /\ LowAt(g, lo, i) = LowAt(h, lo, at(i) + 1) /\ LowAt(g, lo, i) \in Nat
             /\ LowAt(g, lo, i) <= g[1][i]
  <2>1. LowAt(h, lo, at(i) + 1) \in Nat /\ LowAt(h, lo, at(i) + 1) <= h[1][at(i) + 1]
    <3> HIDE DEF at, h, L
    <3> QED BY <1>1, <1>3, RowItems
  <2>2. LowAt(g, lo, i) = LowAt(h, lo, at(i) + 1)
    <3>1. CASE i = 1
      BY <1>3, <3>1 DEF LowAt
    <3>2. CASE i # 1
      <4>1. at(i) + 1 # 1
        BY <1>3, <3>2
      <4> HIDE DEF at, h
      <4> QED BY <1>1, <1>4, <3>2, <4>1 DEF LowAt
    <3> QED BY <3>1, <3>2
  <2> HIDE DEF at, h
  <2> QED BY <1>1, <1>4, <2>1, <2>2
<1> HIDE DEF h, L, M, N, at
<1>7. ASSUME NEW i \in 1..N PROVE ItemAt(g, lo, i, M)
  <2>1. Row(g[2][i], LowAt(g, lo, i), L) /\ LowAt(g, lo, i) \in Nat /\ g[2][i][2] # <<>>
    BY <1>4, <1>6
  <2>2. <<g[2][i], LowAt(g, lo, i)>> \in M.ok
    BY <1>5, <2>1
  <2>3. g[1][i] \in KeysOf(PartAt(g, i, M))
    BY <1>4, <1>5
  <2>4. \A x \in KeysOf(PartAt(g, i, M)) : LowAt(g, lo, i) <= x
    <3>1. g[2][i] \in Digests
      BY <1>4 DEF Paired
    <3> QED BY <1>1, <1>5, <2>1, <3>1, RowLow
  <2> QED BY <2>2, <2>3, <2>4 DEF ItemAt
<1>8. Apart(g, M)
  <2> SUFFICES ASSUME NEW i \in 1..N, NEW j \in 1..N, i < j, NEW x \in KeysOf(PartAt(g, i, M))
               PROVE  x < g[1][j]
    BY <1>2 DEF Apart
  <2>1. x \in KeysOf(Within(g[2][i], L))
    BY <1>5
  <2>2. PICK y \in Within(g[2][i], L) : y[1] = x
    BY <2>1, KeysIn
  <2>3. PICK q \in (at(i) + 1)..ends[i] : y \in PartAt(h, q, L)
    BY <1>4, <2>2
  <2>4. x \in KeysOf(PartAt(h, q, L))
    BY <2>2, <2>3, KeysIn
  <2>5. ends[i] <= at(j)
    <3>1. j - 1 \in 1..N /\ i \in 1..(j - 1) /\ j # 1
      BY <1>0
    <3>2. ends[i] <= ends[j - 1]
      BY <1>1, <3>1, EndsGrow DEF N
    <3> QED BY <1>3, <3>1, <3>2
  <2>6. q \in 1..Len(h[1]) /\ at(j) + 1 \in 1..Len(h[1]) /\ q < at(j) + 1
    BY <1>1, <1>3, <2>5
  <2>7. x < h[1][at(j) + 1]
    BY <1>1, <2>4, <2>6 DEF Row, Apart
  <2> QED BY <1>1, <1>4, <2>7
<1>9. lo = 0 \/ g[1][1] = lo
  <2>1. 1 \in 1..N
    BY <1>0, <1>2
  <2>2. g[1][1] = h[1][1] /\ 1 \in 1..Len(h[1])
    BY <1>1, <1>3, <1>4, <2>1
  <2>3. h[1] # <<>>
    <3>1. Len(<<>>) = 0
      OBVIOUS
    <3> QED BY <2>2, <3>1
  <2> QED BY <1>1, <2>2, <2>3 DEF Row
<1>10. ASSUME NEW x PROVE x \in Within(g, M) <=> x \in Within(h, L)
  <2>1. ASSUME NEW i \in 1..N, x \in PartAt(g, i, M) PROVE x \in Within(h, L)
    <3>1. PICK q \in (at(i) + 1)..ends[i] : x \in PartAt(h, q, L)
      BY <1>4, <1>5, <2>1
    <3>2. q \in 1..Len(h[1])
      BY <1>1, <1>3
    <3> QED BY <3>1, <3>2, WithinHas
  <2>2. ASSUME NEW q \in 1..Len(h[1]), x \in PartAt(h, q, L) PROVE \E i \in 1..N : x \in PartAt(g, i, M)
    <3>1. N \in 1..N /\ q \in 1..ends[N]
      BY <1>0, <1>1, <1>2
    <3>2. PICK i \in 1..N : q \in (at(i) + 1)..ends[i]
      BY <1>1, <3>1, EndsGrow DEF N, at
    <3>3. x \in Within(g[2][i], L)
      BY <1>4, <2>2, <3>2
    <3> QED BY <1>5, <3>3
  <2> QED BY <1>2, <2>1, <2>2, WithinHas
<1>11. Row(g, lo, M)
  BY <1>2, <1>7, <1>8, <1>9 DEF Row
<1>12. Within(g, M) = Within(h, L)
  BY <1>10
<1> QED BY <1>11, <1>12 DEF h, L, M

-----------------------------------------------------------------------------
(* Order: balancing and what it takes in from the sibling                  *)

(***************************************************************************)
(* What a balance takes in from the parent is nothing, or the next         *)
(* sibling, whose keys are above all of P.                                 *)
(***************************************************************************)
Takes(joined, P, e, Q) ==
    \/ joined = {} /\ Q = {}
    \/ \E s \in Digests :
         /\ joined = {s} /\ s[1] # <<>> /\ Row(s, s[1][1], Layer[e])
         /\ \A x \in KeysOf(P) : x < s[1][1]
         /\ Q = Within(s, Layer[e])

(***************************************************************************)
(* A node with pairs below it is not empty.                                *)
(***************************************************************************)
LEMMA SomePair ==
    ASSUME NEW L, NEW h, Within(h, L) # {}
    PROVE  h[1] # <<>>
<1>1. PICK x : x \in Within(h, L)
  OBVIOUS
<1>2. PICK i \in 1..Len(h[1]) : x \in PartAt(h, i, L)
  BY <1>1, WithinHas
<1>3. Len(<<>>) = 0
  OBVIOUS
<1> QED BY <1>2, <1>3

(***************************************************************************)
(* Cutting a node keeps its pairs and their order, at its level or one     *)
(* above it.                                                               *)
(***************************************************************************)
LEMMA CutRow ==
    ASSUME NEW n \in Node, NEW st \in Stores, NEW parent, NEW e \in Nat, NEW lo \in Nat,
           NEW P, HoldsAt(n, lo, P, e), NEW r, r = Cut(n, st, parent)
    PROVE  \/ r.node = n
           \/ r.node \in Node /\ HoldsAt(r.node, lo, P, e + 1) /\ (parent # <<>> => r.node.split)
<1> DEFINE ends == ChunkContent(n)
           pieces == Pieces(n, ends)
<1>1. /\ ends \in Cuts(n)
      /\ \/ Len(ends) <= 1 /\ Whole(r, n, st)
         \/ Len(ends) > 1 /\ parent = <<>> /\ RootSplit(r, n, st, pieces)
         \/ Len(ends) > 1 /\ parent # <<>> /\ ListSplit(r, n, st, pieces)
  BY CutCases
<1>2. /\ Len(n.keys) \in Nat /\ MinChunk \in Nat
      /\ Len(n.keys) >= MinChunk => Last(ends) = Len(n.keys) /\ ends # <<>>
      /\ ~(Len(n.keys) >= MinChunk) => ends = <<>>
  <2>1. Len(n.keys) \in Nat /\ MinChunk \in Nat
    BY NodeFields, ChunkParameters
  <2>2. Len(n.keys) >= MinChunk => Last(ends) = Len(n.keys) /\ ends # <<>>
    BY <2>1, ChunkEnds
  <2>3. ~(Len(n.keys) >= MinChunk) => ends = <<>>
    BY <2>1 DEF ChunkContent
  <2> QED BY <2>1, <2>2, <2>3
<1>3. Len(pieces) = Len(ends)
  BY <1>1, PiecesOf
<1>4. pieces = Pieces(n, ends)
  OBVIOUS
<1> HIDE DEF ends, pieces
<1>5. CASE Len(ends) <= 1 /\ Whole(r, n, st)
  BY <1>5 DEF Whole
<1>6. ASSUME Len(ends) > 1, r.node \in Node, Hash(r.node) = <<FirstKeys(pieces), HashesOf(pieces)>>
      PROVE  HoldsAt(r.node, lo, P, e + 1)
  <2>1. ends # <<>> /\ Last(ends) = Len(n.keys)
    <3>1. Len(<<>>) = 0
      OBVIOUS
    <3> QED BY <1>2, <1>6, <3>1
  <2>2. Hash(r.node) \in Digests
    BY <1>6, NodeFields
  <2> DEFINE g == Hash(r.node)
  <2>3. g[1] = FirstKeys(pieces) /\ g[2] = HashesOf(pieces) /\ g \in Digests
    BY <1>6, <2>2
  <2>4. Len(g[1]) = Len(ends)
    <3>1. pieces \in Seq(Node) /\ Len(pieces) \in Nat
      BY <1>1, <1>4, PiecesOf
    <3>2. Len(FirstKeys(pieces)) = Len(pieces)
      BY <3>1 DEF FirstKeys
    <3> QED BY <1>3, <2>3, <3>2
  <2> HIDE DEF g
  <2>5. Row(g, lo, Layer[e + 1]) /\ Within(g, Layer[e + 1]) = Within(Hash(n), Layer[e])
    BY <1>1, <1>4, <2>1, <2>3, <2>4, PiecesRow DEF HoldsAt
  <2> QED BY <2>5 DEF HoldsAt, g
<1>7. CASE Len(ends) > 1 /\ parent = <<>> /\ RootSplit(r, n, st, pieces)
  <2>1. r.node \in Node /\ Hash(r.node) = <<FirstKeys(pieces), HashesOf(pieces)>>
    BY <1>7 DEF RootSplit, Fields
  <2> QED BY <1>6, <1>7, <2>1
<1>8. CASE Len(ends) > 1 /\ parent # <<>> /\ ListSplit(r, n, st, pieces)
  <2>1. r.node \in Node /\ Hash(r.node) = <<FirstKeys(pieces), HashesOf(pieces)>> /\ r.node.split
    BY <1>8 DEF ListSplit, Fields
  <2> QED BY <1>6, <1>8, <2>1
<1> QED BY <1>1, <1>5, <1>7, <1>8

(***************************************************************************)
(* After a balance the node has the pairs P in order, at its level or, if  *)
(* it is marked as split, as a list for the level above.                   *)
(***************************************************************************)
Settles(n, lo, P, e, m, parent) ==
    \E f \in Nat : HoldsAt(n, lo, P, f) /\ (parent # <<>> /\ ~m.split => f = IF n.split THEN e + 1 ELSE e)

(***************************************************************************)
(* Balancing keeps the pairs of the node, and adds those of the sibling    *)
(* that it takes in.                                                       *)
(***************************************************************************)
LEMMA BalanceRow ==
    ASSUME NEW n \in Node, NEW st \in Stores, NEW parent, NEW e \in Nat, NEW lo \in Nat,
           NEW m, m = SortLast(n), NEW P, P # {}, HoldsAt(m, lo, P, e),
           NEW b, b = Balance(n, st, parent), NEW Q, Takes(b.joined, P, e, Q)
    PROVE  /\ b.node \in Node
           /\ Settles(b.node, lo, P \cup Q, e, n, parent)
<1> DEFINE found == NextSiblingHash(m, st, parent) \cap DOMAIN st
           t == TakeNextSibling(m, st, found)
           r == Cut(t, st, parent)
<1>1. b.node = r.node /\ b.joined = found
  BY DEF Balance
<1>2. b.node \in Node
  BY BalanceType
<1>3. /\ m \in Node /\ m.split = n.split
      /\ Hash(m) \in Digests /\ Hash(m)[1] = m.keys /\ Hash(m)[2] = m.vals
  <2>1. m \in Node /\ m.split = n.split
    BY SortLastMoves
  <2> QED BY <2>1, NodeFields
<1>4. t \in Node /\ HoldsAt(t, lo, P \cup Q, e) /\ t.split = n.split
  <2>1. CASE found = {} /\ Q = {}
    <3>1. t = m
      BY <1>3, <2>1, TakeNextSiblingType, StoreFields DEF TakeNextSibling
    <3> HIDE DEF t
    <3> QED BY <1>3, <2>1, <3>1
  <2>2. ASSUME NEW s \in Digests, found = {s}, s[1] # <<>>, Row(s, s[1][1], Layer[e]),
               \A x \in KeysOf(P) : x < s[1][1], Q = Within(s, Layer[e])
        PROVE  t \in Node /\ HoldsAt(t, lo, P \cup Q, e) /\ t.split = n.split
    <3>1. s \in DOMAIN st
      BY <2>2
    <3>2. t = TakeNextSibling(m, st, {s})
      BY <2>2
    <3> HIDE DEF t, found
    <3>3. /\ Fields(t, m.keys \o s[1], m.vals \o s[2], m.leaf, m.level, m.split, TRUE)
          /\ Joins(m.keys \o s[1], m.keys, s[1], Keys)
          /\ Joins(m.vals \o s[2], m.vals, s[2], Universe)
      BY <1>3, <3>1, <3>2, TakeNextSiblingType
    <3>4. t \in Node /\ Hash(t) = <<m.keys \o s[1], m.vals \o s[2]>> /\ t.split = n.split
      BY <1>3, <3>3 DEF Fields
    <3>5. Hash(t) \in Digests
      BY <3>4, NodeFields
    <3> DEFINE L == Layer[e]
               h == Hash(m)
               z == Hash(t)
    <3>6. /\ L \in Layers /\ h \in Digests /\ z \in Digests /\ Row(h, lo, L) /\ Within(h, L) = P
          /\ Row(s, s[1][1], L) /\ h[1] # <<>>
          /\ Joins(z[1], h[1], s[1], Keys) /\ Joins(z[2], h[2], s[2], Universe)
      <4>1. Row(h, lo, L) /\ Within(h, L) = P
        BY DEF HoldsAt
      <4>2. h[1] # <<>>
        BY <4>1, SomePair
      <4>3. L \in Layers
        BY LayerIs
      <4> QED BY <1>3, <2>2, <3>3, <3>4, <3>5, <4>1, <4>2, <4>3
    <3> HIDE DEF L, h, z
    <3>7. Row(z, lo, L) /\ Within(z, L) = P \cup Within(s, L)
      BY <2>2, <3>6, RowJoin
    <3> QED BY <2>2, <3>4, <3>7 DEF HoldsAt, z, L
  <2>3. \/ found = {} /\ Q = {}
        \/ \E s \in Digests :
             /\ found = {s} /\ s[1] # <<>> /\ Row(s, s[1][1], Layer[e])
             /\ \A x \in KeysOf(P) : x < s[1][1]
             /\ Q = Within(s, Layer[e])
    <3> HIDE DEF found
    <3> QED BY <1>1 DEF Takes
  <2> HIDE DEF found, t
  <2>4. CASE ~(found = {} /\ Q = {})
    <3>1. PICK s \in Digests : /\ found = {s} /\ s[1] # <<>> /\ Row(s, s[1][1], Layer[e])
                               /\ \A x \in KeysOf(P) : x < s[1][1]
                               /\ Q = Within(s, Layer[e])
      BY <2>3, <2>4
    <3> QED BY <2>2, <3>1
  <2> QED BY <2>1, <2>4
<1> HIDE DEF found, t
<1>5. \/ r.node = t
      \/ r.node \in Node /\ HoldsAt(r.node, lo, P \cup Q, e + 1) /\ (parent # <<>> => r.node.split)
  BY <1>4, CutRow
<1> HIDE DEF r
<1>6. CASE r.node = t
  <2>1. HoldsAt(b.node, lo, P \cup Q, e) /\ b.node.split = n.split
    BY <1>1, <1>4, <1>6
  <2> QED BY <1>2, <2>1 DEF Settles
<1>7. CASE HoldsAt(r.node, lo, P \cup Q, e + 1) /\ (parent # <<>> => r.node.split)
  <2>1. HoldsAt(b.node, lo, P \cup Q, e + 1) /\ (parent # <<>> => b.node.split)
    BY <1>1, <1>7
  <2>2. e + 1 \in Nat
    OBVIOUS
  <2> QED BY <1>2, <2>1, <2>2 DEF Settles
<1> QED BY <1>5, <1>6, <1>7

-----------------------------------------------------------------------------
(* Order: the way of a key and what is beside it                           *)

(***************************************************************************)
(* Item i is the one that a descent for key takes: the last whose          *)
(* separator is not above the key, or the first.                           *)
(***************************************************************************)
Toward(h, lo, key, i) ==
    /\ i \in 1..Len(h[1]) /\ lo <= key
    /\ i = 1 \/ h[1][i] <= key
    /\ \A j \in (i + 1)..Len(h[1]) : key < h[1][j]

(***************************************************************************)
(* No other item has the key below it: each has its keys below the next    *)
(* separator and above its bound.                                          *)
(***************************************************************************)
LEMMA OnlyThere ==
    ASSUME NEW L \in Layers, NEW h \in Digests, NEW lo \in Nat, Row(h, lo, L),
           NEW key \in Keys, NEW i, Toward(h, lo, key, i)
    PROVE  /\ LowAt(h, lo, i) \in Nat /\ LowAt(h, lo, i) <= key
           /\ \A j \in 1..Len(h[1]) : j # i => key \notin KeysOf(PartAt(h, j, L))
<1>0. /\ Len(h[1]) \in Nat /\ i \in 1..Len(h[1]) /\ key \in Nat
      /\ \A j \in 1..Len(h[1]) : /\ h[1][j] \in Nat /\ LowAt(h, lo, j) \in Nat
                                 /\ KeysOf(PartAt(h, j, L)) \subseteq Nat
  BY RowItems, TreeAssumption DEF Toward
<1>1. LowAt(h, lo, i) <= key
  BY DEF LowAt, Toward
<1>2. ASSUME NEW j \in 1..Len(h[1]), j # i, key \in KeysOf(PartAt(h, j, L)) PROVE FALSE
  <2>1. CASE j < i
    <3>1. key < h[1][i]
      BY <1>0, <1>2, <2>1 DEF Row, Apart
    <3>2. h[1][i] <= key
      BY <1>0, <2>1 DEF Toward
    <3> QED BY <1>0, <3>1, <3>2
  <2>2. CASE j > i
    <3>1. j \in (i + 1)..Len(h[1]) /\ j # 1
      BY <1>0, <2>2
    <3>2. key < h[1][j]
      BY <3>1 DEF Toward
    <3>3. h[1][j] <= key
      BY <1>2, <3>1 DEF Row, ItemAt, LowAt
    <3> QED BY <1>0, <3>2, <3>3
  <2> QED BY <1>0, <1>2, <2>1, <2>2
<1> QED BY <1>0, <1>1, <1>2

(***************************************************************************)
(* Putting a pair below that item puts it below the node.                  *)
(***************************************************************************)
LEMMA PutBelow ==
    ASSUME NEW L \in Layers, NEW h \in Digests, NEW lo \in Nat, Row(h, lo, L),
           NEW key \in Keys, NEW val, NEW i, Toward(h, lo, key, i)
    PROVE  Put(Within(h, L), key, val) = Others(h, i, L) \cup Put(PartAt(h, i, L), key, val)
<1>0. i \in 1..Len(h[1])
  BY DEF Toward
<1>1. \A j \in 1..Len(h[1]) : j # i => key \notin KeysOf(PartAt(h, j, L))
  BY OnlyThere
<1>2. ASSUME NEW x
      PROVE  x \in Put(Within(h, L), key, val) <=> x \in Others(h, i, L) \cup Put(PartAt(h, i, L), key, val)
  <2>1. ASSUME x \in Within(h, L), x[1] # key
        PROVE  x \in Others(h, i, L) \/ (x \in PartAt(h, i, L) /\ x[1] # key)
    <3>1. PICK j \in 1..Len(h[1]) : x \in PartAt(h, j, L)
      BY <2>1, WithinHas
    <3>2. j # i => j \in (1..Len(h[1])) \ {i}
      OBVIOUS
    <3> QED BY <2>1, <3>1, <3>2, OthersHas
  <2>2. ASSUME x \in Others(h, i, L) PROVE x \in Within(h, L) /\ x[1] # key
    <3>1. PICK j \in (1..Len(h[1])) \ {i} : x \in PartAt(h, j, L)
      BY <2>2, OthersHas
    <3>2. x[1] \in KeysOf(PartAt(h, j, L)) /\ j \in 1..Len(h[1]) /\ j # i
      BY <3>1, KeysIn
    <3> QED BY <1>1, <3>1, <3>2, WithinHas
  <2>3. x \in PartAt(h, i, L) => x \in Within(h, L)
    BY <1>0, WithinHas
  <2>4. \A S : x \in Put(S, key, val) <=> (x \in S /\ x[1] # key) \/ x = <<key, val>>
    BY DEF Put
  <2> QED BY <2>1, <2>2, <2>3, <2>4
<1> QED BY <1>2

(***************************************************************************)
(* The keys after a pair is put.                                           *)
(***************************************************************************)
LEMMA PutKeys ==
    ASSUME NEW P, NEW key, NEW val
    PROVE  /\ \A x : x \in KeysOf(Put(P, key, val)) <=> x \in KeysOf(P) \/ x = key
           /\ <<key, val>> \in Put(P, key, val)
<1>1. \A p : p \in Put(P, key, val) <=> (p \in P /\ p[1] # key) \/ p = <<key, val>>
  BY DEF Put
<1>2. <<key, val>>[1] = key
  OBVIOUS
<1>3. <<key, val>> \in Put(P, key, val) /\ key \in KeysOf(Put(P, key, val))
  BY <1>1, <1>2, KeysIn
<1>4. ASSUME NEW x PROVE x \in KeysOf(Put(P, key, val)) <=> x \in KeysOf(P) \/ x = key
  <2>1. ASSUME x \in KeysOf(P), x # key PROVE x \in KeysOf(Put(P, key, val))
    <3>1. PICK p \in P : p[1] = x
      BY <2>1, KeysIn
    <3> QED BY <1>1, <2>1, <3>1, KeysIn
  <2>2. ASSUME x \in KeysOf(Put(P, key, val)), x # key PROVE x \in KeysOf(P)
    <3>1. PICK p \in Put(P, key, val) : p[1] = x
      BY <2>2, KeysIn
    <3> QED BY <1>1, <1>2, <2>2, <3>1, KeysIn
  <2> QED BY <1>3, <2>1, <2>2
<1> QED BY <1>3, <1>4

(***************************************************************************)
(* A sequence of one.                                                      *)
(***************************************************************************)
LEMMA Singleton ==
    ASSUME NEW S, NEW x \in S, NEW s, s = <<x>>
    PROVE  s \in Seq(S) /\ Len(s) = 1 /\ s[1] = x /\ s # <<>>
OBVIOUS

(***************************************************************************)
(* A node over one stored child.                                           *)
(***************************************************************************)
LEMMA OneItem ==
    ASSUME NEW L \in Layers, NEW k \in Keys, NEW v \in Universe, NEW low \in Nat, NEW B,
           <<v, low>> \in L.ok, L.part[<<k, v>>] = B, k \in KeysOf(B), \A x \in KeysOf(B) : low <= x,
           low = 0 \/ k = low,
           NEW ks, ks = <<k>>, NEW vs, vs = <<v>>, NEW t, t = <<ks, vs>>
    PROVE  /\ t \in Digests /\ t[1] # <<>> /\ Len(t[1]) = 1 /\ Len(t[2]) = 1 /\ t[1][1] = k /\ t[2][1] = v
           /\ Row(t, low, L) /\ Within(t, L) = B
<1>1. /\ t \in Digests /\ t[1] # <<>> /\ Len(t[1]) = 1 /\ Len(t[2]) = 1 /\ t[1][1] = k /\ t[2][1] = v
  <2>1. ks \in Seq(Keys) /\ Len(ks) = 1 /\ ks[1] = k /\ ks # <<>>
    BY Singleton
  <2>2. vs \in Seq(Universe) /\ Len(vs) = 1 /\ vs[1] = v
    BY Singleton
  <2>3. t[1] = ks /\ t[2] = vs /\ t \in Digests
    BY <2>1, <2>2 DEF Digests
  <2> QED BY <2>1, <2>2, <2>3
<1>2. PartAt(t, 1, L) = B
  BY <1>1 DEF PartAt
<1>3. \A i \in 1..Len(t[1]) : i = 1
  BY <1>1
<1>4. ItemAt(t, low, 1, L)
  BY <1>1, <1>2 DEF ItemAt, LowAt
<1>5. Apart(t, L)
  BY <1>3 DEF Apart
<1>6. Row(t, low, L)
  BY <1>1, <1>3, <1>4, <1>5 DEF Row
<1>7. Within(t, L) = B
  <2>1. 1 \in 1..Len(t[1])
    BY <1>1
  <2>2. \A p : p \in Within(t, L) <=> p \in B
    BY <1>2, <1>3, <2>1, WithinHas
  <2> QED BY <2>2
<1> QED BY <1>1, <1>6, <1>7

(***************************************************************************)
(* The items of the parent without those that the child took in: in order, *)
(* with the pairs Q fewer, and the separators after item i beyond what was *)
(* taken.                                                                  *)
(***************************************************************************)
Remainder(g, h, lo, i, Q, L) ==
    /\ g \in Digests /\ Row(g, lo, L) /\ i \in 1..Len(g[1])
    /\ g[1][i] = h[1][i] /\ LowAt(g, lo, i) = LowAt(h, lo, i)
    /\ \A x : x \in Others(h, i, L) <=> x \in Others(g, i, L) \/ x \in Q
    /\ \A j \in (i + 1)..Len(g[1]) : \E q \in (i + 1)..Len(h[1]) : g[1][j] = h[1][q] /\ (Q # {} => q > i + 1)

(***************************************************************************)
(* That is what remains of a parent after the sibling is dropped.          *)
(***************************************************************************)
LEMMA RestRow ==
    ASSUME NEW L \in Layers, NEW n \in Node, NEW lo \in Nat, Row(Hash(n), lo, L),
           NEW i \in 1..Len(n.keys), NEW c, NEW Q,
           \/ Dropped(n, i, c) = {} /\ Q = {}
           \/ Dropped(n, i, c) # {} /\ Q = PartAt(Hash(n), i + 1, L)
    PROVE  Remainder(Hash(Rest(n, i, c)), Hash(n), lo, i, Q, L)
<1> DEFINE h == Hash(n)
           w == Rest(n, i, c)
           g == Hash(w)
<1>0. /\ h \in Digests /\ h[1] = n.keys /\ h[2] = n.vals /\ Len(n.keys) \in Nat
      /\ w \in Node /\ g \in Digests /\ g[1] = w.keys /\ g[2] = w.vals
      /\ Row(h, lo, L)
      /\ \/ Dropped(n, i, c) = {} /\ w = n
         \/ /\ Dropped(n, i, c) = {n.vals[i + 1]} /\ i + 1 \in 1..Len(n.keys)
            /\ PairRemoved(w, n, i + 1)
  BY NodeFields, RestType
<1> HIDE DEF w, h, g
<1>1. CASE Dropped(n, i, c) = {} /\ w = n
  <2>1. g = h /\ Q = {}
    BY <1>1 DEF g, h
  <2>2. \A j \in (i + 1)..Len(g[1]) : \E q \in (i + 1)..Len(h[1]) : g[1][j] = h[1][q] /\ (Q # {} => q > i + 1)
    BY <2>1
  <2>3. Remainder(g, h, lo, i, Q, L)
    BY <1>0, <2>1, <2>2 DEF Remainder
  <2> QED BY <2>3 DEF g, h, w
<1>2. CASE /\ Dropped(n, i, c) = {n.vals[i + 1]} /\ i + 1 \in 1..Len(n.keys)
           /\ PairRemoved(w, n, i + 1)
  <2>1. Q = PartAt(h, i + 1, L)
    BY <1>2 DEF h
  <2> DEFINE k == i + 1
  <2>2. k \in 2..Len(h[1]) /\ Removes(g[1], h[1], k, Keys) /\ Removes(g[2], h[2], k, Universe)
    BY <1>0, <1>2 DEF PairRemoved
  <2>3. k \in Nat /\ k - 1 = i /\ i \in 1..(k - 1) /\ Len(h[1]) \in Nat /\ Len(g[1]) = Len(h[1]) - 1
    BY <1>0, <2>2 DEF Removes
  <2>10. k = i + 1
    OBVIOUS
  <2> HIDE DEF k
  <2>4. /\ Row(g, lo, L)
        /\ \A j \in 1..(k - 1) : SameItem(g, j, h, j) /\ LowAt(g, lo, j) = LowAt(h, lo, j)
        /\ \A j \in k..Len(g[1]) : SameItem(g, j, h, j + 1)
    BY <1>0, <2>2, RowRemove
  <2>5. i \in 1..Len(g[1]) /\ g[1][i] = h[1][i] /\ LowAt(g, lo, i) = LowAt(h, lo, i)
    BY <2>2, <2>3, <2>4 DEF SameItem
  <2>6. \A j \in (i + 1)..Len(g[1]) : \E q \in (i + 1)..Len(h[1]) : g[1][j] = h[1][q] /\ (Q # {} => q > i + 1)
    <3> SUFFICES ASSUME NEW j \in (i + 1)..Len(g[1])
                 PROVE  \E q \in (i + 1)..Len(h[1]) : g[1][j] = h[1][q] /\ q > i + 1
      OBVIOUS
    <3>1. j \in k..Len(g[1])
      BY <2>10
    <3>2. j + 1 \in (i + 1)..Len(h[1]) /\ j + 1 > i + 1
      BY <2>3
    <3>3. g[1][j] = h[1][j + 1]
      BY <2>4, <3>1 DEF SameItem
    <3> QED BY <3>2, <3>3
  <2>7. ASSUME NEW x PROVE x \in Others(h, i, L) <=> x \in Others(g, i, L) \/ x \in Q
    <3>1. ASSUME NEW j \in (1..Len(h[1])) \ {i}, x \in PartAt(h, j, L)
          PROVE  x \in Others(g, i, L) \/ x \in Q
      <4>1. CASE j < k
        <5>1. j \in 1..(k - 1) /\ j \in (1..Len(g[1])) \ {i}
          BY <2>2, <2>3, <4>1
        <5>2. PartAt(g, j, L) = PartAt(h, j, L)
          BY <2>4, <5>1, SameItemPart
        <5> QED BY <3>1, <5>1, <5>2, OthersHas
      <4>2. CASE j = k
        BY <2>1, <2>10, <3>1, <4>2
      <4>3. CASE j > k
        <5>1. j - 1 \in k..Len(g[1]) /\ j - 1 \in (1..Len(g[1])) \ {i} /\ (j - 1) + 1 = j
          BY <2>2, <2>3, <4>3
        <5>2. PartAt(g, j - 1, L) = PartAt(h, j, L)
          BY <2>4, <5>1, SameItemPart
        <5> QED BY <3>1, <5>1, <5>2, OthersHas
      <4> QED BY <2>3, <4>1, <4>2, <4>3
    <3>2. ASSUME NEW j \in (1..Len(g[1])) \ {i}, x \in PartAt(g, j, L)
          PROVE  x \in Others(h, i, L)
      <4>1. CASE j < k
        <5>1. j \in 1..(k - 1) /\ j \in (1..Len(h[1])) \ {i}
          BY <2>2, <2>3, <4>1
        <5>2. PartAt(g, j, L) = PartAt(h, j, L)
          BY <2>4, <5>1, SameItemPart
        <5> QED BY <3>2, <5>1, <5>2, OthersHas
      <4>2. CASE ~(j < k)
        <5>1. j \in k..Len(g[1]) /\ j + 1 \in (1..Len(h[1])) \ {i}
          BY <2>2, <2>3, <4>2
        <5>2. PartAt(g, j, L) = PartAt(h, j + 1, L)
          BY <2>4, <5>1, SameItemPart
        <5> QED BY <3>2, <5>1, <5>2, OthersHas
      <4> QED BY <4>1, <4>2
    <3>3. x \in Q => x \in Others(h, i, L)
      <4>1. k \in (1..Len(h[1])) \ {i} /\ Q = PartAt(h, k, L)
        BY <2>1, <2>2, <2>3, <2>10
      <4> QED BY <4>1, OthersHas
    <3> QED BY <3>1, <3>2, <3>3, OthersHas
  <2>8. Remainder(g, h, lo, i, Q, L)
    BY <1>0, <2>4, <2>5, <2>6, <2>7 DEF Remainder
  <2> QED BY <2>8 DEF g, h, w
<1> QED BY <1>0, <1>1, <1>2

-----------------------------------------------------------------------------
(* Order: the parent takes in the answer for a child                       *)

(***************************************************************************)
(* An answer for a child: in order, with the pairs P, a node of its level  *)
(* or a list for the level above.                                          *)
(***************************************************************************)
ResultRow(n, lo, P, e) == HoldsAt(n, lo, P, IF n.split THEN e + 1 ELSE e)

(***************************************************************************)
(* Beside a separator above the leaves stands the digest of a row one      *)
(* level down.                                                             *)
(***************************************************************************)
LEMMA ChildDigest ==
    ASSUME NEW e \in Nat, NEW h \in Digests, NEW lo \in Nat, Row(h, lo, Layer[e + 1]), NEW i \in 1..Len(h[1])
    PROVE  /\ Paired(h[2][i]) /\ h[2][i][2] # <<>> /\ Row(h[2][i], LowAt(h, lo, i), Layer[e])
           /\ PartAt(h, i, Layer[e + 1]) = Within(h[2][i], Layer[e])
<1>1. <<h[2][i], LowAt(h, lo, i)>> \in Layer[e + 1].ok
  BY DEF Row, ItemAt
<1>2. Paired(h[2][i]) /\ h[2][i][2] # <<>> /\ Row(h[2][i], LowAt(h, lo, i), Layer[e])
  BY <1>1, LayerOk
<1>3. h[1][i] \in Keys
  BY DigestIs
<1> QED BY <1>2, <1>3, LayerUp DEF PartAt

(***************************************************************************)
(* Replacing one item is a splice of one.                                  *)
(***************************************************************************)
LEMMA OneSpliced ==
    ASSUME NEW S, NEW s \in Seq(S), NEW i \in 1..Len(s), NEW r \in Seq(S), NEW t, Len(t) = 1, t[1] = r[i],
           Len(r) = Len(s), \A j \in 1..Len(s) : j # i => r[j] = s[j]
    PROVE  Splices(r, s, i, t, S)
<1> DEFINE a == Len(s)
<1>0. a \in Nat /\ Len(s) = a /\ Len(r) = a /\ i \in 1..a
  BY LenProperties
<1> HIDE DEF a
<1>1. \A j \in 1..(i - 1) : j \in 1..a /\ j # i
  BY <1>0
<1>2. \A j \in (i + 1)..a : j \in 1..a /\ j # i /\ j + 1 - 1 = j
  BY <1>0
<1>3. \A j \in 1..1 : j = 1 /\ i - 1 + j = i
  BY <1>0
<1>4. a + 1 - 1 = a /\ 1 \in Nat
  BY <1>0
<1>5. \A j \in 1..1 : r[i - 1 + j] = t[j]
  BY <1>3
<1> QED BY <1>0, <1>1, <1>2, <1>4, <1>5 DEF Splices

(***************************************************************************)
(* A parent that takes in the answer for the child on the way of the key   *)
(* has the pair put and no other pair touched: what the child took from    *)
(* its sibling is gone from the sibling, and from nowhere else.            *)
(***************************************************************************)
LEMMA ReplaceRow ==
    ASSUME NEW e \in Nat, NEW M, M = Layer[e + 1], NEW n \in Node, NEW lo \in Nat, Row(Hash(n), lo, M),
           NEW key \in Keys, NEW val, NEW i, Toward(Hash(n), lo, key, i), NEW c \in Node, NEW Q,
           \/ Dropped(n, i, c) = {} /\ Q = {}
           \/ Dropped(n, i, c) # {} /\ Q = PartAt(Hash(n), i + 1, M),
           ResultRow(c, LowAt(Hash(n), lo, i), Put(PartAt(Hash(n), i, M), key, val) \cup Q, e)
    PROVE  /\ ReplaceChild(n, i, c) \in Node
           /\ HoldsAt(ReplaceChild(n, i, c), lo, Put(Within(Hash(n), M), key, val), e + 1)
<1> DEFINE h == Hash(n)
           w == Rest(n, i, c)
           g == Hash(w)
           m == ReplaceChild(n, i, c)
           r == Hash(m)
           low == LowAt(h, lo, i)
           A == PartAt(h, i, M)
           B == Put(A, key, val) \cup Q
<1>20. h = Hash(n)
  OBVIOUS
<1>22. Row(h, lo, M) /\ Toward(h, lo, key, i)
  OBVIOUS
<1>0. /\ h \in Digests /\ h[1] = n.keys /\ h[2] = n.vals /\ Len(n.keys) \in Nat /\ Row(h, lo, M)
      /\ M \in Layers /\ i \in 1..Len(n.keys) /\ i \in 1..Len(h[1]) /\ Toward(h, lo, key, i)
  <2> HIDE DEF h
  <2>1. h \in Digests /\ h[1] = n.keys /\ h[2] = n.vals /\ Len(n.keys) \in Nat
    BY <1>20, NodeFields
  <2>2. i \in 1..Len(h[1])
    BY <1>22 DEF Toward
  <2>3. e + 1 \in Nat
    OBVIOUS
  <2>4. M \in Layers
    BY <2>3, LayerIs
  <2> QED BY <1>22, <2>1, <2>2, <2>4
<1>1. /\ w \in Node /\ g \in Digests /\ g[1] = w.keys /\ g[2] = w.vals
      /\ m \in Node /\ r \in Digests /\ r[1] = m.keys /\ r[2] = m.vals
      /\ Len(g[1]) \in Nat /\ Len(g[2]) = Len(g[1])
      /\ \/ c.split /\ Spliced2(m, w, i, c)
         \/ ~c.split /\ Renewed(m, w, i, c)
  BY <1>0, RestType, ReplaceChildType, NodeFields
<1>2. Remainder(g, h, lo, i, Q, M)
  BY <1>0, RestRow
<1>3. low \in Nat /\ low <= key /\ key \in Nat
  BY <1>0, OnlyThere, TreeAssumption
<1>4. ResultRow(c, low, B, e) /\ low = LowAt(h, lo, i)
  OBVIOUS
<1>5. h[1][i] \in Keys /\ h[1][i] \in KeysOf(A)
  BY <1>0, RowItems
<1>6. <<key, val>> \in B /\ \A x : x \in KeysOf(B) <=> x \in KeysOf(A) \/ x = key \/ x \in KeysOf(Q)
  <2>1. <<key, val>> \in B
    BY PutKeys
  <2>2. ASSUME NEW x PROVE x \in KeysOf(B) <=> x \in KeysOf(Put(A, key, val)) \/ x \in KeysOf(Q)
    <3> HIDE DEF A
    <3> QED BY DEF KeysOf
  <2>3. \A x : x \in KeysOf(Put(A, key, val)) <=> x \in KeysOf(A) \/ x = key
    BY PutKeys
  <2> HIDE DEF B, A
  <2> QED BY <2>1, <2>2, <2>3
<1>7. B # {}
  BY <1>6
<1>23. B = Put(A, key, val) \cup Q /\ A = PartAt(h, i, M)
  OBVIOUS
<1>21. Q = {} \/ Q = PartAt(h, i + 1, M)
  OBVIOUS
<1> HIDE DEF h, w, g, m, r, low, A, B
<1>8. \A x \in KeysOf(B) : \A j \in (i + 1)..Len(g[1]) : x < g[1][j]
  <2> SUFFICES ASSUME NEW x \in KeysOf(B), NEW j \in (i + 1)..Len(g[1]) PROVE x < g[1][j]
    OBVIOUS
  <2>1. PICK q \in (i + 1)..Len(h[1]) : g[1][j] = h[1][q] /\ (Q # {} => q > i + 1)
    BY <1>2 DEF Remainder
  <2>2. q \in 1..Len(h[1]) /\ i < q /\ Len(h[1]) \in Nat
    BY <1>0
  <2>3. CASE x \in KeysOf(A)
    BY <1>0, <1>23, <2>1, <2>2, <2>3 DEF Row, Apart
  <2>4. CASE x = key
    BY <1>0, <2>1, <2>4 DEF Toward
  <2>5. CASE x \in KeysOf(Q)
    <3>1. Q # {}
      BY <2>5 DEF KeysOf
    <3>2. Q = PartAt(h, i + 1, M)
      BY <1>21, <3>1
    <3>3. i + 1 < q /\ i + 1 \in 1..Len(h[1])
      BY <1>0, <2>1, <2>2, <3>1
    <3> QED BY <1>0, <2>1, <2>2, <2>5, <3>2, <3>3 DEF Row, Apart
  <2> QED BY <1>6, <2>3, <2>4, <2>5
<1>9. \E t \in Digests : /\ t[1] # <<>> /\ Row(t, low, M) /\ Within(t, M) = B
                        /\ Splices(r[1], g[1], i, t[1], Keys) /\ Splices(r[2], g[2], i, t[2], Universe)
  <2>0. Hash(c) \in Digests /\ Hash(c)[1] = c.keys /\ Hash(c)[2] = c.vals /\ Paired(Hash(c))
        /\ Hash(c) \in Universe
    BY NodeFields DEF Paired
  <2>1. CASE c.split
    <3>1. Row(Hash(c), low, M) /\ Within(Hash(c), M) = B
      BY <1>4, <2>1 DEF ResultRow, HoldsAt
    <3>2. Hash(c)[1] # <<>>
      BY <1>7, <3>1, SomePair
    <3>3. Spliced2(m, w, i, c)
      BY <1>1, <2>1
    <3>4. Splices(r[1], g[1], i, Hash(c)[1], Keys) /\ Splices(r[2], g[2], i, Hash(c)[2], Universe)
      BY <1>1, <2>0, <3>3 DEF Spliced2
    <3> QED BY <2>0, <3>1, <3>2, <3>4
  <2>2. CASE ~c.split
    <3> DEFINE v == Hash(c)
               k == h[1][i]
               ks == <<k>>
               vs == <<v>>
               t == <<ks, vs>>
    <3>1. Row(v, low, Layer[e]) /\ Within(v, Layer[e]) = B
      BY <1>4, <2>2 DEF ResultRow, HoldsAt
    <3>2. v[2] # <<>>
      <4>1. v[1] # <<>>
        BY <1>7, <3>1, SomePair
      <4>2. v[1] \in Seq(Keys) /\ Len(v[1]) = Len(v[2])
        BY <2>0 DEF Paired, Digests
      <4>3. Len(v[1]) # 0
        BY <4>1, <4>2, EmptySeq
      <4>4. Len(<<>>) = 0
        OBVIOUS
      <4> HIDE DEF v
      <4> QED BY <4>2, <4>3, <4>4
    <3>3. M.part[<<k, v>>] = B /\ <<v, low>> \in M.ok
      <4>1. /\ M.part[<<k, v>>] = Within(v, Layer[e])
            /\ \A lw \in Nat : <<v, lw>> \in M.ok <=> v[2] # <<>> /\ Row(v, lw, Layer[e])
        BY <1>5, <2>0, LayerUp
      <4> HIDE DEF v, k
      <4> QED BY <1>3, <3>1, <3>2, <4>1
    <3>4. k \in Keys /\ v \in Universe /\ k \in KeysOf(B)
      BY <1>5, <1>6, <2>0
    <3>5. \A x \in KeysOf(B) : low <= x
      <4>1. Layer[e] \in Layers
        BY LayerIs
      <4> QED BY <1>3, <2>0, <3>1, <4>1, RowLow
    <3>6. low = 0 \/ k = low
      <4>1. CASE i = 1
        <5>1. low = lo
          BY <4>1 DEF low, LowAt
        <5>2. h[1] # <<>>
          <6>1. Len(<<>>) = 0
            OBVIOUS
          <6> QED BY <1>0, <6>1
        <5> QED BY <1>0, <4>1, <5>1, <5>2 DEF Row
      <4>2. CASE i # 1
        BY <4>2 DEF low, LowAt
      <4> QED BY <4>1, <4>2
    <3>7. ks = <<k>> /\ vs = <<v>> /\ t = <<ks, vs>>
      OBVIOUS
    <3> HIDE DEF k, v, ks, vs, t
    <3>8. /\ t \in Digests /\ t[1] # <<>> /\ Len(t[1]) = 1 /\ Len(t[2]) = 1 /\ t[1][1] = k /\ t[2][1] = v
          /\ Row(t, low, M) /\ Within(t, M) = B
      BY <1>0, <1>3, <3>3, <3>4, <3>5, <3>6, <3>7, OneItem
    <3>9. /\ r[1] = g[1] /\ Len(r[2]) = Len(g[2]) /\ r[2][i] = v
          /\ \A j \in 1..Len(g[2]) : j # i => r[2][j] = g[2][j]
      BY <1>1, <2>2 DEF Renewed, v
    <3>10. i \in 1..Len(g[1]) /\ i \in 1..Len(g[2]) /\ g[1][i] = k
      BY <1>1, <1>2 DEF Remainder, k
    <3>11. g[1] \in Seq(Keys) /\ g[2] \in Seq(Universe) /\ r[1] \in Seq(Keys) /\ r[2] \in Seq(Universe)
      BY <1>1, DigestIs
    <3>12. Splices(r[1], g[1], i, t[1], Keys)
      BY <3>8, <3>9, <3>10, <3>11, OneSpliced
    <3>13. Splices(r[2], g[2], i, t[2], Universe)
      BY <3>8, <3>9, <3>10, <3>11, OneSpliced
    <3> QED BY <3>8, <3>12, <3>13
  <2> QED BY <2>1, <2>2
<1>10. PICK t \in Digests : /\ t[1] # <<>> /\ Row(t, low, M) /\ Within(t, M) = B
                           /\ Splices(r[1], g[1], i, t[1], Keys) /\ Splices(r[2], g[2], i, t[2], Universe)
  BY <1>9
<1>11. Row(r, lo, M) /\ Within(r, M) = Others(g, i, M) \cup B
  <2>1. low = LowAt(g, lo, i) /\ Row(g, lo, M) /\ i \in 1..Len(g[1]) /\ g \in Digests
    BY <1>2, <1>4 DEF Remainder
  <2>2. Row(t, LowAt(g, lo, i), M) /\ \A x \in KeysOf(Within(t, M)) : \A j \in (i + 1)..Len(g[1]) : x < g[1][j]
    BY <1>8, <1>10, <2>1
  <2>3. g \in Digests /\ t \in Digests /\ r \in Digests /\ t[1] # <<>>
    BY <1>1, <1>10
  <2>4. Row(g, lo, M)
    BY <2>1
  <2>5. M \in Layers
    BY <1>0
  <2>6. Splices(r[1], g[1], i, t[1], Keys) /\ Splices(r[2], g[2], i, t[2], Universe)
    BY <1>10
  <2>7. i \in 1..Len(g[1])
    BY <2>1
  <2>8. Row(t, LowAt(g, lo, i), M)
    BY <2>2
  <2>9. \A x \in KeysOf(Within(t, M)) : \A j \in (i + 1)..Len(g[1]) : x < g[1][j]
    BY <2>2
  <2>10. Row(r, lo, M) /\ Within(r, M) = Others(g, i, M) \cup Within(t, M)
    BY ONLY <2>3, <2>4, <2>5, <2>6, <2>7, <2>8, <2>9, lo \in Nat, RowSplice
  <2> QED BY <1>10, <2>10
<1>12. Others(g, i, M) \cup B = Put(Within(h, M), key, val)
  <2>0. M \in Layers /\ h \in Digests /\ Row(h, lo, M) /\ Toward(h, lo, key, i)
    BY <1>0
  <2>1. Put(Within(h, M), key, val) = Others(h, i, M) \cup Put(PartAt(h, i, M), key, val)
    BY ONLY <2>0, lo \in Nat, key \in Keys, PutBelow
  <2>2. \A x : x \in Others(h, i, M) <=> x \in Others(g, i, M) \/ x \in Q
    BY <1>2 DEF Remainder
  <2> QED BY <1>23, <2>1, <2>2
<1>13. HoldsAt(m, lo, Put(Within(h, M), key, val), e + 1)
  BY <1>11, <1>12 DEF HoldsAt, r
<1> QED BY <1>1, <1>13 DEF h, m

-----------------------------------------------------------------------------
(* Order: the end of a call at one node                                    *)

(***************************************************************************)
(* A root that becomes its only child has the pairs it had.                *)
(***************************************************************************)
LEMMA CollapseRow ==
    ASSUME NEW n \in Node, NEW st \in Stores, NEW parent, NEW f \in Nat, NEW lo \in Nat, NEW P,
           HoldsAt(n, lo, P, f), NEW m, m = CollapseRoot(n, st, parent)
    PROVE  /\ m \in Node
           /\ parent # <<>> => m = n
           /\ \E g \in Nat : HoldsAt(m, lo, P, g)
<1>1. m \in Node /\ (parent # <<>> => m = n)
  BY CollapseRootType
<1>2. CASE m = n
  BY <1>1, <1>2
<1>3. CASE m # n
  <2> DEFINE h == Hash(n)
             v == h[2][1]
  <2>1. /\ Len(n.keys) = 1 /\ n.vals[1] \in DOMAIN st
        /\ m.keys = n.vals[1][1] /\ m.vals = n.vals[1][2]
    BY <1>3, CollapseRootType DEF Fields
  <2>2. /\ h \in Digests /\ h[1] = n.keys /\ h[2] = n.vals /\ Row(h, lo, Layer[f]) /\ Within(h, Layer[f]) = P
        /\ v = n.vals[1]
    BY NodeFields DEF HoldsAt, Hash
  <2>3. v \in Digests /\ Hash(m) = v
    <3>1. v \in Digests
      BY <2>1, <2>2, StoreFields
    <3>2. v = <<v[1], v[2]>>
      BY <3>1, DigestIs
    <3> QED BY <2>1, <2>2, <3>1, <3>2 DEF Hash
  <2> HIDE DEF h, v
  <2>4. 1 \in 1..Len(h[1]) /\ 1..Len(h[1]) = {1}
    <3>1. Len(h[1]) = 1
      BY <2>1, <2>2
    <3>2. 1..1 = {1} /\ 1 \in {1}
      OBVIOUS
    <3> QED BY <3>1, <3>2
  <2>5. f # 0
    <3> SUFFICES ASSUME f = 0 PROVE FALSE
      OBVIOUS
    <3>1. h[2][1] \in Values
      BY <2>2, <2>4, GroundRow
    <3>2. DOMAIN v = 1..2
      BY <2>3 DEF Digests
    <3> QED BY <3>1, <3>2, TreeAssumption DEF v
  <2>6. PICK g \in Nat : f = g + 1
    BY <2>5
  <2>7. Row(h, lo, Layer[g + 1])
    BY <2>2, <2>6
  <2>8. Row(v, LowAt(h, lo, 1), Layer[g]) /\ PartAt(h, 1, Layer[g + 1]) = Within(v, Layer[g])
    BY <2>2, <2>4, <2>7, ChildDigest DEF v
  <2>9. LowAt(h, lo, 1) = lo
    BY DEF LowAt
  <2>10. Within(h, Layer[g + 1]) = PartAt(h, 1, Layer[g + 1])
    BY <2>4 DEF Within
  <2>11. HoldsAt(m, lo, P, g)
    BY <2>2, <2>3, <2>6, <2>8, <2>9, <2>10 DEF HoldsAt
  <2> QED BY <1>1, <2>11
<1> QED BY <1>2, <1>3

(***************************************************************************)
(* A node has the pairs P in order at some level.                          *)
(***************************************************************************)
Settled(n, lo, P) == \E g \in Nat : HoldsAt(n, lo, P, g)

(***************************************************************************)
(* The end of a call: the root has the pairs at some level, a child is an  *)
(* answer that its parent can take in.                                     *)
(***************************************************************************)
Ends(r, lo, P, e, parent) ==
    /\ r.node \in Node
    /\ Settled(r.node, lo, P)
    /\ parent # <<>> => ResultRow(r.node, lo, P, e)

(***************************************************************************)
(* The end of a call from what it balances.                                *)
(***************************************************************************)
LEMMA ReturnsRow ==
    ASSUME NEW m \in Node, NEW s \in Stores, NEW parent, NEW e \in Nat, NEW lo \in Nat,
           NEW P, P # {}, HoldsAt(SortLast(m), lo, P, e), parent # <<>> => ~m.split,
           NEW lost, NEW r, Returns(r, Balance(m, s, parent), parent, lost),
           NEW Q, Takes(r.joined, P, e, Q)
    PROVE  Ends(r, lo, P \cup Q, e, parent)
<1> DEFINE b == Balance(m, s, parent)
<1>1. r.node = CollapseRoot(b.node, b.st, parent) /\ r.joined = b.joined
  BY DEF Returns
<1>2. b.st \in Stores
  BY BalanceType
<1>3. b = Balance(m, s, parent)
  OBVIOUS
<1> DEFINE z == SortLast(m)
<1>7. z = SortLast(m) /\ HoldsAt(z, lo, P, e) /\ Takes(b.joined, P, e, Q)
  BY <1>1
<1> HIDE DEF b, z
<1>4. b.node \in Node /\ Settles(b.node, lo, P \cup Q, e, m, parent)
  BY <1>3, <1>7, BalanceRow
<1>5. PICK f \in Nat : /\ HoldsAt(b.node, lo, P \cup Q, f)
                       /\ parent # <<>> /\ ~m.split => f = IF b.node.split THEN e + 1 ELSE e
  BY <1>4 DEF Settles
<1>6. r.node \in Node /\ (parent # <<>> => r.node = b.node) /\ \E g \in Nat : HoldsAt(r.node, lo, P \cup Q, g)
  BY <1>1, <1>2, <1>4, <1>5, CollapseRow
<1> QED BY <1>5, <1>6 DEF ResultRow, Settled, Ends

-----------------------------------------------------------------------------
(* Order: one call of insert, at a leaf and above                          *)

(***************************************************************************)
(* The answer of insert for a child: whatever the bound, if the keys were  *)
(* in order from it and no join strayed, the answer has the pair put and   *)
(* the pairs of the sibling that it took in.                               *)
(***************************************************************************)
Grown(a, h, key, val, e) ==
    \A lo \in Nat : \A Q :
      /\ lo <= key /\ h[2] # <<>> /\ Row(h, lo, Layer[e]) /\ ~a.strayed
      /\ Takes(a.joined, Put(Within(h, Layer[e]), key, val), e, Q)
      => ResultRow(a.node, lo, Put(Within(h, Layer[e]), key, val) \cup Q, e)

(***************************************************************************)
(* What the child took in is what the parent had beside it.                *)
(***************************************************************************)
LEMMA TakenIs ==
    ASSUME NEW e \in Nat, NEW n \in Node, NEW lo \in Nat, Row(Hash(n), lo, Layer[e + 1]),
           NEW key \in Keys, NEW val, NEW i, Toward(Hash(n), lo, key, i), NEW c,
           NEW Q, Q = IF Dropped(n, i, c) = {} THEN {} ELSE PartAt(Hash(n), i + 1, Layer[e + 1])
    PROVE  Takes(Dropped(n, i, c), Put(PartAt(Hash(n), i, Layer[e + 1]), key, val), e, Q)
<1> DEFINE h == Hash(n)
           M == Layer[e + 1]
           A == PartAt(h, i, M)
<1>1. CASE Dropped(n, i, c) = {}
  BY <1>1 DEF Takes
<1>2. CASE Dropped(n, i, c) # {}
  <2>1. h \in Digests /\ h[1] = n.keys /\ h[2] = n.vals /\ h = Hash(n) /\ Len(n.keys) \in Nat
    BY NodeFields
  <2>2. M \in Layers /\ M = Layer[e + 1]
    <3>1. e + 1 \in Nat
      OBVIOUS
    <3> QED BY <3>1, LayerIs
  <2>3. Row(h, lo, M) /\ Toward(h, lo, key, i) /\ A = PartAt(h, i, M) /\ Q = PartAt(h, i + 1, M)
    BY <1>2
  <2> HIDE DEF h, M, A
  <2>4. i \in 1..Len(h[1]) /\ i \in 1..Len(n.keys)
    BY <2>1, <2>3 DEF Toward
  <2>5. Dropped(n, i, c) = {n.vals[i + 1]} /\ i + 1 \in 1..Len(n.keys)
    BY <1>2, <2>4, RestType
  <2> DEFINE s == h[2][i + 1]
  <2>6. s = h[2][i + 1] /\ Dropped(n, i, c) = {s} /\ i + 1 \in 1..Len(h[1])
    BY <2>1, <2>5
  <2> HIDE DEF s
  <2>7. /\ h[1][i] \in Nat /\ h[1][i + 1] \in Nat /\ h[1][i] < h[1][i + 1]
    <3> DEFINE u == i + 1
    <3>1. u \in 1..Len(h[1]) /\ i < u
      BY <2>4, <2>6
    <3> HIDE DEF u
    <3>2. h[1][i] \in Nat /\ h[1][u] \in Nat /\ h[1][i] < h[1][u]
      BY <2>1, <2>2, <2>3, <2>4, <3>1, RowItems
    <3> QED BY <3>2 DEF u
  <2>8. Paired(s) /\ s[2] # <<>> /\ Row(s, LowAt(h, lo, i + 1), Layer[e]) /\ Q = Within(s, Layer[e])
    BY <2>1, <2>2, <2>3, <2>6, ChildDigest
  <2>9. LowAt(h, lo, i + 1) = h[1][i + 1] /\ h[1][i + 1] # 0
    <3>1. i + 1 # 1
      BY <2>4
    <3> QED BY <2>7, <3>1 DEF LowAt
  <2>10. s[1] # <<>> /\ s \in Digests
    <3>1. s \in Digests /\ Len(s[1]) = Len(s[2]) /\ s[2] \in Seq(Universe)
      BY <2>8, DigestIs DEF Paired
    <3>2. Len(s[2]) # 0
      BY <2>8, <3>1, EmptySeq
    <3>3. Len(<<>>) = 0
      OBVIOUS
    <3> QED BY <3>1, <3>2, <3>3
  <2>11. s[1][1] = h[1][i + 1]
    BY <2>8, <2>9, <2>10 DEF Row
  <2>12. \A x \in KeysOf(Put(A, key, val)) : x < s[1][1]
    <3>1. ASSUME NEW x \in KeysOf(A) PROVE x < s[1][1]
      <4>1. i < i + 1
        BY <2>4
      <4> QED BY <2>3, <2>4, <2>6, <2>11, <3>1, <4>1 DEF Row, Apart
    <3>2. key < s[1][1]
      <4>1. i + 1 \in (i + 1)..Len(h[1])
        BY <2>1, <2>4, <2>6
      <4> QED BY <2>3, <2>11, <4>1 DEF Toward
    <3> SUFFICES ASSUME NEW x \in KeysOf(Put(A, key, val)) PROVE x < s[1][1]
      OBVIOUS
    <3>3. x \in KeysOf(A) \/ x = key
      BY PutKeys
    <3> QED BY <3>1, <3>2, <3>3
  <2>13. Row(s, s[1][1], Layer[e])
    BY <2>8, <2>9, <2>11
  <2>14. Takes(Dropped(n, i, c), Put(A, key, val), e, Q)
    BY <2>6, <2>8, <2>10, <2>12, <2>13 DEF Takes
  <2> QED BY <2>14 DEF A, h, M
<1> QED BY <1>1, <1>2

(***************************************************************************)
(* insert at a leaf.                                                       *)
(***************************************************************************)
LEMMA LeafRow ==
    ASSUME NEW n \in Node, NEW st \in Stores, NEW lo \in Nat, Row(Hash(n), lo, Layer[0]),
           NEW key \in Keys, lo <= key, lo = 0 \/ n.vals # <<>>, NEW val \in Values,
           NEW parent, parent # <<>> => ~n.split,
           NEW lost, NEW r, Returns(r, Balance(PutInLeaf(n, key, val), st, parent), parent, lost),
           NEW P, P = Put(Within(Hash(n), Layer[0]), key, val),
           NEW Q, Takes(r.joined, P, 0, Q)
    PROVE  Ends(r, lo, P \cup Q, 0, parent)
<1> DEFINE m == PutInLeaf(n, key, val)
<1>1. m \in Node /\ m.split = n.split
  <2>1. val \in Universe
    BY UniverseClosed
  <2> QED BY <2>1, PutInLeafType DEF SameKind
<1>2. lo = 0 \/ n.keys # <<>>
  <2>1. Len(n.keys) = Len(n.vals) /\ n.vals \in Seq(Universe)
    BY NodeFields
  <2>2. Len(<<>>) = 0
    OBVIOUS
  <2> QED BY <2>1, <2>2, EmptySeq
<1> DEFINE W == Within(Hash(n), Layer[0])
<1>3. HoldsAt(n, lo, W, 0) /\ P = Put(W, key, val)
  BY DEF HoldsAt
<1> HIDE DEF W
<1>4. HoldsAt(SortLast(m), lo, P, 0)
  BY <1>2, <1>3, LeafPut
<1>5. P # {}
  BY PutKeys
<1>6. Returns(r, Balance(m, st, parent), parent, lost)
  OBVIOUS
<1> HIDE DEF m
<1>7. 0 \in Nat /\ (parent # <<>> => ~m.split)
  BY <1>1
<1> QED BY <1>1, <1>4, <1>5, <1>6, <1>7, ReturnsRow

(***************************************************************************)
(* insert above the leaves, from the answer for the child. The join is not *)
(* astray: it took the next sibling of this child, which is the only place *)
(* where insert depends on the positions that Node::balance computes.      *)
(***************************************************************************)
LEMMA ChildRow ==
    ASSUME NEW n \in Node, NEW st \in Stores, NEW e \in Nat, NEW lo \in Nat, Row(Hash(n), lo, Layer[e + 1]),
           NEW key \in Keys, NEW val, NEW i, Toward(Hash(n), lo, key, i),
           NEW parent, parent # <<>> => ~n.split,
           NEW child \in Answers(st), ~Astray(n, i, child), Grown(child, n.vals[i], key, val, e),
           NEW s, s = InsertNode(child.st, child.node),
           NEW lost, NEW r, Returns(r, Balance(ReplaceChild(n, i, child.node), s, parent), parent, lost),
           NEW P, P = Put(Within(Hash(n), Layer[e + 1]), key, val),
           NEW Q, Takes(r.joined, P, e + 1, Q)
    PROVE  Ends(r, lo, P \cup Q, e + 1, parent)
<1> DEFINE h == Hash(n)
           M == Layer[e + 1]
           c == child.node
           m == ReplaceChild(n, i, c)
           A == PartAt(h, i, M)
           q == IF Dropped(n, i, c) = {} THEN {} ELSE PartAt(h, i + 1, M)
           low == LowAt(h, lo, i)
           v == h[2][i]
           W == Within(h, M)
           y == SortLast(m)
<1>1. /\ h \in Digests /\ h[1] = n.keys /\ h[2] = n.vals /\ Row(h, lo, M) /\ Toward(h, lo, key, i)
      /\ h = Hash(n) /\ M = Layer[e + 1] /\ A = PartAt(h, i, M) /\ low = LowAt(h, lo, i)
      /\ v = h[2][i] /\ v = n.vals[i] /\ W = Within(h, M) /\ P = Put(W, key, val)
      /\ q = IF Dropped(n, i, c) = {} THEN {} ELSE PartAt(h, i + 1, M)
  BY NodeFields
<1>2. /\ c \in Node /\ s \in Stores /\ ~child.strayed /\ child.joined = Dropped(n, i, c) /\ c = child.node
  <2>1. child.node \in Node /\ child.st \in Stores
    BY AnswerFields
  <2> QED BY <2>1, InsertNodeType DEF Astray
<1>3. m = ReplaceChild(n, i, c) /\ Returns(r, Balance(m, s, parent), parent, lost) /\ y = SortLast(m)
  OBVIOUS
<1> HIDE DEF h, M, c, m, A, q, low, v, W, y
<1>4. i \in 1..Len(h[1]) /\ M \in Layers /\ e + 1 \in Nat
  <2>1. e + 1 \in Nat
    OBVIOUS
  <2> QED BY <1>1, <2>1, LayerIs DEF Toward
<1>5. v[2] # <<>> /\ Row(v, low, Layer[e]) /\ A = Within(v, Layer[e])
  BY <1>1, <1>4, ChildDigest
<1>6. low \in Nat /\ low <= key
  BY <1>1, <1>4, OnlyThere
<1>7. Takes(child.joined, Put(Within(v, Layer[e]), key, val), e, q)
  <2>1. Row(Hash(n), lo, Layer[e + 1]) /\ Toward(Hash(n), lo, key, i)
    BY <1>1
  <2>2. q = IF Dropped(n, i, c) = {} THEN {} ELSE PartAt(Hash(n), i + 1, Layer[e + 1])
    BY <1>1
  <2>3. Takes(Dropped(n, i, c), Put(PartAt(Hash(n), i, Layer[e + 1]), key, val), e, q)
    BY <2>1, <2>2, TakenIs
  <2> QED BY <1>1, <1>2, <1>5, <2>3
<1>8. ResultRow(c, low, Put(Within(v, Layer[e]), key, val) \cup q, e)
  BY <1>1, <1>2, <1>5, <1>6, <1>7 DEF Grown
<1>9. m \in Node /\ HoldsAt(m, lo, P, e + 1)
  <2>1. Row(Hash(n), lo, M) /\ Toward(Hash(n), lo, key, i)
    BY <1>1
  <2>2. \/ Dropped(n, i, c) = {} /\ q = {}
        \/ Dropped(n, i, c) # {} /\ q = PartAt(Hash(n), i + 1, M)
    BY <1>1
  <2>3. ResultRow(c, LowAt(Hash(n), lo, i), Put(PartAt(Hash(n), i, M), key, val) \cup q, e)
    BY <1>1, <1>5, <1>8
  <2>4. m \in Node /\ HoldsAt(m, lo, Put(Within(Hash(n), M), key, val), e + 1)
    BY <1>1, <1>2, <1>3, <2>1, <2>2, <2>3, ReplaceRow
  <2> QED BY <1>1, <2>4
<1>10. HoldsAt(y, lo, P, e + 1)
  <2>1. Hash(m) \in Digests /\ Hash(m)[1] = m.keys
    BY <1>9, NodeFields
  <2>2. Row(Hash(m), lo, M)
    BY <1>1, <1>9 DEF HoldsAt
  <2>3. Rising(m.keys)
    BY <1>4, <2>1, <2>2, RowItems DEF Rising
  <2>4. Hash(y) = Hash(m)
    BY <1>3, <1>9, <2>3, SortLastRising
  <2> QED BY <1>9, <2>4 DEF HoldsAt
<1>11. m.split = n.split
  <2>1. i \in 1..Len(n.keys)
    BY <1>1, <1>4
  <2>2. SameKind(m, n)
    BY <1>2, <1>3, <2>1, ReplaceChildType
  <2> QED BY <2>2 DEF SameKind
<1>12. P # {}
  BY <1>1, PutKeys
<1>13. HoldsAt(SortLast(m), lo, P, e + 1) /\ (parent # <<>> => ~m.split)
  BY <1>3, <1>10, <1>11
<1> DEFINE d == e + 1
<1>14. /\ m \in Node /\ s \in Stores /\ d \in Nat /\ P # {}
       /\ HoldsAt(SortLast(m), lo, P, d) /\ (parent # <<>> => ~m.split)
       /\ Returns(r, Balance(m, s, parent), parent, lost) /\ Takes(r.joined, P, d, Q)
  BY <1>2, <1>3, <1>4, <1>9, <1>12, <1>13
<1> HIDE DEF d
<1>15. Ends(r, lo, P \cup Q, d, parent)
  BY ONLY <1>14, lo \in Nat, ReturnsRow
<1> QED BY <1>15 DEF d

-----------------------------------------------------------------------------
(* Order: one call of insert, by the level of its node                     *)

(***************************************************************************)
(* insert may enter a node: its key is not below the bound, and the node   *)
(* is not empty unless it is an empty leaf at the root.                    *)
(***************************************************************************)
Enters(n, lo, key) == lo <= key /\ (n.vals # <<>> \/ (n.leaf /\ lo = 0))

(***************************************************************************)
(* The answer for the child is such as the last lemmas want it.            *)
(***************************************************************************)
ChildGrown(n, i, e, st, child, key, val) ==
    /\ child \in Answers(st)
    /\ \A f \in Nat : e = f + 1 => Grown(child, n.vals[i], key, val, f)

(***************************************************************************)
(* insert at one node of any level, from the answer for its child.         *)
(***************************************************************************)
LEMMA InsertViaRow ==
    ASSUME NEW st \in Stores, NEW n \in Node, NEW e \in Nat, Fits(n, e, st),
           NEW lo \in Nat, Row(Hash(n), lo, Layer[e]), NEW key \in Keys, NEW val \in Values, Enters(n, lo, key),
           NEW parent, parent # <<>> => ~n.split,
           NEW i, i = ChildIndex(n, key), NEW below, NEW child, child = below[<<n.vals[i], Hash(n)>>],
           Leads(n, i, st) => ChildGrown(n, i, e, st, child, key, val),
           NEW r, r = InsertVia(n, key, val, st, parent, below), ~r.strayed,
           NEW P, P = Put(Within(Hash(n), Layer[e]), key, val),
           NEW Q, Takes(r.joined, P, e, Q)
    PROVE  Ends(r, lo, P \cup Q, e, parent)
<1>1. \/ n.leaf /\ Returns(r, Balance(PutInLeaf(n, key, val), st, parent), parent, FALSE)
      \/ ~n.leaf /\ ~Leads(n, i, st) /\ Returns(r, Balance(n, st, parent), parent, FALSE)
      \/ /\ Leads(n, i, st)
         /\ Returns(r, Balance(ReplaceChild(n, i, child.node), InsertNode(child.st, child.node), parent),
                    parent, Astray(n, i, child))
  BY InsertCases
<1>2. CASE n.leaf /\ Returns(r, Balance(PutInLeaf(n, key, val), st, parent), parent, FALSE)
  <2>1. e = 0
    BY <1>2 DEF Fits
  <2>2. Row(Hash(n), lo, Layer[0]) /\ P = Put(Within(Hash(n), Layer[0]), key, val) /\ Takes(r.joined, P, 0, Q)
    BY <2>1
  <2>3. lo <= key /\ (lo = 0 \/ n.vals # <<>>)
    BY DEF Enters
  <2>4. Ends(r, lo, P \cup Q, 0, parent)
    BY <1>2, <2>2, <2>3, LeafRow
  <2> QED BY <2>1, <2>4
<1>3. CASE ~n.leaf /\ ~Leads(n, i, st)
  <2>1. n.vals # <<>>
    BY <1>3 DEF Enters
  <2>2. e # 0
    BY <1>3, <2>1 DEF Fits
  <2>3. i \in 1..Len(n.vals)
    BY <2>1, ChildIndexType
  <2>4. n.vals[i] \in DOMAIN st
    BY <2>2, <2>3 DEF Fits, Holds, Below
  <2> QED BY <1>3, <2>1, <2>4 DEF Leads
<1>4. CASE /\ Leads(n, i, st)
           /\ Returns(r, Balance(ReplaceChild(n, i, child.node), InsertNode(child.st, child.node), parent),
                      parent, Astray(n, i, child))
  <2>1. PICK f \in Nat : e = f + 1
    BY <1>4, LeadsAbove
  <2>2. child \in Answers(st) /\ Grown(child, n.vals[i], key, val, f)
    BY <1>4, <2>1 DEF ChildGrown
  <2>3. ~Astray(n, i, child)
    <3> DEFINE lost == Astray(n, i, child)
               b == Balance(ReplaceChild(n, i, child.node), InsertNode(child.st, child.node), parent)
    <3>1. Returns(r, b, parent, lost)
      BY <1>4
    <3> HIDE DEF lost, b
    <3>2. r.strayed = lost
      BY <3>1 DEF Returns
    <3>3. ~lost
      BY <3>2
    <3> QED BY <3>3 DEF lost
  <2>4. n.vals # <<>> /\ Hash(n)[1] = n.keys /\ Len(n.keys) \in Nat
    BY <1>4, NodeFields DEF Leads
  <2>5. Toward(Hash(n), lo, key, i)
    <3>1. /\ i \in 1..Len(n.keys) /\ (i = 1 \/ n.keys[i] <= key)
          /\ \A j \in 1..Len(n.keys) : j > i => n.keys[j] > key
      BY <2>4, ChildIndexType
    <3>2. \A j \in (i + 1)..Len(n.keys) : n.keys[j] > key /\ n.keys[j] \in Nat /\ key \in Nat
      <4> SUFFICES ASSUME NEW j \in (i + 1)..Len(n.keys) PROVE n.keys[j] > key /\ n.keys[j] \in Nat /\ key \in Nat
        OBVIOUS
      <4>1. j \in 1..Len(n.keys) /\ j > i
        BY <2>4, <3>1
      <4>2. n.keys[j] \in Keys
        BY <4>1, NodeFields
      <4> QED BY <3>1, <4>1, <4>2, TreeAssumption
    <3>3. \A j \in (i + 1)..Len(n.keys) : key < n.keys[j]
      BY <3>2
    <3>4. lo <= key
      BY DEF Enters
    <3> QED BY <2>4, <3>1, <3>3, <3>4 DEF Toward
  <2>6. Row(Hash(n), lo, Layer[f + 1]) /\ P = Put(Within(Hash(n), Layer[f + 1]), key, val)
        /\ Takes(r.joined, P, f + 1, Q)
    BY <2>1
  <2> DEFINE s == InsertNode(child.st, child.node)
             lost == Astray(n, i, child)
  <2>7. s = InsertNode(child.st, child.node)
        /\ Returns(r, Balance(ReplaceChild(n, i, child.node), s, parent), parent, lost)
    BY <1>4
  <2> HIDE DEF s, lost
  <2>8. Ends(r, lo, P \cup Q, f + 1, parent)
    BY <2>2, <2>3, <2>5, <2>6, <2>7, ChildRow
  <2> QED BY <2>1, <2>8
<1> QED BY <1>1, <1>2, <1>3, <1>4

(***************************************************************************)
(* A row of a layer has the level of that layer.                           *)
(***************************************************************************)
LEMMA RowLevel ==
    \A e \in Nat, h \in Digests, lo \in Nat :
      Row(h, lo, Layer[e]) /\ (e = 0 \/ h[2] # <<>>) => h \in Level[e]
<1> DEFINE S == {e \in Nat : \A h \in Digests, lo \in Nat :
                   Row(h, lo, Layer[e]) /\ (e = 0 \/ h[2] # <<>>) => h \in Level[e]}
<1>1. ASSUME NEW e \in Nat, 0..(e - 1) \subseteq S PROVE e \in S
  <2> SUFFICES ASSUME NEW h \in Digests, NEW lo \in Nat, Row(h, lo, Layer[e]), e = 0 \/ h[2] # <<>>
               PROVE  h \in Level[e]
    OBVIOUS
  <2>1. h[1] \in Seq(Keys) /\ h[2] \in Seq(Universe) /\ h = <<h[1], h[2]>> /\ Len(h[1]) \in Nat
    BY DigestIs
  <2>2. CASE e = 0
    <3>1. Len(h[1]) = Len(h[2]) /\ \A i \in 1..Len(h[1]) : h[2][i] \in Values
      BY <2>2, GroundRow
    <3>2. h[2] \in Seq(Values)
      BY <2>1, <3>1, ElementOfSeq, SeqDef
    <3> QED BY <2>1, <2>2, <3>2, LevelIs DEF Ground
  <2>3. CASE e # 0
    <3>1. PICK f \in Nat : e = f + 1
      BY <2>3
    <3>2. f \in S
      BY <1>1, <3>1
    <3>3. Len(h[1]) = Len(h[2]) /\ Row(h, lo, Layer[f + 1])
      BY <3>1 DEF Row
    <3>4. \A i \in 1..Len(h[2]) : h[2][i] \in Level[f]
      <4> SUFFICES ASSUME NEW i \in 1..Len(h[1]) PROVE h[2][i] \in Level[f]
        BY <3>3
      <4>1. Paired(h[2][i]) /\ h[2][i][2] # <<>> /\ Row(h[2][i], LowAt(h, lo, i), Layer[f])
        BY <3>3, ChildDigest
      <4>2. LowAt(h, lo, i) \in Nat
        <5>1. h[1][i] \in Nat
          BY DigestIs
        <5> QED BY <5>1 DEF LowAt
      <4>3. h[2][i] \in Digests
        BY <4>1 DEF Paired
      <4> QED BY <3>2, <4>1, <4>2, <4>3
    <3>5. h[2] \in Seq(Level[f])
      <4>1. h[2] \in [1..Len(h[2]) -> Universe] /\ Len(h[2]) \in Nat
        BY <2>1, LenProperties
      <4> DEFINE s == h[2]
                 T == Level[f]
      <4>2. s \in [1..Len(s) -> T] /\ Len(s) \in Nat
        BY <3>4, <4>1
      <4> HIDE DEF s, T
      <4>3. s \in Seq(T)
        BY <4>2, SeqDef
      <4> QED BY <4>3 DEF s, T
    <3>6. h \in Above(Level[f])
      BY <2>1, <2>3, <3>5 DEF Above
    <3> QED BY <3>1, <3>6, LevelIs
  <2> QED BY <2>2, <2>3
<1> HIDE DEF S
<1>2. Nat \subseteq S
  BY <1>1, CourseOfValues
<1> QED BY <1>2 DEF S

-----------------------------------------------------------------------------
(* Order: the recursion of insert                                          *)

(***************************************************************************)
(* The answers for one child that put the pair, for levels below d.        *)
(***************************************************************************)
GrownAnswers(st, key, val, d, c) ==
    {a \in Answers(st) : \A e \in 0..(d - 1) : c[1] \in Level[e] => Grown(a, c[1], key, val, e)}

(***************************************************************************)
(* The family of them that the induction over the calls is about.          *)
(***************************************************************************)
GrownFor(C, N, st, key, val) == [d \in 0..N |-> [c \in C |-> GrownAnswers(st, key, val, d, c)]]

(***************************************************************************)
(* Its members.                                                            *)
(***************************************************************************)
LEMMA GrownForIs ==
    ASSUME NEW st, NEW C, NEW N \in Nat, NEW key, NEW val
    PROVE  \A d \in 0..N : \A c \in C : GrownFor(C, N, st, key, val)[d][c] = GrownAnswers(st, key, val, d, c)
BY DEF GrownFor

(***************************************************************************)
(* A member of the family serves the parent.                               *)
(***************************************************************************)
LEMMA ChildIsGrown ==
    ASSUME NEW st \in Stores, NEW n \in Node, NEW e \in Nat, Fits(n, e, st), NEW key \in Keys, NEW val,
           NEW i, i = ChildIndex(n, key), Leads(n, i, st), NEW d \in Nat, e <= d,
           NEW child \in GrownAnswers(st, key, val, d, <<n.vals[i], Hash(n)>>)
    PROVE  ChildGrown(n, i, e, st, child, key, val)
<1> SUFFICES ASSUME NEW f \in Nat, e = f + 1 PROVE child \in Answers(st) /\ Grown(child, n.vals[i], key, val, f)
  <2>1. child \in Answers(st)
    BY DEF GrownAnswers
  <2> QED BY <2>1 DEF ChildGrown
<1>1. f \in 0..(d - 1)
  OBVIOUS
<1>2. i \in 1..Len(n.vals)
  BY ChildIndexType DEF Leads
<1>3. n.vals[i] \in Level[f]
  <2>1. e # 0 /\ e - 1 = f
    OBVIOUS
  <2> QED BY <1>2, <2>1 DEF Fits, Holds, Below
<1> QED BY <1>1, <1>3 DEF GrownAnswers

(***************************************************************************)
(* One step of the recursion of insert stays within the family. Stored     *)
(* nodes come back with split cleared, as ~StickyFlags says: a flag that   *)
(* came back set would have the parent take a node of its level for a      *)
(* list.                                                                   *)
(***************************************************************************)
LEMMA ChildInsertRow ==
    ASSUME ~StickyFlags, NEW st \in Stores, Sound(st), NEW key \in Keys, NEW val \in Values,
           NEW d \in Nat, NEW c, c[1] \in DOMAIN st, NEW below,
           \A h \in DOMAIN st : below[<<h, c[1]>>] \in GrownAnswers(st, key, val, d, <<h, c[1]>>)
    PROVE  InsertVia(GetNode(st, c[1]), key, val, st, <<c[2]>>, below) \in GrownAnswers(st, key, val, d + 1, c)
<1> DEFINE n == GetNode(st, c[1])
           i == ChildIndex(n, key)
           child == below[<<n.vals[i], Hash(n)>>]
           r == InsertVia(n, key, val, st, <<c[2]>>, below)
<1>1. n \in Node /\ Hash(n) = c[1] /\ n.vals = c[1][2]
  BY StoreFields
<1>2. ~n.split
  <2>1. st[c[1]] \in Node
    BY StoreFields
  <2> QED BY <2>1 DEF GetNode, Node
<1>3. ASSUME NEW e \in Nat, c[1] \in Level[e] PROVE Fits(n, e, st)
  BY <1>3, FitsAgain
<1> HIDE DEF n
<1>4. ASSUME Leads(n, i, st) PROVE child \in GrownAnswers(st, key, val, d, <<n.vals[i], Hash(n)>>)
  <2>1. n.vals[i] \in DOMAIN st
    BY <1>4 DEF Leads
  <2> QED BY <1>1, <2>1
<1>5. r \in Answers(st)
  <2>1. ASSUME Leads(n, i, st) PROVE child \in Answers(st)
    BY <1>4, <2>1 DEF GrownAnswers
  <2> QED BY <1>1, <2>1, InsertViaType, UniverseClosed
<1>6. ASSUME NEW e \in 0..d, c[1] \in Level[e] PROVE Grown(r, c[1], key, val, e)
  <2>1. e \in Nat /\ Fits(n, e, st) /\ e <= d
    BY <1>3, <1>6
  <2> HIDE DEF i, child
  <2>2. ASSUME Leads(n, i, st) PROVE ChildGrown(n, i, e, st, child, key, val)
    BY <1>1, <1>4, <2>1, <2>2, ChildIsGrown DEF i
  <2> DEFINE parent == <<c[2]>>
             h == c[1]
  <2>3. parent # <<>> /\ r = InsertVia(n, key, val, st, parent, below) /\ h = Hash(n) /\ h[2] = n.vals
    BY <1>1
  <2> HIDE DEF r, parent, h
  <2> SUFFICES ASSUME NEW lo \in Nat, NEW Q, lo <= key, h[2] # <<>>, Row(h, lo, Layer[e]), ~r.strayed,
                      Takes(r.joined, Put(Within(h, Layer[e]), key, val), e, Q)
               PROVE  ResultRow(r.node, lo, Put(Within(h, Layer[e]), key, val) \cup Q, e)
    BY DEF Grown, h
  <2> DEFINE P == Put(Within(h, Layer[e]), key, val)
  <2>4. P = Put(Within(Hash(n), Layer[e]), key, val) /\ Takes(r.joined, P, e, Q) /\ Row(Hash(n), lo, Layer[e])
        /\ Enters(n, lo, key)
    BY <2>3 DEF Enters
  <2> HIDE DEF P
  <2>5. Ends(r, lo, P \cup Q, e, parent)
    BY <1>1, <1>2, <2>1, <2>2, <2>3, <2>4, InsertViaRow DEF i, child
  <2> QED BY <2>3, <2>5 DEF Ends, P
<1> HIDE DEF r
<1>7. r \in GrownAnswers(st, key, val, d + 1, c)
  <2>1. d + 1 - 1 = d
    OBVIOUS
  <2> QED BY <1>5, <1>6, <2>1 DEF GrownAnswers
<1> QED BY <1>7 DEF r, n

(***************************************************************************)
(* A balance without a parent takes nothing in.                            *)
(***************************************************************************)
LEMMA RootJoins ==
    ASSUME NEW n \in Node, NEW st \in Stores
    PROVE  Balance(n, st, <<>>).joined = {}
<1>1. SortLast(n) \in Node
  BY SortLastMoves
<1>2. NextSiblingHash(SortLast(n), st, <<>>) = {}
  BY DEF NextSiblingHash
<1> QED BY <1>2 DEF Balance

(***************************************************************************)
(* The root of a tree with the pairs P: a node that fits its level, and    *)
(* the pairs below it are P, in order.                                     *)
(***************************************************************************)
Tree(n, st, P) == \E e \in Nat : Fits(n, e, st) /\ HoldsAt(n, 0, P, e)

-----------------------------------------------------------------------------
(* Order: Node::insert puts one pair and loses none                        *)

(***************************************************************************)
(* Nor does insert at the root.                                            *)
(***************************************************************************)
LEMMA RootInsertJoins ==
    ASSUME NEW st \in Stores, NEW n \in Node, NEW key \in Keys, NEW val \in Universe, NEW below,
           Leads(n, ChildIndex(n, key), st) =>
             below[<<n.vals[ChildIndex(n, key)], Hash(n)>>] \in Answers(st),
           NEW r, r = InsertVia(n, key, val, st, <<>>, below)
    PROVE  r.joined = {}
<1> DEFINE i == ChildIndex(n, key)
           child == below[<<n.vals[i], Hash(n)>>]
           lost == Astray(n, i, child)
           m == ReplaceChild(n, i, child.node)
           s == InsertNode(child.st, child.node)
<1>1. \/ Returns(r, Balance(PutInLeaf(n, key, val), st, <<>>), <<>>, FALSE)
      \/ Returns(r, Balance(n, st, <<>>), <<>>, FALSE)
      \/ Leads(n, i, st) /\ Returns(r, Balance(m, s, <<>>), <<>>, lost)
  BY InsertCases
<1>2. PutInLeaf(n, key, val) \in Node
  BY PutInLeafType
<1>3. ASSUME Leads(n, i, st) PROVE m \in Node /\ s \in Stores
  <2>1. child.node \in Node /\ child.st \in Stores
    BY <1>3, AnswerFields
  <2>2. i \in 1..Len(n.keys)
    BY <1>3, ChildIndexType DEF Leads
  <2> HIDE DEF i, child
  <2> QED BY <2>1, <2>2, ReplaceChildType, InsertNodeType
<1> HIDE DEF i, child, lost, m, s
<1>4. PICK b : r.joined = b.joined /\ b.joined = {}
  <2>1. ASSUME NEW x \in Node, NEW t \in Stores, NEW l, Returns(r, Balance(x, t, <<>>), <<>>, l)
        PROVE  \E b : r.joined = b.joined /\ b.joined = {}
    <3>1. r.joined = Balance(x, t, <<>>).joined
      BY <2>1 DEF Returns
    <3> QED BY <3>1, RootJoins
  <2>2. CASE Returns(r, Balance(PutInLeaf(n, key, val), st, <<>>), <<>>, FALSE)
    BY <1>2, <2>1, <2>2
  <2>3. CASE Returns(r, Balance(n, st, <<>>), <<>>, FALSE)
    BY <2>1, <2>3
  <2>4. CASE Leads(n, i, st) /\ Returns(r, Balance(m, s, <<>>), <<>>, lost)
    BY <1>3, <2>1, <2>4
  <2> QED BY <1>1, <2>2, <2>3, <2>4
<1> QED BY <1>4

(***************************************************************************)
(* Node::insert on a tree with the pairs P makes a tree with the pair put, *)
(* unless a join strays.                                                   *)
(***************************************************************************)
LEMMA NodeInsertRow ==
    ASSUME ~StickyFlags, NEW st \in Stores, Sound(st), NEW n \in Node, NEW key \in Keys, NEW val \in Values,
           n.vals # <<>> \/ n.leaf, NEW P, Tree(n, st, P),
           NEW r, r = NodeInsert(n, key, val, st), ~r.strayed
    PROVE  Tree(r.node, r.st, Put(P, key, val))
<1>0. PICK e \in Nat : Fits(n, e, st) /\ HoldsAt(n, 0, P, e)
  BY DEF Tree
<1> DEFINE C == Calls(n, st)
           N == Cardinality(DOMAIN st)
           G == GrownFor(C, N, st, key, val)
<1>1. /\ N \in Nat /\ 0 \in 0..N /\ N \in 0..N
      /\ \A d \in 1..N : d \in 0..N /\ d - 1 \in 0..N /\ d - 1 \in Nat /\ d - 1 + 1 = d
  BY StoreFields
<1>2. C = Calls(n, st) /\ N = Cardinality(DOMAIN st)
  OBVIOUS
<1>3. \A c \in C : c[1] \in DOMAIN st /\ c = <<c[1], c[2]>>
        /\ \A h \in DOMAIN st : <<h, c[1]>> \in C
  BY DEF Calls
<1>4. \A h \in DOMAIN st : <<h, Hash(n)>> \in C
  BY DEF Calls
<1> HIDE DEF C, N
<1>5. \A d \in 0..N : \A c \in C : G[d][c] = GrownAnswers(st, key, val, d, c)
  BY <1>1, GrownForIs
<1> HIDE DEF G
<1>6. ASSUME NEW c \in C PROVE Answer(GetNode(st, c[1]), st) \in G[0][c]
  <2>1. GetNode(st, c[1]) \in Node
    BY <1>3, StoreFields
  <2>2. Answer(GetNode(st, c[1]), st) \in Answers(st)
    BY <2>1, UnchangedType
  <2>3. 0..(0 - 1) = {}
    OBVIOUS
  <2>4. Answer(GetNode(st, c[1]), st) \in GrownAnswers(st, key, val, 0, c)
    BY <2>2, <2>3 DEF GrownAnswers
  <2> QED BY <1>1, <1>5, <2>4
<1>7. ASSUME NEW d \in 1..N, NEW below, Answered(below, C, G[d - 1]), NEW c \in C
      PROVE  InsertVia(GetNode(st, c[1]), key, val, st, <<c[2]>>, below) \in G[d][c]
  <2> DEFINE b == d - 1
  <2>1. b \in Nat /\ b \in 0..N /\ b + 1 = d /\ Answered(below, C, G[b])
    BY <1>1, <1>7
  <2> HIDE DEF b
  <2>2. ASSUME NEW h \in DOMAIN st PROVE below[<<h, c[1]>>] \in GrownAnswers(st, key, val, b, <<h, c[1]>>)
    BY <1>3, <1>5, <2>1 DEF Answered
  <2>3. InsertVia(GetNode(st, c[1]), key, val, st, <<c[2]>>, below) \in GrownAnswers(st, key, val, b + 1, c)
    BY <1>3, <2>1, <2>2, ChildInsertRow
  <2> QED BY <1>1, <1>5, <2>1, <2>3
<1>8. InsertSteps(st, key, val, C, N, G)
  BY <1>6, <1>7 DEF InsertSteps
<1>9. PICK below : /\ Answered(below, C, G[N])
                   /\ r = InsertVia(n, key, val, st, <<>>, below)
  BY <1>2, <1>8, InsertInduction
<1> DEFINE i == ChildIndex(n, key)
           child == below[<<n.vals[i], Hash(n)>>]
           parent == <<>>
<1>10. ASSUME Leads(n, i, st) PROVE child \in GrownAnswers(st, key, val, N, <<n.vals[i], Hash(n)>>)
  <2>1. n.vals[i] \in DOMAIN st
    BY <1>10 DEF Leads
  <2>2. <<n.vals[i], Hash(n)>> \in C
    BY <1>4, <2>1
  <2> QED BY <1>1, <1>5, <1>9, <2>2 DEF Answered
<1>11. r.joined = {}
  <2>1. ASSUME Leads(n, i, st) PROVE child \in Answers(st)
    BY <1>10, <2>1 DEF GrownAnswers
  <2>2. val \in Universe
    BY UniverseClosed
  <2> QED BY <1>9, <2>1, <2>2, RootInsertJoins
<1>12. ASSUME Leads(n, i, st) PROVE e <= N
  <2>1. PICK f \in Nat : e = f + 1
    BY <1>0, <1>12, LeadsAbove
  <2>2. i \in 1..Len(n.vals)
    BY <1>12, ChildIndexType DEF Leads
  <2>3. e # 0 /\ e - 1 = f
    BY <2>1
  <2>4. n.vals[i] \in Level[f] /\ n.vals[i] \in DOMAIN st
    BY <1>0, <2>2, <2>3 DEF Fits, Holds, Below
  <2>5. f < N
    BY <1>2, <2>4, LevelsStored
  <2> QED BY <1>1, <2>1, <2>5
<1> HIDE DEF i, child
<1>13. ASSUME Leads(n, i, st) PROVE ChildGrown(n, i, e, st, child, key, val)
  BY <1>0, <1>1, <1>10, <1>12, <1>13, ChildIsGrown DEF i
<1>14. parent # <<>> => ~n.split
  OBVIOUS
<1>15. Enters(n, 0, key) /\ Row(Hash(n), 0, Layer[e]) /\ P = Within(Hash(n), Layer[e])
  <2>1. 0 <= key
    BY TreeAssumption
  <2> QED BY <1>0, <2>1 DEF Enters, HoldsAt
<1> DEFINE K == Put(P, key, val)
           none == {}
<1>16. /\ K = Put(Within(Hash(n), Layer[e]), key, val) /\ Takes(r.joined, K, e, none)
       /\ r = InsertVia(n, key, val, st, parent, below) /\ K \cup none = K /\ K # {}
  BY <1>9, <1>11, <1>15, PutKeys DEF Takes
<1> HIDE DEF parent, K, none
<1>17. Ends(r, 0, K \cup none, e, parent)
  BY <1>0, <1>13, <1>14, <1>15, <1>16, InsertViaRow DEF i, child
<1>18. r.node \in Node /\ Settled(r.node, 0, K)
  BY <1>16, <1>17 DEF Ends
<1>19. PICK f \in Nat : HoldsAt(r.node, 0, K, f)
  BY <1>18 DEF Settled
<1>20. PICK g \in Nat : Fits(r.node, g, r.st)
  BY <1>0, NodeInsertFits
<1>21. f = g
  <2>1. Hash(r.node) \in Level[g]
    BY <1>18, <1>20, FitsLevel
  <2>2. Row(Hash(r.node), 0, Layer[f]) /\ Within(Hash(r.node), Layer[f]) # {}
    BY <1>16, <1>19 DEF HoldsAt
  <2>3. Hash(r.node)[1] # <<>> /\ Hash(r.node) \in Digests
    BY <1>18, <2>2, SomePair, NodeFields
  <2>4. Hash(r.node)[2] # <<>>
    <3>1. Len(r.node.keys) = Len(r.node.vals) /\ r.node.keys \in Seq(Keys) /\ Hash(r.node)[1] = r.node.keys
          /\ Hash(r.node)[2] = r.node.vals
      BY <1>18, NodeFields
    <3>2. Len(r.node.keys) # 0
      BY <2>3, <3>1, EmptySeq
    <3>3. Len(<<>>) = 0
      OBVIOUS
    <3> QED BY <3>1, <3>2, <3>3
  <2>5. Hash(r.node) \in Level[f]
    BY <2>2, <2>3, <2>4, RowLevel
  <2> QED BY <2>1, <2>5, LevelOnce
<1> QED BY <1>19, <1>20, <1>21 DEF Tree, K

-----------------------------------------------------------------------------
(* Order: a descent ends in the leaf that would have the key               *)

(***************************************************************************)
(* ChildIndex finds the item on the way of a key.                          *)
(***************************************************************************)
LEMMA Heads ==
    ASSUME NEW n \in Node, NEW key \in Keys, n.vals # <<>>, NEW lo, lo <= key,
           NEW i, i = ChildIndex(n, key)
    PROVE  Toward(Hash(n), lo, key, i)
<1>1. Hash(n)[1] = n.keys /\ Len(n.keys) \in Nat
  BY NodeFields
<1>2. /\ i \in 1..Len(n.keys) /\ (i = 1 \/ n.keys[i] <= key)
      /\ \A j \in 1..Len(n.keys) : j > i => n.keys[j] > key
  BY ChildIndexType
<1>3. \A j \in (i + 1)..Len(n.keys) : n.keys[j] > key /\ n.keys[j] \in Nat /\ key \in Nat
  <2> SUFFICES ASSUME NEW j \in (i + 1)..Len(n.keys) PROVE n.keys[j] > key /\ n.keys[j] \in Nat /\ key \in Nat
    OBVIOUS
  <2>1. j \in 1..Len(n.keys) /\ j > i
    BY <1>1, <1>2
  <2>2. n.keys[j] \in Keys
    BY <2>1, NodeFields
  <2> QED BY <1>2, <2>1, <2>2, TreeAssumption
<1>4. \A j \in (i + 1)..Len(n.keys) : key < n.keys[j]
  BY <1>3
<1> QED BY <1>1, <1>2, <1>4 DEF Toward

(***************************************************************************)
(* A descent that ends in a leaf, or nowhere, with what W has for the key. *)
(***************************************************************************)
EndsAt(p, key, W) ==
    /\ p \in Seq(Node) /\ p # <<>>
    /\ Last(p).leaf \/ Last(p).vals = <<>>
    /\ Rising(Last(p).keys)
    /\ \A x : <<key, x>> \in W
                <=> \E j \in 1..Len(Last(p).keys) : Last(p).keys[j] = key /\ Last(p).vals[j] = x

(***************************************************************************)
(* A descent with its first node.                                          *)
(***************************************************************************)
LEMMA OnTop ==
    ASSUME NEW S, NEW a \in S, NEW p \in Seq(S), p # <<>>
    PROVE  <<a>> \o p \in Seq(S) /\ <<a>> \o p # <<>> /\ Last(<<a>> \o p) = Last(p)
<1>1. <<a>> \in Seq(S) /\ Len(<<a>>) = 1
  OBVIOUS
<1> DEFINE s == <<a>>
           r == s \o p
<1>2. Joins(r, s, p, S)
  BY <1>1, Joined
<1>3. s = <<a>> /\ Len(s) = 1 /\ r = s \o p
  BY <1>1
<1> HIDE DEF s, r
<1>4. Len(p) \in Nat /\ Len(p) # 0
  BY EmptySeq, LenProperties
<1>5. Len(r) = 1 + Len(p) /\ r \in Seq(S) /\ \A i \in 1..Len(p) : r[1 + i] = p[i]
  BY <1>2, <1>3 DEF Joins
<1>6. r[Len(r)] = p[Len(p)]
  BY <1>4, <1>5
<1>7. r # <<>>
  <2>1. Len(r) # 0
    BY <1>4, <1>5
  <2>2. Len(<<>>) = 0
    OBVIOUS
  <2> QED BY <2>1, <2>2
<1>8. Last(r) = Last(p)
  BY <1>6 DEF Last
<1> QED BY <1>3, <1>5, <1>7, <1>8

(***************************************************************************)
(* A descent that starts at a leaf.                                        *)
(***************************************************************************)
LEMMA LeafEnds ==
    ASSUME NEW n \in Node, NEW st, Fits(n, 0, st), NEW lo \in Nat, Row(Hash(n), lo, Layer[0]), NEW key
    PROVE  EndsAt(<<n>>, key, Within(Hash(n), Layer[0]))
<1> DEFINE h == Hash(n)
           W == Within(h, Layer[0])
           p == <<n>>
<1>1. /\ h \in Digests /\ h[1] = n.keys /\ h[2] = n.vals /\ Row(h, lo, Layer[0]) /\ W = Within(h, Layer[0])
  BY NodeFields
<1>2. p \in Seq(Node) /\ p # <<>> /\ Last(p) = n
  BY DEF Last
<1> HIDE DEF h, W, p
<1>3. Rising(h[1]) /\ \A q : q \in W <=> \E i \in 1..Len(h[1]) : q = <<h[1][i], h[2][i]>>
  BY <1>1, GroundRow
<1>4. ASSUME NEW x
      PROVE  <<key, x>> \in W <=> \E j \in 1..Len(n.keys) : n.keys[j] = key /\ n.vals[j] = x
  BY <1>1, <1>3
<1>5. n.leaf \/ n.vals = <<>>
  BY DEF Fits
<1>6. EndsAt(p, key, W)
  BY <1>1, <1>2, <1>3, <1>4, <1>5 DEF EndsAt
<1> QED BY <1>6 DEF W, h, p

(***************************************************************************)
(* A descent that starts above the leaves, from the rest of it.            *)
(***************************************************************************)
LEMMA DescendEnds ==
    ASSUME NEW st \in Stores, NEW n \in Node, NEW e \in Nat, Fits(n, e, st), NEW lo \in Nat,
           Row(Hash(n), lo, Layer[e]), NEW key \in Keys, lo <= key, NEW i, i = ChildIndex(n, key), NEW below,
           \A f \in Nat, low \in Nat :
             /\ e = f + 1 /\ low <= key /\ n.vals[i] \in DOMAIN st /\ n.vals[i] \in Level[f]
             /\ Row(n.vals[i], low, Layer[f])
             => EndsAt(below[n.vals[i]], key, Within(n.vals[i], Layer[f]))
    PROVE  EndsAt(DescendFrom(n, key, st, below), key, Within(Hash(n), Layer[e]))
<1>1. CASE e = 0
  <2>1. ~Leads(n, i, st)
    BY <1>1 DEF Fits, Leads
  <2>2. DescendFrom(n, key, st, below) = <<n>>
    BY <2>1 DEF DescendFrom
  <2>3. Fits(n, 0, st) /\ Row(Hash(n), lo, Layer[0])
    BY <1>1
  <2>4. EndsAt(<<n>>, key, Within(Hash(n), Layer[0]))
    BY <2>3, LeafEnds
  <2> QED BY <1>1, <2>2, <2>4
<1>2. CASE e # 0
  <2>1. PICK f \in Nat : e = f + 1
    BY <1>2
  <2>2. ~n.leaf /\ n.vals # <<>> /\ e - 1 = f
    BY <1>2, <2>1 DEF Fits
  <2>3. Toward(Hash(n), lo, key, i)
    BY <2>2, Heads
  <2>4. i \in 1..Len(n.vals)
    BY <2>2, ChildIndexType
  <2> DEFINE v == n.vals[i]
             h == Hash(n)
             M == Layer[f + 1]
             low == LowAt(h, lo, i)
  <2>5. v \in Level[f] /\ v \in DOMAIN st
    BY <1>2, <2>2, <2>4 DEF Fits, Holds, Below
  <2>6. Leads(n, i, st)
    BY <2>2, <2>5 DEF Leads
  <2>7. /\ h \in Digests /\ v = h[2][i] /\ Row(h, lo, M) /\ M = Layer[f + 1] /\ Toward(h, lo, key, i)
        /\ v = n.vals[i] /\ h = Hash(n) /\ low = LowAt(h, lo, i)
    BY <2>1, <2>3, NodeFields
  <2>8. M \in Layers
    <3>1. f + 1 \in Nat
      OBVIOUS
    <3> QED BY <3>1, LayerIs
  <2> HIDE DEF v, h, M, low
  <2>9. i \in 1..Len(h[1])
    BY <2>7 DEF Toward
  <2>10. Row(v, low, Layer[f]) /\ PartAt(h, i, M) = Within(v, Layer[f])
    BY <2>7, <2>9, ChildDigest
  <2>11. low \in Nat /\ low <= key /\ \A j \in 1..Len(h[1]) : j # i => key \notin KeysOf(PartAt(h, j, M))
    BY <2>7, <2>8, OnlyThere
  <2>12. EndsAt(below[v], key, Within(v, Layer[f]))
    BY <2>1, <2>5, <2>7, <2>10, <2>11
  <2>13. \A x : <<key, x>> \in Within(h, M) <=> <<key, x>> \in Within(v, Layer[f])
    <3> SUFFICES ASSUME NEW x PROVE <<key, x>> \in Within(h, M) <=> <<key, x>> \in PartAt(h, i, M)
      BY <2>10
    <3>1. <<key, x>> \in Within(h, M) <=> \E j \in 1..Len(h[1]) : <<key, x>> \in PartAt(h, j, M)
      BY WithinHas
    <3>2. ASSUME NEW j \in 1..Len(h[1]), <<key, x>> \in PartAt(h, j, M) PROVE j = i
      <4>1. <<key, x>>[1] = key
        OBVIOUS
      <4>2. key \in KeysOf(PartAt(h, j, M))
        BY <3>2, <4>1, KeysIn
      <4> QED BY <2>11, <4>2
    <3> QED BY <2>9, <3>1, <3>2
  <2> DEFINE p == below[v]
             r == <<n>> \o p
  <2>14. EndsAt(p, key, Within(v, Layer[f])) /\ DescendFrom(n, key, st, below) = r
    BY <2>6, <2>7, <2>12 DEF DescendFrom
  <2>15. p \in Seq(Node) /\ p # <<>>
    BY <2>14 DEF EndsAt
  <2>16. r = <<n>> \o p
    OBVIOUS
  <2> HIDE DEF p, r
  <2>17. r \in Seq(Node) /\ r # <<>> /\ Last(r) = Last(p)
    BY <2>15, <2>16, OnTop
  <2>18. EndsAt(r, key, Within(h, M))
    BY <2>13, <2>14, <2>17 DEF EndsAt
  <2> QED BY <2>1, <2>7, <2>14, <2>18
<1> QED BY <1>1, <1>2

-----------------------------------------------------------------------------
(* Order: the recursion of a descent                                       *)

(***************************************************************************)
(* The descents from one stored digest that end so, for levels up to d.    *)
(***************************************************************************)
EndingWalks(st, key, d, h) ==
    {p \in Walks(GetNode(st, h), key, st) :
       \A f \in 0..d, low \in Nat : low <= key /\ h \in Level[f] /\ Row(h, low, Layer[f])
         => EndsAt(p, key, Within(h, Layer[f]))}

(***************************************************************************)
(* The family of them for the induction.                                   *)
(***************************************************************************)
EndingFor(C, N, st, key) == [d \in 0..N |-> [c \in C |-> EndingWalks(st, key, d, c)]]

(***************************************************************************)
(* Its members.                                                            *)
(***************************************************************************)
LEMMA EndingForIs ==
    ASSUME NEW st, NEW C, NEW N \in Nat, NEW key
    PROVE  \A d \in 0..N : \A c \in C : EndingFor(C, N, st, key)[d][c] = EndingWalks(st, key, d, c)
BY DEF EndingFor

(***************************************************************************)
(* One step of the recursion stays within the family.                      *)
(***************************************************************************)
LEMMA EndingGrows ==
    ASSUME NEW st \in Stores, Sound(st), NEW key \in Keys, NEW d \in Nat, NEW h \in DOMAIN st, NEW below,
           \A c \in DOMAIN st : below[c] \in EndingWalks(st, key, d, c)
    PROVE  DescendFrom(GetNode(st, h), key, st, below) \in EndingWalks(st, key, d + 1, h)
<1> DEFINE n == GetNode(st, h)
           i == ChildIndex(n, key)
           p == DescendFrom(n, key, st, below)
<1>1. n \in Node /\ Hash(n) = h /\ i = ChildIndex(n, key) /\ n = GetNode(st, h)
  BY StoreFields
<1> HIDE DEF n, i
<1>2. p \in Walks(n, key, st)
  <2>1. \A c \in DOMAIN st : below[c] \in Walks(GetNode(st, c), key, st)
    BY DEF EndingWalks
  <2> QED BY <1>1, <2>1, DescendFromWalks
<1>3. ASSUME NEW e \in 0..(d + 1), NEW lo \in Nat, lo <= key, h \in Level[e], Row(h, lo, Layer[e])
      PROVE  EndsAt(p, key, Within(h, Layer[e]))
  <2>1. e \in Nat /\ Fits(n, e, st) /\ Row(Hash(n), lo, Layer[e])
    BY <1>1, <1>3, FitsAgain
  <2>2. ASSUME NEW f \in Nat, NEW low \in Nat, e = f + 1, low <= key, n.vals[i] \in DOMAIN st,
               n.vals[i] \in Level[f], Row(n.vals[i], low, Layer[f])
        PROVE  EndsAt(below[n.vals[i]], key, Within(n.vals[i], Layer[f]))
    <3>1. f \in 0..d
      BY <1>3, <2>2
    <3>2. below[n.vals[i]] \in EndingWalks(st, key, d, n.vals[i])
      BY <2>2
    <3> QED BY <2>2, <3>1, <3>2 DEF EndingWalks
  <2>3. EndsAt(p, key, Within(Hash(n), Layer[e]))
    BY <1>1, <1>3, <2>1, <2>2, DescendEnds
  <2> QED BY <1>1, <2>3
<1> HIDE DEF p
<1>4. p \in EndingWalks(st, key, d + 1, h)
  BY <1>1, <1>2, <1>3 DEF EndingWalks
<1> QED BY <1>4 DEF p, n

(***************************************************************************)
(* A descent from the root of a tree ends in a leaf that has what the tree *)
(* has for the key.                                                        *)
(***************************************************************************)
LEMMA DescentEnds ==
    ASSUME NEW st \in Stores, Sound(st), NEW n \in Node, NEW P, Tree(n, st, P), NEW key \in Keys
    PROVE  EndsAt(Descent(n, key, st), key, P)
<1>0. PICK e \in Nat : Fits(n, e, st) /\ HoldsAt(n, 0, P, e)
  BY DEF Tree
<1> DEFINE C == DOMAIN st
           N == Cardinality(DOMAIN st)
           G == EndingFor(C, N, st, key)
<1>1. /\ N \in Nat /\ 0 \in 0..N /\ N \in 0..N
      /\ \A d \in 1..N : d \in 0..N /\ d - 1 \in 0..N /\ d - 1 \in Nat /\ d - 1 + 1 = d
  BY StoreFields
<1>2. C = DOMAIN st /\ N = Cardinality(DOMAIN st)
  OBVIOUS
<1> HIDE DEF C, N
<1>3. \A d \in 0..N : \A c \in C : G[d][c] = EndingWalks(st, key, d, c)
  BY <1>1, EndingForIs
<1> HIDE DEF G
<1>4. ASSUME NEW c \in C PROVE <<GetNode(st, c)>> \in G[0][c]
  <2> DEFINE m == GetNode(st, c)
             p == <<m>>
  <2>1. m \in Node /\ Hash(m) = c /\ m = GetNode(st, c)
    BY <1>2, StoreFields
  <2> HIDE DEF m
  <2>2. p \in Walks(m, key, st)
    <3>1. p \in Seq(Node) /\ p # <<>> /\ p[1] = m /\ Len(p) = 1
      BY <2>1
    <3>2. 1..(1 - 1) = {}
      OBVIOUS
    <3> HIDE DEF p
    <3>3. 1..(Len(p) - 1) = {}
      BY <3>1, <3>2
    <3> QED BY <3>1, <3>3 DEF Walks
  <2>3. ASSUME NEW f \in 0..0, NEW low \in Nat, c \in Level[f], Row(c, low, Layer[f])
        PROVE  EndsAt(p, key, Within(c, Layer[f]))
    <3>1. f = 0
      BY <2>3
    <3>2. c \in Level[0] /\ Row(Hash(m), low, Layer[0])
      BY <2>1, <2>3, <3>1
    <3>3. Fits(m, 0, st)
      BY <1>2, <2>1, <3>2, FitsAgain
    <3>4. EndsAt(<<m>>, key, Within(Hash(m), Layer[0]))
      BY <2>1, <3>2, <3>3, LeafEnds
    <3> QED BY <2>1, <3>1, <3>4
  <2> HIDE DEF p
  <2>4. p \in EndingWalks(st, key, 0, c)
    BY <2>1, <2>2, <2>3 DEF EndingWalks
  <2> QED BY <1>1, <1>3, <2>4 DEF p, m
<1>5. ASSUME NEW d \in 1..N, NEW below, Answered(below, C, G[d - 1]), NEW c \in C
      PROVE  DescendFrom(GetNode(st, c), key, st, below) \in G[d][c]
  <2> DEFINE b == d - 1
  <2>1. b \in Nat /\ b \in 0..N /\ b + 1 = d /\ Answered(below, C, G[b])
    BY <1>1, <1>5
  <2> HIDE DEF b
  <2>2. ASSUME NEW h \in DOMAIN st PROVE below[h] \in EndingWalks(st, key, b, h)
    BY <1>2, <1>3, <2>1 DEF Answered
  <2>3. DescendFrom(GetNode(st, c), key, st, below) \in EndingWalks(st, key, b + 1, c)
    BY <1>2, <2>1, <2>2, EndingGrows
  <2> QED BY <1>1, <1>3, <2>1, <2>3
<1>6. DescentSteps(st, key, C, N, G)
  BY <1>4, <1>5 DEF DescentSteps
<1>7. PICK below : /\ Answered(below, C, G[N])
                   /\ Descent(n, key, st) = DescendFrom(n, key, st, below)
  BY <1>2, <1>6, DescentInduction
<1> DEFINE i == ChildIndex(n, key)
<1>8. ASSUME NEW f \in Nat, NEW low \in Nat, e = f + 1, low <= key, n.vals[i] \in DOMAIN st,
             n.vals[i] \in Level[f], Row(n.vals[i], low, Layer[f])
      PROVE  EndsAt(below[n.vals[i]], key, Within(n.vals[i], Layer[f]))
  <2> DEFINE v == n.vals[i]
  <2>1. v \in DOMAIN st /\ v \in Level[f] /\ Row(v, low, Layer[f])
    BY <1>8
  <2> HIDE DEF v
  <2>2. f < N
    BY <1>2, <2>1, LevelsStored
  <2>3. f \in 0..N
    BY <1>1, <2>2
  <2>4. below[v] \in EndingWalks(st, key, N, v)
    BY <1>1, <1>2, <1>3, <1>7, <2>1 DEF Answered
  <2>5. EndsAt(below[v], key, Within(v, Layer[f]))
    BY <1>8, <2>1, <2>3, <2>4 DEF EndingWalks
  <2> QED BY <2>5 DEF v
<1> HIDE DEF i
<1>9. 0 <= key /\ Row(Hash(n), 0, Layer[e]) /\ P = Within(Hash(n), Layer[e])
  BY <1>0, TreeAssumption DEF HoldsAt
<1>10. EndsAt(DescendFrom(n, key, st, below), key, Within(Hash(n), Layer[e]))
  BY <1>0, <1>8, <1>9, DescendEnds DEF i
<1> QED BY <1>7, <1>9, <1>10

-----------------------------------------------------------------------------
(* Order: find shows exactly the pairs of the tree                         *)

(***************************************************************************)
(* The map f has exactly the pairs P, so no key is in P twice.             *)
(***************************************************************************)
Shows(f, P) ==
    /\ f = [k \in KeysOf(P) |-> f[k]]
    /\ \A p \in P : f[p[1]] = p[2]

(***************************************************************************)
(* The pairs of a tree are pairs of keys and values.                       *)
(***************************************************************************)
LEMMA TreePairs ==
    ASSUME NEW st, NEW n \in Node, NEW P, Tree(n, st, P)
    PROVE  P \in SUBSET (Keys \X Values) /\ KeysOf(P) \subseteq Keys
<1>1. PICK e \in Nat : Row(Hash(n), 0, Layer[e]) /\ Within(Hash(n), Layer[e]) = P
  BY DEF Tree, HoldsAt
<1>2. Hash(n) \in Digests /\ Layer[e] \in Layers /\ Len(Hash(n)[1]) = Len(Hash(n)[2])
  BY <1>1, NodeFields, LayerIs DEF Row
<1>3. P \in SUBSET (Keys \X Values)
  BY <1>1, <1>2, PartType
<1> QED BY <1>3 DEF KeysOf

(***************************************************************************)
(* find answers a leaf exactly for the keys of the tree, and with their    *)
(* values.                                                                 *)
(***************************************************************************)
LEMMA FindRow ==
    ASSUME NEW st \in Stores, Sound(st), NEW n \in Node, NEW P, Tree(n, st, P), NEW key \in Keys
    PROVE  /\ (Descends(n, key, st) /\ NodeFind(n, key, st) # <<>>) <=> key \in KeysOf(P)
           /\ NodeFind(n, key, st) # <<>> <=> key \in KeysOf(P)
           /\ \A x : <<key, x>> \in P => ValueIn(NodeFind(n, key, st)[1], key) = x
<1> DEFINE p == Descent(n, key, st)
           end == Last(p)
<1>1. EndsAt(p, key, P)
  BY DescentEnds
<1>2. /\ end.leaf \/ end.vals = <<>>
      /\ Rising(end.keys)
      /\ \A x : <<key, x>> \in P <=> \E j \in 1..Len(end.keys) : end.keys[j] = key /\ end.vals[j] = x
  BY <1>1 DEF EndsAt
<1>3. end \in Node
  <2>1. p \in Seq(Node) /\ p # <<>>
    BY <1>1 DEF EndsAt
  <2> HIDE DEF p
  <2>2. Last(p) \in Node
    BY <2>1, FrontOf
  <2> QED BY <2>2
<1>4. /\ NodeFind(n, key, st) = IF end.leaf /\ key \in Range(end.keys) THEN <<end>> ELSE <<>>
      /\ Descends(n, key, st) <=> end.leaf \/ end.vals # <<>>
  BY DEF NodeFind, Descends
<1> HIDE DEF end, p
<1>5. end.keys \in Seq(Keys) /\ end.vals \in Seq(Universe) /\ Len(end.keys) \in Nat /\ Len(end.vals) = Len(end.keys)
      /\ \A j \in 1..Len(end.keys) : end.keys[j] \in Nat
  <2>1. \A j \in 1..Len(end.keys) : end.keys[j] \in Keys
    BY <1>3, NodeFields
  <2> QED BY <1>3, <2>1, NodeFields, TreeAssumption
<1>6. key \in Range(end.keys) <=> \E j \in 1..Len(end.keys) : end.keys[j] = key
  <2>1. DOMAIN end.keys = 1..Len(end.keys)
    BY <1>5, LenProperties
  <2> QED BY <2>1 DEF Range
<1>7. key \in KeysOf(P) <=> \E j \in 1..Len(end.keys) : end.keys[j] = key
  <2>0. P \in SUBSET (Keys \X Values)
    BY TreePairs
  <2>1. key \in KeysOf(P) <=> \E x : <<key, x>> \in P
    <3>1. \A q \in P : q = <<q[1], q[2]>>
      BY <2>0
    <3>2. ASSUME NEW x, <<key, x>> \in P PROVE key \in KeysOf(P)
      <4>1. <<key, x>>[1] = key
        OBVIOUS
      <4> QED BY <3>2, <4>1, KeysIn
    <3>3. ASSUME key \in KeysOf(P) PROVE \E x : <<key, x>> \in P
      <4>1. PICK q \in P : q[1] = key
        BY <3>3, KeysIn
      <4>2. <<key, q[2]>> \in P
        BY <3>1, <4>1
      <4> QED BY <4>2
    <3> QED BY <3>2, <3>3
  <2> QED BY <1>2, <2>1
<1>8. ASSUME NEW j \in 1..Len(end.keys), end.keys[j] = key PROVE end.leaf
  <2>1. end.vals # <<>>
    <3>1. Len(end.vals) # 0
      BY <1>5
    <3>2. Len(<<>>) = 0
      OBVIOUS
    <3> QED BY <3>1, <3>2
  <2> QED BY <1>2, <2>1
<1>9. <<end>> # <<>> /\ <<end>>[1] = end
  OBVIOUS
<1>10. ASSUME NEW x, <<key, x>> \in P PROVE ValueIn(NodeFind(n, key, st)[1], key) = x
  <2>1. PICK j \in 1..Len(end.keys) : end.keys[j] = key /\ end.vals[j] = x
    BY <1>2, <1>10
  <2>2. NodeFind(n, key, st) = <<end>>
    BY <1>4, <1>6, <1>8, <2>1
  <2> DEFINE S == {i \in 1..Len(end.keys) : end.keys[i] = key}
  <2>3. j \in S /\ S \subseteq Nat /\ S # {}
    BY <1>5, <2>1
  <2>4. \A i \in S : i = j
    <3> SUFFICES ASSUME NEW i \in 1..Len(end.keys), end.keys[i] = key PROVE i = j
      OBVIOUS
    <3>1. ~(i < j) /\ ~(j < i)
      BY <1>2, <1>5, <2>1 DEF Rising
    <3> QED BY <1>5, <3>1
  <2>5. ValueIn(end, key) = end.vals[Min(S)]
    BY DEF ValueIn
  <2> HIDE DEF S
  <2>6. Min(S) = j
    BY <2>3, <2>4, MinOf
  <2> QED BY <1>9, <2>1, <2>2, <2>5, <2>6
<1>11. NodeFind(n, key, st) # <<>> <=> key \in KeysOf(P)
  BY <1>4, <1>6, <1>7, <1>8, <1>9
<1>12. key \in KeysOf(P) => Descends(n, key, st)
  BY <1>4, <1>7, <1>8
<1> QED BY <1>10, <1>11, <1>12

(***************************************************************************)
(* What find shows of a tree are its pairs.                                *)
(***************************************************************************)
LEMMA TreeContents ==
    ASSUME NEW st \in Stores, Sound(st), NEW n \in Node, NEW P, Tree(n, st, P)
    PROVE  Shows(Contents(n, st), P)
<1> DEFINE found == {k \in Keys : Descends(n, k, st) /\ NodeFind(n, k, st) # <<>>}
           f == [k \in found |-> ValueIn(NodeFind(n, k, st)[1], k)]
<1>1. P \in SUBSET (Keys \X Values) /\ KeysOf(P) \subseteq Keys
  BY TreePairs
<1>2. found = KeysOf(P)
  <2>1. ASSUME NEW k \in Keys PROVE k \in found <=> k \in KeysOf(P)
    BY FindRow
  <2> QED BY <1>1, <2>1
<1>3. f = Contents(n, st)
  BY DEF Contents
<1>4. ASSUME NEW p \in P PROVE f[p[1]] = p[2]
  <2>1. p = <<p[1], p[2]>> /\ p[1] \in Keys
    BY <1>1
  <2>2. p[1] \in found
    BY <1>2, KeysIn
  <2>3. ValueIn(NodeFind(n, p[1], st)[1], p[1]) = p[2]
    BY <2>1, FindRow
  <2> QED BY <2>2, <2>3
<1>5. f = [k \in KeysOf(P) |-> f[k]]
  BY <1>2
<1> HIDE DEF f
<1> QED BY <1>3, <1>4, <1>5 DEF Shows

-----------------------------------------------------------------------------
(* Pairs and contents                                                      *)

(***************************************************************************)
(* A descent that does not end in an empty node starts in none.            *)
(***************************************************************************)
LEMMA DescendsFrom ==
    ASSUME NEW n, NEW key, NEW st, Descends(n, key, st)
    PROVE  n.vals # <<>> \/ n.leaf
<1> SUFFICES ASSUME n.vals = <<>>, ~n.leaf PROVE FALSE
  OBVIOUS
<1> DEFINE i == ChildIndex(n, key)
<1>1. ~Leads(n, i, st)
  BY DEF Leads
<1>2. Descent(n, key, st) = <<n>>
  BY <1>1 DEF Descent, DescendFrom
<1>3. Last(<<n>>) = n
  <2>1. Len(<<n>>) = 1 /\ <<n>>[1] = n
    OBVIOUS
  <2> QED BY <2>1 DEF Last
<1>4. n.leaf \/ n.vals # <<>>
  BY <1>2, <1>3 DEF Descends
<1> QED BY <1>4

(***************************************************************************)
(* A set of pairs is shown by one map.                                     *)
(***************************************************************************)
LEMMA ShowsOnce ==
    ASSUME NEW f, NEW g, NEW P, Shows(f, P), Shows(g, P)
    PROVE  f = g
<1>1. \A k \in KeysOf(P) : f[k] = g[k]
  BY KeysIn DEF Shows
<1> QED BY <1>1 DEF Shows

(***************************************************************************)
(* A map with another laid over it.                                        *)
(***************************************************************************)
Laid(f, g) == [k \in DOMAIN f \cup DOMAIN g |-> IF k \in DOMAIN g THEN g[k] ELSE f[k]]

(***************************************************************************)
(* A batch of one key.                                                     *)
(***************************************************************************)
OneKey(b, k, v) == DOMAIN b = {k} /\ b[k] = v

(***************************************************************************)
(* Putting a pair lays a batch of one over the map.                        *)
(***************************************************************************)
LEMMA ShowsPut ==
    ASSUME NEW f, NEW g, NEW P, NEW k, NEW v, Shows(f, P), Shows(g, Put(P, k, v)),
           NEW b, OneKey(b, k, v)
    PROVE  g = Laid(f, b)
<1> DEFINE h == Laid(f, b)
<1>1. DOMAIN b = {k} /\ b[k] = v
  BY DEF OneKey
<1>2. DOMAIN f = KeysOf(P)
  BY DEF Shows
<1>3. /\ h = [x \in KeysOf(P) \cup {k} |-> h[x]]
      /\ h[k] = v /\ \A x \in KeysOf(P) : x # k => h[x] = f[x]
  BY <1>1, <1>2 DEF Laid
<1> HIDE DEF h
<1>4. KeysOf(Put(P, k, v)) = KeysOf(P) \cup {k}
  <2>1. \A x : x \in KeysOf(Put(P, k, v)) <=> x \in KeysOf(P) \cup {k}
    BY PutKeys
  <2> QED BY <2>1
<1>5. ASSUME NEW x \in KeysOf(P) \cup {k} PROVE g[x] = h[x]
  <2>1. CASE x = k
    <3>1. <<k, v>> \in Put(P, k, v) /\ <<k, v>>[1] = k /\ <<k, v>>[2] = v
      BY PutKeys
    <3> QED BY <1>3, <2>1, <3>1 DEF Shows
  <2>2. CASE x # k
    <3>1. PICK p \in P : p[1] = x
      BY <1>5, <2>2, KeysIn
    <3>2. p \in Put(P, k, v)
      BY <2>2, <3>1 DEF Put
    <3> QED BY <1>3, <2>2, <3>1, <3>2, KeysIn DEF Shows
  <2> QED BY <2>1, <2>2
<1>6. g = h
  BY <1>3, <1>4, <1>5 DEF Shows
<1> QED BY <1>6 DEF h

(***************************************************************************)
(* The pairs after the first j keys of a batch are put.                    *)
(***************************************************************************)
Filled(P, order, batch, j) ==
    {p \in P : \A i \in 1..j : p[1] # order[i]} \cup {<<order[i], batch[order[i]]>> : i \in 1..j}

(***************************************************************************)
(* One more of them.                                                       *)
(***************************************************************************)
LEMMA FillNext ==
    ASSUME NEW P, NEW order, NEW batch, NEW j \in Nat \ {0}
    PROVE  Filled(P, order, batch, j) = Put(Filled(P, order, batch, j - 1), order[j], batch[order[j]])
<1> DEFINE A == Filled(P, order, batch, j)
           B == Put(Filled(P, order, batch, j - 1), order[j], batch[order[j]])
<1>1. 1..j = 1..(j - 1) \cup {j}
  OBVIOUS
<1>2. \A i : <<order[i], batch[order[i]]>>[1] = order[i]
  OBVIOUS
<1>3. ASSUME NEW p PROVE p \in A <=> p \in B
  <2>1. p \in A <=> \/ p \in P /\ \A i \in 1..j : p[1] # order[i]
                    \/ \E i \in 1..j : p = <<order[i], batch[order[i]]>>
    BY DEF Filled
  <2>2. p \in B <=> \/ /\ p[1] # order[j]
                       /\ \/ p \in P /\ \A i \in 1..(j - 1) : p[1] # order[i]
                          \/ \E i \in 1..(j - 1) : p = <<order[i], batch[order[i]]>>
                    \/ p = <<order[j], batch[order[j]]>>
    BY DEF Filled, Put
  <2> HIDE DEF A, B
  <2>3. CASE p[1] = order[j]
    <3>1. \A i \in 1..j : p = <<order[i], batch[order[i]]>> => p = <<order[j], batch[order[j]]>>
      BY <1>2, <2>3
    <3> QED BY <1>1, <2>1, <2>2, <2>3, <3>1
  <2>4. CASE p[1] # order[j]
    BY <1>1, <2>1, <2>2, <2>4
  <2> QED BY <2>3, <2>4
<1> QED BY <1>3

(***************************************************************************)
(* None of them.                                                           *)
(***************************************************************************)
LEMMA FillNone ==
    ASSUME NEW P, NEW order, NEW batch
    PROVE  Filled(P, order, batch, 0) = P
BY DEF Filled

(***************************************************************************)
(* An order runs through all keys of a batch.                              *)
(***************************************************************************)
Covers(order, N, batch) == {order[i] : i \in 1..N} = DOMAIN batch

(***************************************************************************)
(* Putting all pairs of a batch lays it over the map, in whatever order.   *)
(***************************************************************************)
LEMMA ShowsFilled ==
    ASSUME NEW f, NEW g, NEW P, NEW batch, NEW order, NEW N \in Nat,
           Covers(order, N, batch),
           Shows(f, P), Shows(g, Filled(P, order, batch, N))
    PROVE  g = Laid(f, batch)
<1> DEFINE h == Laid(f, batch)
           F == Filled(P, order, batch, N)
           K == KeysOf(P) \cup DOMAIN batch
<1>1. DOMAIN f = KeysOf(P)
  BY DEF Shows
<1>2. /\ h = [x \in K |-> h[x]]
      /\ \A x \in DOMAIN batch : h[x] = batch[x]
      /\ \A x \in K : x \notin DOMAIN batch => h[x] = f[x]
  BY <1>1 DEF Laid
<1>3. \A p : p \in F <=> \/ p \in P /\ p[1] \notin DOMAIN batch
                         \/ \E x \in DOMAIN batch : p = <<x, batch[x]>>
  BY DEF Filled, Covers
<1> HIDE DEF h, F
<1>4. KeysOf(F) = K
  <2>1. \A x : <<x, batch[x]>>[1] = x
    OBVIOUS
  <2>2. ASSUME NEW x PROVE x \in KeysOf(F) <=> x \in KeysOf(P) \/ x \in DOMAIN batch
    <3>0. \A Q : x \in KeysOf(Q) <=> \E p \in Q : p[1] = x
      BY KeysIn
    <3>1. ASSUME x \in KeysOf(F) PROVE x \in KeysOf(P) \/ x \in DOMAIN batch
      <4>1. PICK p \in F : p[1] = x
        BY <3>0, <3>1
      <4> QED BY <1>3, <2>1, <3>0, <4>1
    <3>2. ASSUME x \in DOMAIN batch PROVE x \in KeysOf(F)
      <4>1. <<x, batch[x]>> \in F
        BY <1>3, <3>2
      <4> QED BY <2>1, <3>0, <4>1
    <3>3. ASSUME x \in KeysOf(P), x \notin DOMAIN batch PROVE x \in KeysOf(F)
      <4>1. PICK p \in P : p[1] = x
        BY <3>0, <3>3
      <4>2. p \in F
        BY <1>3, <3>3, <4>1
      <4> QED BY <3>0, <4>1, <4>2
    <3> QED BY <3>1, <3>2, <3>3
  <2> QED BY <2>2
<1>5. ASSUME NEW x \in K PROVE g[x] = h[x]
  <2>1. CASE x \in DOMAIN batch
    <3>1. <<x, batch[x]>> \in F /\ <<x, batch[x]>>[1] = x /\ <<x, batch[x]>>[2] = batch[x]
      BY <1>3, <2>1
    <3>2. \A p \in F : g[p[1]] = p[2]
      BY DEF Shows, F
    <3>3. g[x] = batch[x]
      BY <3>1, <3>2
    <3> QED BY <1>2, <2>1, <3>3
  <2>2. CASE x \notin DOMAIN batch
    <3>1. PICK p \in P : p[1] = x
      BY <1>5, <2>2, KeysIn
    <3>2. p \in F
      BY <1>3, <2>2, <3>1
    <3>3. g[x] = p[2] /\ f[x] = p[2]
      BY <3>1, <3>2 DEF Shows, F
    <3> QED BY <1>2, <2>2, <3>3
  <2> QED BY <2>1, <2>2
<1>6. g = [x \in K |-> g[x]]
  <2>1. g = [x \in KeysOf(F) |-> g[x]]
    BY DEF Shows, F
  <2> QED BY <1>4, <2>1
<1>7. g = h
  BY <1>2, <1>5, <1>6
<1> QED BY <1>7 DEF h

(***************************************************************************)
(* An order of a finite set runs through all of it.                        *)
(***************************************************************************)
LEMMA OrderFills ==
    ASSUME NEW S, IsFiniteSet(S), NEW order \in SetToSeqs(S)
    PROVE  Len(order) \in Nat /\ {order[i] : i \in 1..Len(order)} = S
<1> DEFINE N == Cardinality(S)
<1>1. N \in Nat /\ order \in [1..N -> S] /\ \A i, j \in 1..N : i # j => order[i] # order[j]
  BY FS_CardinalityType DEF SetToSeqs
<1> HIDE DEF N
<1>2. order \in Seq(S) /\ Len(order) = N
  <2>1. order \in Seq(S)
    BY <1>1, SeqDef
  <2> QED BY <1>1, <2>1, LenProperties
<1>3. Cardinality(1..N) = N
  BY <1>1, FS_Interval
<1>4. order \in Injection(1..N, S)
  BY <1>1 DEF Injection, IsInjective
<1>5. order \in Surjection(1..N, S)
  BY <1>3, <1>4, FS_Injection DEF N
<1>6. \A x \in S : \E i \in 1..N : order[i] = x
  BY <1>5 DEF Surjection
<1>7. {order[i] : i \in 1..N} = S
  BY <1>1, <1>6
<1> QED BY <1>1, <1>2, <1>7

-----------------------------------------------------------------------------
(* Trees in a storage, the saved root and the root in hand                 *)

(***************************************************************************)
(* A tree stays one in a larger storage.                                   *)
(***************************************************************************)
LEMMA TreeGrows ==
    ASSUME NEW st \in Stores, NEW s \in Stores, Sound(st), Sound(s), DOMAIN st \subseteq DOMAIN s, NEW P
    PROVE  /\ \A n : Tree(n, st, P) => Tree(n, s, P)
           /\ \A h \in DOMAIN st : Tree(GetNode(st, h), st, P) => Tree(GetNode(s, h), s, P)
<1>1. ASSUME NEW n, Tree(n, st, P) PROVE Tree(n, s, P)
  <2>1. PICK e \in Nat : Fits(n, e, st) /\ HoldsAt(n, 0, P, e)
    BY <1>1 DEF Tree
  <2>2. Fits(n, e, s)
    BY <2>1, FitsGrows
  <2> QED BY <2>1, <2>2 DEF Tree
<1>2. ASSUME NEW h \in DOMAIN st, Tree(GetNode(st, h), st, P) PROVE Tree(GetNode(s, h), s, P)
  <2> DEFINE n == GetNode(st, h)
             m == GetNode(s, h)
  <2>1. h \in DOMAIN s /\ Hash(n) = h /\ Hash(m) = h
    BY StoreFields
  <2>0. m = GetNode(s, h) /\ n = GetNode(st, h)
    OBVIOUS
  <2> HIDE DEF m, n
  <2>2. PICK e \in Nat : Fits(n, e, st) /\ HoldsAt(n, 0, P, e)
    BY <1>2, <2>0 DEF Tree
  <2>3. h \in Level[e]
    BY <2>1, <2>2, FitsLevel, <2>0, StoreFields
  <2>4. Fits(m, e, s)
    BY <2>0, <2>1, <2>3, FitsAgain
  <2>5. HoldsAt(m, 0, P, e)
    BY <2>1, <2>2 DEF HoldsAt
  <2>6. Tree(m, s, P)
    BY <2>4, <2>5 DEF Tree
  <2> QED BY <2>0, <2>6
<1> QED BY <1>1, <1>2

(***************************************************************************)
(* A stored tree can be read again.                                        *)
(***************************************************************************)
LEMMA TreeStored ==
    ASSUME NEW st \in Stores, Sound(st), NEW n \in Node, NEW P, Tree(n, st, P),
           NEW s, s = InsertNode(st, n)
    PROVE  /\ s \in Stores /\ Sound(s) /\ Hash(n) \in DOMAIN s
           /\ Tree(n, s, P) /\ Tree(GetNode(s, Hash(n)), s, P)
<1>1. PICK e \in Nat : Fits(n, e, st) /\ HoldsAt(n, 0, P, e)
  BY DEF Tree
<1>2. s \in Stores /\ DOMAIN s = DOMAIN st \cup {Hash(n)}
  BY InsertNodeType
<1>3. Sound(s)
  BY <1>1, StoreSound
<1>4. Fits(n, e, s)
  BY <1>1, <1>2, FitsGrows
<1>5. Hash(n) \in Level[e]
  BY <1>1, FitsLevel
<1> DEFINE h == Hash(n)
           m == GetNode(s, h)
<1>6. Hash(m) = h
  BY <1>2, StoreFields
<1>7. Fits(m, e, s)
  BY <1>2, <1>3, <1>5, FitsAgain
<1> HIDE DEF m
<1>8. HoldsAt(m, 0, P, e)
  BY <1>1, <1>6 DEF HoldsAt
<1>9. Tree(n, s, P) /\ Tree(m, s, P)
  BY <1>1, <1>4, <1>7, <1>8 DEF Tree
<1> QED BY <1>2, <1>3, <1>9 DEF m

(***************************************************************************)
(* The empty root is the tree without pairs.                               *)
(***************************************************************************)
LEMMA EmptyIsTree ==
    Tree(EmptyRoot, EmptyStore, {})
<1>1. EmptyRoot.vals = <<>> /\ EmptyRoot.leaf = TRUE /\ EmptyRoot.keys = <<>>
  BY DEF EmptyRoot, MakeNode
<1>2. Fits(EmptyRoot, 0, EmptyStore)
  BY <1>1 DEF Fits, Holds
<1> DEFINE h == Hash(EmptyRoot)
<1>3. h[1] = <<>> /\ h[2] = <<>>
  BY <1>1 DEF Hash
<1> HIDE DEF h
<1>4. Len(h[1]) = 0 /\ Len(h[2]) = 0
  <2>1. Len(<<>>) = 0
    OBVIOUS
  <2> QED BY <1>3, <2>1
<1>5. Row(h, 0, Layer[0])
  <2>1. h[1] # <<>> => 0 = 0 \/ h[1][1] = 0
    OBVIOUS
  <2> QED BY <1>4, <2>1 DEF Row, Apart
<1>6. Within(h, Layer[0]) = {}
  BY <1>4 DEF Within
<1>7. HoldsAt(EmptyRoot, 0, {}, 0)
  BY <1>5, <1>6 DEF HoldsAt, h
<1> QED BY <1>2, <1>7 DEF Tree

(***************************************************************************)
(* The root is the root of a tree, and so is the saved one.                *)
(***************************************************************************)
Planted ==
    /\ \E P : Tree(root, store, P)
    /\ savedRoot # <<>> => \E P : Tree(GetNode(store, savedRoot[1]), store, P)

(***************************************************************************)
(* savedView is what find shows from the saved root.                       *)
(***************************************************************************)
Reopened ==
    savedView = IF savedRoot = <<>> THEN EmptyMap ELSE Contents(GetNode(store, savedRoot[1]), store)

(***************************************************************************)
(* It remains so: no step removes or changes a stored node.                *)
(***************************************************************************)
LEMMA ReopenedKept ==
    ASSUME Reopened, [Next]_vars
    PROVE  Reopened'
<1>1. CASE Observe
  BY <1>1 DEF Observe, Reopened
<1>2. CASE UNCHANGED vars
  BY <1>2 DEF vars, Reopened
<1>3. Observe \/ UNCHANGED vars
  BY DEF Next, Insert, Update, Delete, InsertBatch, DeleteBatch, PersistRoot, Reload, MergeTrees
<1> QED BY <1>1, <1>2, <1>3

(***************************************************************************)
(* Saving a tree: the view and the saved view are its pairs.               *)
(***************************************************************************)
LEMMA PersistPlants ==
    ASSUME NEW r, r.node \in Node, r.st \in Stores, Sound(r.st), NEW P, Tree(r.node, r.st, P),
           Persist(r), Observe
    PROVE  /\ Planted' /\ Shows(view', P) /\ savedView' = view'
<1> DEFINE s == InsertNode(r.st, r.node)
           h == Hash(r.node)
           g == GetNode(s, h)
<1>1. root' = r.node /\ store' = s /\ savedRoot' = <<h>>
  BY DEF Persist
<1>2. s \in Stores /\ Sound(s) /\ h \in DOMAIN s /\ Tree(r.node, s, P) /\ Tree(g, s, P)
  BY TreeStored
<1>3. view' = Contents(root', store') /\ savedView' = IF savedRoot' = <<>> THEN EmptyMap
                                           ELSE Contents(GetNode(store', savedRoot'[1]), store')
  BY DEF Observe
<1>4. <<h>> # <<>> /\ <<h>>[1] = h
  OBVIOUS
<1>5. view' = Contents(r.node, s) /\ savedView' = Contents(g, s)
  BY <1>1, <1>3, <1>4
<1>6. g \in Node
  BY <1>2, StoreFields
<1>0. g = GetNode(s, h)
  OBVIOUS
<1> HIDE DEF s, h, g
<1>7. Shows(Contents(r.node, s), P) /\ Shows(Contents(g, s), P)
  BY <1>2, <1>6, TreeContents
<1>8. view' = savedView'
  BY <1>5, <1>7, ShowsOnce
<1>9. Planted'
  <2>1. \E Q : Tree(root', store', Q)
    BY <1>1, <1>2
  <2>2. savedRoot'[1] = h
    BY <1>1, <1>4
  <2>3. \E Q : Tree(GetNode(store', savedRoot'[1]), store', Q)
    BY <1>0, <1>1, <1>2, <2>2
  <2> QED BY <2>1, <2>3 DEF Planted
<1> QED BY <1>5, <1>7, <1>8, <1>9

(***************************************************************************)
(* The saved root is stored.                                               *)
(***************************************************************************)
LEMMA SameDigest ==
    ASSUME Typing, savedRoot # <<>>
    PROVE  savedRoot[1] \in DOMAIN store
<1>1. PICK h \in DOMAIN store : savedRoot = <<h>>
  BY DEF Typing
<1>2. <<h>>[1] = h
  OBVIOUS
<1> QED BY <1>1, <1>2

-----------------------------------------------------------------------------
(* insert, update, persist_root and load_from_storage on pairs             *)

(***************************************************************************)
(* The inductive invariant of the dictionary: until a join strays, the     *)
(* root and the saved root are trees. The other parts hold with strayed    *)
(* joins too.                                                              *)
(***************************************************************************)
Planting == Typing /\ Leveled /\ Viewed /\ Reopened /\ (strayed \/ Planted)

(***************************************************************************)
(* What it says before a step after which no join has strayed.             *)
(***************************************************************************)
LEMMA PlantedNow ==
    ASSUME Planting, ~strayed'
    PROVE  /\ root \in Node /\ store \in Stores /\ Sound(store)
           /\ \E e \in Nat : Fits(root, e, store)
           /\ view = Contents(root, store)
           /\ ~strayed => Planted /\ \E P : Tree(root, store, P) /\ Shows(view, P)
<1>1. root \in Node /\ store \in Stores /\ Sound(store) /\ \E e \in Nat : Fits(root, e, store)
  BY DEF Planting, Typing, Leveled
<1>2. view = Contents(root, store)
  BY DEF Planting, Viewed
<1>3. ASSUME ~strayed PROVE Planted /\ \E P : Tree(root, store, P) /\ Shows(view, P)
  <2>1. Planted
    BY <1>3 DEF Planting
  <2>2. PICK P : Tree(root, store, P)
    BY <2>1 DEF Planted
  <2>3. Shows(view, P)
    BY <1>1, <1>2, <2>2, TreeContents
  <2> QED BY <2>1, <2>2, <2>3
<1> QED BY <1>1, <1>2, <1>3

(***************************************************************************)
(* It says the same after a step that changes no root.                     *)
(***************************************************************************)
LEMMA SamePlanted ==
    ASSUME Planted, UNCHANGED <<root, store, savedRoot>>
    PROVE  Planted'
BY DEF Planted

(***************************************************************************)
(* Node::insert as the operations of the tree call it.                     *)
(***************************************************************************)
LEMMA InsertPlants ==
    ASSUME ~StickyFlags, NEW n \in Node, NEW st \in Stores, Sound(st), NEW P, Tree(n, st, P),
           NEW k \in Keys, NEW v \in Values, Descends(n, k, st),
           NEW r, r = NodeInsert(n, k, v, st), ~r.strayed
    PROVE  /\ r.node \in Node /\ r.st \in Stores /\ Sound(r.st)
           /\ Tree(r.node, r.st, Put(P, k, v))
<1>1. n.vals # <<>> \/ n.leaf
  BY DescendsFrom
<1>2. Tree(r.node, r.st, Put(P, k, v))
  BY <1>1, NodeInsertRow
<1>3. PICK e \in Nat : Fits(n, e, st)
  BY DEF Tree
<1>4. r \in Answers(st) /\ Sound(r.st)
  BY <1>3, NodeInsertFits
<1> QED BY <1>2, <1>4, AnswerFields

(***************************************************************************)
(* ProllyTree::insert puts its pair, in the tree and, after the save, in   *)
(* what a reload shows.                                                    *)
(***************************************************************************)
LEMMA InsertDictionary ==
    ASSUME ~StickyFlags, Planting, ~strayed', NEW k \in Keys, NEW v \in Values, Insert(k, v)
    PROVE  Planted' /\ D!Insert(k, v)
<1> DEFINE r == NodeInsert(root, k, v, store)
<1>1. /\ Descends(root, k, store) /\ Persist(r) /\ Observe
      /\ op' = [name |-> "insert", arg |-> <<k, v>>, answer |-> TRUE]
  BY DEF Insert, Reaches, Call
<1>0. r = NodeInsert(root, k, v, store)
  OBVIOUS
<1> HIDE DEF r
<1>2. ~strayed /\ ~r.strayed
  BY <1>1 DEF Persist
<1>3. root \in Node /\ store \in Stores /\ Sound(store)
  BY PlantedNow
<1>4. PICK P : Tree(root, store, P) /\ Shows(view, P)
  BY <1>2, PlantedNow
<1>5. r.node \in Node /\ r.st \in Stores /\ Sound(r.st) /\ Tree(r.node, r.st, Put(P, k, v))
  BY <1>0, <1>1, <1>2, <1>3, <1>4, InsertPlants
<1>6. Planted' /\ Shows(view', Put(P, k, v)) /\ savedView' = view'
  BY <1>1, <1>5, PersistPlants
<1>7. view' = D!Override(view, [x \in {k} |-> v])
  <2> DEFINE b == [x \in {k} |-> v]
  <2>1. b = [x \in {k} |-> v] /\ OneKey(b, k, v)
    BY DEF OneKey
  <2> HIDE DEF b
  <2>2. view' = Laid(view, b)
    BY <1>4, <1>6, <2>1, ShowsPut
  <2> QED BY <2>1, <2>2 DEF Laid, D!Override
<1> QED BY <1>1, <1>6, <1>7 DEF D!Insert, D!Step

(***************************************************************************)
(* update changes the value of a key that is there, and no key is there    *)
(* twice.                                                                  *)
(***************************************************************************)
LEMMA UpdateDictionary ==
    ASSUME ~StickyFlags, Planting, ~strayed', NEW k \in Keys, NEW v \in Values, Update(k, v)
    PROVE  Planted' /\ D!Update(k, v)
<1> DEFINE r == NodeInsert(root, k, v, store)
           exists == NodeFind(root, k, store) # <<>>
<1>1. /\ Descends(root, k, store) /\ Observe
      /\ op' = [name |-> "update", arg |-> <<k, v>>, answer |-> exists]
      /\ \/ exists /\ Persist(r)
         \/ ~exists /\ UNCHANGED <<root, store, savedRoot, roots, strayed>>
  BY DEF Update, Reaches, Call
<1>0. r = NodeInsert(root, k, v, store) /\ (exists <=> NodeFind(root, k, store) # <<>>)
  OBVIOUS
<1> HIDE DEF r
<1>2. ~strayed
  BY <1>1 DEF Persist
<1>3. root \in Node /\ store \in Stores /\ Sound(store) /\ view = Contents(root, store) /\ Planted
  BY <1>2, PlantedNow
<1>4. PICK P : Tree(root, store, P) /\ Shows(view, P)
  BY <1>2, PlantedNow
<1>5. exists <=> k \in DOMAIN view
  <2>1. NodeFind(root, k, store) # <<>> <=> k \in KeysOf(P)
    BY <1>3, <1>4, FindRow
  <2>2. DOMAIN view = KeysOf(P)
    BY <1>4 DEF Shows
  <2> QED BY <2>1, <2>2
<1>6. CASE exists
  <2>1. Persist(r) /\ ~r.strayed
    BY <1>1, <1>6 DEF Persist
  <2>2. r.node \in Node /\ r.st \in Stores /\ Sound(r.st) /\ Tree(r.node, r.st, Put(P, k, v))
    BY <1>0, <1>1, <1>3, <1>4, <2>1, InsertPlants
  <2>3. Planted' /\ Shows(view', Put(P, k, v)) /\ savedView' = view'
    BY <1>1, <2>1, <2>2, PersistPlants
  <2>4. view' = D!Override(view, [x \in {k} |-> v])
    <3> DEFINE b == [x \in {k} |-> v]
    <3>1. b = [x \in {k} |-> v] /\ OneKey(b, k, v)
      BY DEF OneKey
    <3> HIDE DEF b
    <3>2. view' = Laid(view, b)
      BY <1>4, <2>3, <3>1, ShowsPut
    <3> QED BY <3>1, <3>2 DEF Laid, D!Override
  <2>5. k \in DOMAIN view
    BY <1>5, <1>6
  <2>6. view' = [view EXCEPT ![k] = v]
    <3>1. view = [x \in DOMAIN view |-> view[x]]
      BY <1>4 DEF Shows
    <3>2. DOMAIN [x \in {k} |-> v] = {k} /\ [x \in {k} |-> v][k] = v
      OBVIOUS
    <3>3. view' = [x \in DOMAIN view |-> IF x = k THEN v ELSE view[x]]
      BY <2>4, <2>5, <3>2 DEF D!Override
    <3> QED BY <3>1, <3>3
  <2>7. op' = [name |-> "update", arg |-> <<k, v>>, answer |-> k \in DOMAIN view]
    BY <1>1, <1>5
  <2> QED BY <2>3, <2>5, <2>6, <2>7 DEF D!Update, D!Step
<1>7. CASE ~exists
  <2>1. UNCHANGED <<root, store, savedRoot>>
    BY <1>1, <1>7
  <2>2. Planted'
    BY <1>3, <2>1, SamePlanted
  <2>3. view' = view
    BY <1>1, <1>3, <2>1 DEF Observe
  <2>4. savedView' = savedView
    BY <1>1, <2>1 DEF Observe, Planting, Reopened
  <2>5. k \notin DOMAIN view
    BY <1>5, <1>7
  <2>6. op' = [name |-> "update", arg |-> <<k, v>>, answer |-> k \in DOMAIN view]
    BY <1>1, <1>5
  <2> QED BY <2>2, <2>3, <2>4, <2>5, <2>6 DEF D!Update, D!Step
<1> QED BY <1>6, <1>7

(***************************************************************************)
(* persist_root makes the saved view what the view is.                     *)
(***************************************************************************)
LEMMA PersistRootDictionary ==
    ASSUME ~StickyFlags, Planting, ~strayed', PersistRoot
    PROVE  Planted' /\ D!PersistRoot
<1>1. /\ Persist(Loop) /\ Observe
      /\ op' = [name |-> "persist_root", arg |-> {}, answer |-> TRUE]
  BY DEF PersistRoot, Call
<1> DEFINE r == Loop
<1>0. r.node = root /\ r.st = store /\ r.strayed = FALSE /\ Persist(r)
  BY <1>1 DEF Loop
<1> HIDE DEF r
<1>2. ~strayed
  BY <1>0 DEF Persist
<1>3. root \in Node /\ store \in Stores /\ Sound(store)
  BY PlantedNow
<1>4. PICK P : Tree(root, store, P) /\ Shows(view, P)
  BY <1>2, PlantedNow
<1>5. Planted' /\ Shows(view', P) /\ savedView' = view'
  BY <1>0, <1>1, <1>3, <1>4, PersistPlants
<1>6. view' = view
  BY <1>4, <1>5, ShowsOnce
<1> QED BY <1>1, <1>5, <1>6 DEF D!PersistRoot, D!Step

(***************************************************************************)
(* load_from_storage brings back what was saved last.                      *)
(***************************************************************************)
LEMMA ReloadDictionary ==
    ASSUME Planting, ~strayed', Reload
    PROVE  Planted' /\ D!Reload
<1>1. /\ savedRoot # <<>> /\ Observe /\ root' = GetNode(store, savedRoot[1])
      /\ store' = store /\ savedRoot' = savedRoot /\ strayed' = strayed
      /\ op' = [name |-> "load_from_storage", arg |-> {}, answer |-> TRUE]
  BY DEF Reload, Call
<1>2. Planted
  BY <1>1, PlantedNow
<1>3. savedView = Contents(GetNode(store, savedRoot[1]), store)
  BY <1>1 DEF Planting, Reopened
<1>4. view' = savedView /\ savedView' = savedView
  BY <1>1, <1>3 DEF Observe
<1>5. \E P : Tree(GetNode(store, savedRoot[1]), store, P)
  BY <1>1, <1>2 DEF Planted
<1>6. Planted'
  BY <1>1, <1>5 DEF Planted
<1> QED BY <1>1, <1>4, <1>6 DEF D!Reload, D!Step

-----------------------------------------------------------------------------
(* insert_batch on pairs                                                   *)

(***************************************************************************)
(* A loop of inserts whose every step stays in a family ends in it.        *)
(***************************************************************************)
LEMMA InsertFamily ==
    ASSUME NEW N \in Nat, NEW V, NEW order, NEW batch, NEW a \in V[0],
           \A j \in 1..N : \A v \in V[j - 1] : InsertNext(v, order[j], batch[order[j]]) \in V[j]
    PROVE  InsertRun(N, a, order, batch)[N] \in V[N]
<1> DEFINE F(j, v) == InsertNext(v, order[j], batch[order[j]])
           S == [j \in 1..N |-> [v \in V[j - 1] |-> F(j, v)]]
           loop == CHOOSE f : f = [j \in 0..N |-> IF j = 0 THEN a ELSE F(j, f[j - 1])]
<1>0. \A j \in 1..N : \A v \in V[j - 1] : F(j, v) \in V[j]
  OBVIOUS
<1> HIDE DEF F
<1>1. \A j \in 1..N : \A v \in V[j - 1] : S[j][v] = F(j, v) /\ S[j][v] \in V[j]
  BY <1>0
<1> HIDE DEF S
<1>2. PICK g : Unfolds(g, N, V, a, S)
  BY <1>1, RecursiveFamily
<1>3. g = [j \in 0..N |-> IF j = 0 THEN a ELSE F(j, g[j - 1])]
  <2>1. \A j \in 1..N : g[j - 1] \in V[j - 1]
    <3>1. \A j \in 1..N : j - 1 \in 0..N
      OBVIOUS
    <3> QED BY <1>2, <3>1 DEF Unfolds
  <2>2. \A j \in 1..N : g[j] = F(j, g[j - 1])
    BY <1>1, <1>2, <2>1 DEF Unfolds
  <2>3. g = [j \in 0..N |-> g[j]] /\ g[0] = a
    BY <1>2 DEF Unfolds
  <2>4. ASSUME NEW j \in 0..N PROVE g[j] = IF j = 0 THEN a ELSE F(j, g[j - 1])
    <3>1. CASE j = 0
      BY <2>3, <3>1
    <3>2. CASE j # 0
      <4>1. j \in 1..N
        BY <3>2
      <4> QED BY <2>2, <3>2, <4>1
    <3> QED BY <3>1, <3>2
  <2> QED BY <2>3, <2>4
<1>4. loop = [j \in 0..N |-> IF j = 0 THEN a ELSE F(j, loop[j - 1])]
  BY <1>3
<1> HIDE DEF loop
<1> DEFINE T == {j \in 0..N : loop[j] \in V[j]}
<1>5. 0 \in T /\ \A j \in 1..N : j - 1 \in T => j \in T
  <2>1. loop[0] = a /\ \A j \in 1..N : loop[j] = F(j, loop[j - 1])
    BY <1>4
  <2> QED BY <1>0, <2>1
<1>6. loop[N] \in V[N]
  <2> HIDE DEF T
  <2>1. 0..N \subseteq T
    BY <1>5, StepByStep
  <2> QED BY <2>1 DEF T
<1> QED BY <1>6 DEF loop, F, InsertRun

(***************************************************************************)
(* The loops after j keys of a batch: while nothing failed and no join     *)
(* strayed, a tree with these pairs put.                                   *)
(***************************************************************************)
BatchLoops(st, P, order, batch, j) ==
    {r \in SoundLoops(st) : r.ok /\ ~r.strayed => Tree(r.node, r.st, Filled(P, order, batch, j))}

(***************************************************************************)
(* One insert more.                                                        *)
(***************************************************************************)
LEMMA BatchNext ==
    ASSUME ~StickyFlags, NEW st, NEW P, NEW order, NEW batch, NEW j \in Nat \ {0},
           order[j] \in Keys, batch[order[j]] \in Values,
           NEW r \in BatchLoops(st, P, order, batch, j - 1)
    PROVE  InsertNext(r, order[j], batch[order[j]]) \in BatchLoops(st, P, order, batch, j)
<1> DEFINE k == order[j]
           v == batch[order[j]]
           Q == Filled(P, order, batch, j - 1)
           Z == Filled(P, order, batch, j)
           a == NodeInsert(r.node, k, v, r.st)
           q == InsertNext(r, k, v)
<1>0. /\ k \in Keys /\ v \in Values /\ a = NodeInsert(r.node, k, v, r.st)
      /\ q = IF r.ok /\ Descends(r.node, k, r.st) THEN After(r, a, {}) ELSE Failed(r)
      /\ q = InsertNext(r, k, v)
      /\ k = order[j] /\ v = batch[order[j]]
  BY DEF InsertNext
<1>1. r \in SoundLoops(st) /\ (r.ok /\ ~r.strayed => Tree(r.node, r.st, Q))
  BY DEF BatchLoops
<1>2. Z = Put(Q, k, v)
  BY FillNext
<1>3. Z = Filled(P, order, batch, j)
  OBVIOUS
<1> HIDE DEF k, v, Q, Z, a, q
<1>4. q \in SoundLoops(st)
  BY <1>0, <1>1, NextFits
<1>5. r.node \in Node /\ r.st \in Stores /\ Sound(r.st) /\ r.ok \in BOOLEAN /\ r.strayed \in BOOLEAN
  BY <1>1 DEF SoundLoops, Loops
<1>6. ASSUME q.ok, ~q.strayed PROVE Tree(q.node, q.st, Z)
  <2>1. r.ok /\ Descends(r.node, k, r.st)
    <3>1. Failed(r).ok = FALSE
      BY <1>1 DEF Failed, SoundLoops, Loops
    <3> QED BY <1>0, <1>6, <3>1
  <2>2. q = After(r, a, {})
    BY <1>0, <2>1
  <2>3. q.node = a.node /\ q.st = a.st /\ q.strayed = (r.strayed \/ a.strayed)
    BY <2>2 DEF After
  <2>4. ~r.strayed /\ ~a.strayed
    BY <1>6, <2>3
  <2>5. Tree(r.node, r.st, Q)
    BY <1>1, <2>1, <2>4
  <2>6. Tree(a.node, a.st, Put(Q, k, v))
    BY <1>0, <1>5, <2>1, <2>4, <2>5, InsertPlants
  <2> QED BY <1>2, <2>3, <2>6
<1>7. q \in BatchLoops(st, P, order, batch, j)
  BY <1>3, <1>4, <1>6 DEF BatchLoops
<1> QED BY <1>0, <1>7

(***************************************************************************)
(* The whole loop of insert_batch.                                         *)
(***************************************************************************)
LEMMA BatchRow ==
    ASSUME ~StickyFlags, Typing, Leveled, NEW batch \in Batches, NEW order \in InSortedOrder(DOMAIN batch),
           NEW P, ~strayed => Tree(root, store, P), NEW r, r = InsertRun(Len(order), Loop, order, batch)[Len(order)]
    PROVE  /\ r \in SoundLoops(store) /\ Len(order) \in Nat /\ Covers(order, Len(order), batch)
           /\ r.ok /\ ~r.strayed /\ ~strayed => Tree(r.node, r.st, Filled(P, order, batch, Len(order)))
<1>1. /\ IsFiniteSet(DOMAIN batch) /\ DOMAIN batch \subseteq Keys
      /\ \A k \in DOMAIN batch : batch[k] \in Values
  BY TreeAssumption
<1>2. order \in SetToSeqs(DOMAIN batch)
  BY DEF InSortedOrder
<1> DEFINE N == Len(order)
<1>3. N \in Nat /\ Covers(order, N, batch)
  BY <1>1, <1>2, OrderFills DEF Covers
<1>4. \A j \in 1..N : order[j] \in Keys /\ batch[order[j]] \in Values
  BY <1>1, <1>3 DEF Covers
<1>5. r \in SoundLoops(store)
  <2>1. \A q \in SoundLoops(store), k \in Keys, v \in Values : InsertNext(q, k, v) \in SoundLoops(store)
    BY NextFits
  <2>2. Loop \in SoundLoops(store)
    BY LoopStart
  <2> QED BY <2>1, <2>2, InsertBatchEnds
<1>6. ASSUME r.ok, ~r.strayed, ~strayed PROVE Tree(r.node, r.st, Filled(P, order, batch, N))
  <2> DEFINE V == [j \in 0..N |-> BatchLoops(store, P, order, batch, j)]
  <2> HIDE DEF N
  <2>1. Loop \in V[0]
    <3>1. Loop \in SoundLoops(store) /\ Loop.node = root /\ Loop.st = store
      BY LoopStart DEF Loop
    <3>2. Filled(P, order, batch, 0) = P
      BY FillNone
    <3>3. Loop \in BatchLoops(store, P, order, batch, 0)
      BY <1>6, <3>1, <3>2 DEF BatchLoops
    <3> QED BY <1>3, <3>3
  <2>2. ASSUME NEW j \in 1..N, NEW q \in V[j - 1] PROVE InsertNext(q, order[j], batch[order[j]]) \in V[j]
    <3>1. j - 1 \in 0..N /\ j \in 0..N /\ j \in Nat \ {0}
      BY <1>3
    <3>2. q \in BatchLoops(store, P, order, batch, j - 1)
      BY <3>1
    <3>3. InsertNext(q, order[j], batch[order[j]]) \in BatchLoops(store, P, order, batch, j)
      BY <1>4, <3>1, <3>2, BatchNext
    <3> QED BY <3>1, <3>3
  <2>3. V[N] = BatchLoops(store, P, order, batch, N)
    BY <1>3
  <2> HIDE DEF V
  <2>4. InsertRun(N, Loop, order, batch)[N] \in V[N]
    BY <1>3, <2>1, <2>2, InsertFamily
  <2>5. r \in BatchLoops(store, P, order, batch, N)
    BY <2>3, <2>4 DEF N
  <2> QED BY <1>6, <2>5 DEF BatchLoops
<1> QED BY <1>3, <1>5, <1>6

(***************************************************************************)
(* insert_batch puts all pairs of its batch or answers an error and        *)
(* changes nothing that find shows.                                        *)
(***************************************************************************)
LEMMA BatchDictionary ==
    ASSUME ~StickyFlags, Planting, ~strayed', NEW batch \in Batches, InsertBatch(batch)
    PROVE  Planted' /\ D!InsertBatch(batch)
<1>1. /\ Observe /\ op' = [name |-> "insert_batch", arg |-> batch, answer |-> TRUE]
  BY DEF InsertBatch, Call
<1>2. PICK order \in InSortedOrder(DOMAIN batch) :
        Unsaved(InsertRun(Len(order), Loop, order, batch)[Len(order)])
  BY DEF InsertBatch, InsertRun
<1> DEFINE r == InsertRun(Len(order), Loop, order, batch)[Len(order)]
           N == Len(order)
<1>0. r = InsertRun(Len(order), Loop, order, batch)[Len(order)] /\ Unsaved(r) /\ N = Len(order)
  BY <1>2
<1> HIDE DEF r, N
<1>3. /\ r.ok /\ root' = r.node /\ store' = r.st /\ strayed' = (strayed \/ r.strayed)
      /\ savedRoot' = savedRoot
  BY <1>0 DEF Unsaved
<1>4. ~strayed /\ ~r.strayed
  BY <1>3
<1>5. Typing /\ Leveled /\ root \in Node /\ store \in Stores /\ Sound(store) /\ Planted
  BY <1>4, PlantedNow DEF Planting
<1>6. PICK P : Tree(root, store, P) /\ Shows(view, P)
  BY <1>4, PlantedNow
<1> DEFINE Q == Filled(P, order, batch, N)
<1>7. /\ r \in SoundLoops(store) /\ N \in Nat /\ Covers(order, N, batch)
      /\ Tree(r.node, r.st, Q)
  BY <1>0, <1>3, <1>4, <1>5, <1>6, BatchRow
<1>8. Q = Filled(P, order, batch, N)
  OBVIOUS
<1> HIDE DEF Q
<1>9. r.node \in Node /\ r.st \in Stores /\ Sound(r.st) /\ DOMAIN store \subseteq DOMAIN r.st
  BY <1>7 DEF SoundLoops, Loops
<1>10. view' = Contents(r.node, r.st)
  BY <1>1, <1>3 DEF Observe
<1>11. Shows(view', Q)
  BY <1>7, <1>9, <1>10, TreeContents
<1>12. view' = Laid(view, batch)
  BY <1>6, <1>7, <1>8, <1>11, ShowsFilled
<1>13. savedRoot # <<>> => savedRoot[1] \in DOMAIN store
  BY <1>5, SameDigest
<1>14. savedView' = savedView
  <2>1. savedRoot # <<>> => Contents(GetNode(r.st, savedRoot[1]), r.st) = Contents(GetNode(store, savedRoot[1]), store)
    <3>1. savedRoot # <<>> => savedRoot[1] \in DOMAIN r.st
      BY <1>9, <1>13
    <3> QED BY <1>5, <1>9, <1>13, <3>1, SameContents
  <2>2. savedView = IF savedRoot = <<>> THEN EmptyMap ELSE Contents(GetNode(store, savedRoot[1]), store)
    BY DEF Planting, Reopened
  <2>3. savedView' = IF savedRoot = <<>> THEN EmptyMap ELSE Contents(GetNode(r.st, savedRoot[1]), r.st)
    BY <1>1, <1>3 DEF Observe
  <2> QED BY <2>1, <2>2, <2>3
<1>15. Planted'
  <2>1. \E Z : Tree(root', store', Z)
    BY <1>3, <1>7
  <2>2. ASSUME savedRoot' # <<>> PROVE \E Z : Tree(GetNode(store', savedRoot'[1]), store', Z)
    <3>1. savedRoot # <<>> /\ savedRoot[1] \in DOMAIN store
      BY <1>3, <1>13, <2>2
    <3>2. PICK Z : Tree(GetNode(store, savedRoot[1]), store, Z)
      BY <1>5, <3>1 DEF Planted
    <3>3. Tree(GetNode(r.st, savedRoot[1]), r.st, Z)
      BY <1>5, <1>9, <3>1, <3>2, TreeGrows
    <3> QED BY <1>3, <3>3
  <2> QED BY <2>1, <2>2 DEF Planted
<1>16. view' = D!Override(view, batch)
  BY <1>12 DEF Laid, D!Override
<1> QED BY <1>1, <1>14, <1>15, <1>16 DEF D!InsertBatch, D!Step

-----------------------------------------------------------------------------
(* The tree under insertions is the dictionary                             *)

(***************************************************************************)
(* The operations that put pairs, on a storage that returns nodes with     *)
(* their flags cleared (the map in memory and the files, the default),     *)
(* with batches that are functions from keys to values. A delete is left   *)
(* out on purpose: it may leave a separator that is no key below it any    *)
(* more.                                                                   *)
(***************************************************************************)
Inserting ==
    /\ ~StickyFlags
    /\ Enabled \cap {"delete", "delete_batch", "merge_trees"} = {}
    /\ \A batch \in Batches : batch = [k \in DOMAIN batch |-> batch[k]]

(***************************************************************************)
(* Every step of the tree is a step of the dictionary.                     *)
(***************************************************************************)
LEMMA NextDictionary ==
    ASSUME Inserting, Planting, ~strayed', [Next]_vars
    PROVE  Planted' /\ [D!DictNext]_<<view, savedView, op>>
<1>0. ~StickyFlags /\ \A name \in Enabled : name \notin {"delete", "delete_batch", "merge_trees"}
  BY DEF Inserting
<1>1. ASSUME NEW k \in Keys, NEW v \in Values, Insert(k, v) PROVE Planted' /\ D!DictNext
  BY <1>0, <1>1, InsertDictionary DEF D!DictNext
<1>2. ASSUME NEW k \in Keys, NEW v \in Values, Update(k, v) PROVE Planted' /\ D!DictNext
  BY <1>0, <1>2, UpdateDictionary DEF D!DictNext
<1>3. ASSUME NEW k \in Keys PROVE ~Delete(k)
  BY <1>0 DEF Delete, DeleteFrom, Call
<1>4. ASSUME NEW batch \in Batches, InsertBatch(batch) PROVE Planted' /\ D!DictNext
  <2>1. Planted' /\ D!InsertBatch(batch)
    BY <1>0, <1>4, BatchDictionary
  <2>2. batch \in D!Maps(Keys)
    <3>1. batch \in [DOMAIN batch -> Values] /\ DOMAIN batch \in SUBSET Keys
      BY TreeAssumption DEF Inserting
    <3> QED BY <3>1 DEF D!Maps
  <2> QED BY <2>1, <2>2 DEF D!DictNext
<1>5. ASSUME NEW batch \in Batches PROVE ~DeleteBatch(DOMAIN batch)
  BY <1>0 DEF DeleteBatch, Call
<1>6. ASSUME PersistRoot PROVE Planted' /\ D!DictNext
  BY <1>0, <1>6, PersistRootDictionary DEF D!DictNext
<1>7. ASSUME Reload PROVE Planted' /\ D!DictNext
  BY <1>7, ReloadDictionary DEF D!DictNext
<1>8. ASSUME NEW s \in roots, NEW b \in roots, NEW resolver \in MergeResolvers PROVE ~MergeTrees(s, b, resolver)
  BY <1>0 DEF MergeTrees, Call
<1>9. ASSUME UNCHANGED vars PROVE Planted' /\ UNCHANGED <<view, savedView, op>>
  <2>1. Planted
    BY <1>9 DEF Planting, vars
  <2>2. Planted'
    BY <1>9, <2>1, SamePlanted DEF vars
  <2> QED BY <1>9, <2>2 DEF vars
<1>10. Next => Planted' /\ D!DictNext
  BY <1>1, <1>2, <1>3, <1>4, <1>5, <1>6, <1>7, <1>8 DEF Next
<1> QED BY <1>9, <1>10

(***************************************************************************)
(* The empty tree is the empty dictionary.                                 *)
(***************************************************************************)
LEMMA InitPlanting ==
    Init => Planting /\ D!DictInit
<1> SUFFICES ASSUME Init PROVE Planting /\ D!DictInit
  OBVIOUS
<1>1. Typing /\ Leveled /\ Viewed
  BY InitTyping, InitLeveled, EmptyViewed
<1>2. /\ root = EmptyRoot /\ store = EmptyStore /\ savedRoot = <<>> /\ savedView = EmptyMap
      /\ view = EmptyMap /\ op = [name |-> "new", arg |-> {}, answer |-> TRUE]
  BY DEF Init
<1>3. Reopened
  BY <1>2 DEF Reopened
<1>4. Planted
  BY <1>2, EmptyIsTree DEF Planted
<1>5. D!DictInit
  BY <1>2 DEF D!DictInit, D!EmptyMap, EmptyMap
<1> QED BY <1>1, <1>3, <1>4, <1>5 DEF Planting

(***************************************************************************)
(* The invariant is inductive.                                             *)
(***************************************************************************)
LEMMA PlantingKept ==
    ASSUME Inserting, Planting, [Next]_vars
    PROVE  Planting'
<1>1. Typing' /\ Leveled' /\ Viewed' /\ Reopened'
  BY NextTyping, NextLeveled, ViewedKept, ReopenedKept DEF Planting, Inserting
<1>2. strayed' \/ Planted'
  BY NextDictionary
<1> QED BY <1>1, <1>2 DEF Planting

(***************************************************************************)
(* It holds in every reachable state.                                      *)
(***************************************************************************)
LEMMA PlantingHolds ==
    ASSUME Inserting
    PROVE  Spec => []Planting
<1>1. Init => Planting
  BY InitPlanting
<1>2. Planting /\ [Next]_vars => Planting'
  BY PlantingKept
<1> QED BY <1>1, <1>2, PTL DEF Spec

(***************************************************************************)
(* The tree under insert, update, insert_batch, persist_root and           *)
(* load_from_storage implements the dictionary: each operation puts        *)
(* exactly its pairs under their keys, however the nodes split, join and   *)
(* collapse, for any keys, values, batches, chunk sizes and hashes, as     *)
(* long as every join takes the next sibling of the node that joins        *)
(* (JoinsNeighbour). So a join with a node elsewhere is the only way in    *)
(* which these operations of the code can lose or alter a pair.            *)
(***************************************************************************)
THEOREM InsertsFormDictionary ==
    ASSUME Inserting
    PROVE  Spec /\ []JoinsNeighbour => ImplementsDictionary
<1>1. Init => D!DictInit
  BY InitPlanting
<1>2. Planting /\ JoinsNeighbour' /\ [Next]_vars => [D!DictNext]_<<view, savedView, op>>
  BY NextDictionary DEF JoinsNeighbour
<1>3. Spec => []Planting
  BY PlantingHolds
<1> QED BY <1>1, <1>2, <1>3, PTL DEF Spec, ImplementsDictionary, D!DictSpec

(***************************************************************************)
(* Under the same hypothesis an insert leaves what find shows of every     *)
(* other key as it was, whatever nodes it splits, joins or collapses on    *)
(* its way.                                                                *)
(***************************************************************************)
THEOREM InsertsChangeOneKey ==
    ASSUME Inserting
    PROVE  Spec /\ []JoinsNeighbour => InsertKeepsOthers
<1> DEFINE A == op'.name = "insert" => \A k \in Keys \ {op'.arg[1]} : At(view', k) = At(view, k)
<1>1. ASSUME Planting, ~strayed', Next PROVE A
  <2> SUFFICES ASSUME op'.name = "insert" PROVE \A k \in Keys \ {op'.arg[1]} : At(view', k) = At(view, k)
    OBVIOUS
  <2>1. PICK k \in Keys, v \in Values : Insert(k, v)
    <3>1. \A name, arg, answer : Call(name, arg, answer) => name = "insert"
      <4>1. \A name, arg, answer : Call(name, arg, answer) => op'.name = name
        BY DEF Call
      <4> QED BY <4>1
    <3>2. \A k \in Keys, v \in Values : ~Update(k, v)
      BY <3>1 DEF Update
    <3>3. \A k \in Keys : ~Delete(k)
      BY <3>1 DEF Delete, DeleteFrom
    <3>4. \A batch \in Batches : ~InsertBatch(batch) /\ ~DeleteBatch(DOMAIN batch)
      BY <3>1 DEF InsertBatch, DeleteBatch
    <3>5. ~PersistRoot /\ ~Reload
      BY <3>1 DEF PersistRoot, Reload
    <3>6. \A s \in roots, b \in roots, resolver \in MergeResolvers : ~MergeTrees(s, b, resolver)
      BY <3>1 DEF MergeTrees
    <3> QED BY <1>1, <3>2, <3>3, <3>4, <3>5, <3>6 DEF Next
  <2>2. D!Insert(k, v)
    BY <1>1, <2>1, InsertDictionary DEF Inserting
  <2>3. view' = D!Override(view, [x \in {k} |-> v]) /\ op'.arg[1] = k
    BY <2>2 DEF D!Insert, D!Step
  <2>4. ASSUME NEW x \in Keys, x # k PROVE At(view', x) = At(view, x)
    BY <2>3, <2>4 DEF D!Override, At
  <2> QED BY <2>3, <2>4
<1>2. Planting /\ JoinsNeighbour' /\ [Next]_vars => [A]_vars
  BY <1>1 DEF JoinsNeighbour
<1>3. Spec => []Planting
  BY PlantingHolds
<1> QED BY <1>2, <1>3, PTL DEF Spec, InsertKeepsOthers

-----------------------------------------------------------------------------
(* Order: what the nodes below a node hold                                 *)

(***************************************************************************)
(* The values of a node of level e are stored digests of rows of level f   *)
(* below it, and their pairs those of the items.                           *)
(***************************************************************************)
Lower(n, lo, e, f, st) ==
    /\ ~n.leaf
    /\ \A i \in 1..Len(n.vals) :
         /\ n.vals[i] \in DOMAIN st /\ n.vals[i] \in Level[f] /\ n.vals[i] \in Digests
         /\ LowAt(Hash(n), lo, i) \in Nat
         /\ Row(n.vals[i], LowAt(Hash(n), lo, i), Layer[f])
         /\ PartAt(Hash(n), i, Layer[e]) = Within(n.vals[i], Layer[f])

(***************************************************************************)
(* So it is in every row above the leaves.                                 *)
(***************************************************************************)
LEMMA RowDown ==
    ASSUME NEW st, NEW n \in Node, NEW f \in Nat, NEW e, e = f + 1, Fits(n, e, st),
           NEW lo \in Nat, Row(Hash(n), lo, Layer[e])
    PROVE  Lower(n, lo, e, f, st)
<1> DEFINE h == Hash(n)
<1>1. h \in Digests /\ h[1] = n.keys /\ h[2] = n.vals /\ Len(n.vals) = Len(n.keys) /\ h = Hash(n)
  BY NodeFields
<1>2. e # 0 /\ e > 0 /\ e - 1 = f /\ e \in Nat
  OBVIOUS
<1> HIDE DEF h
<1>3. ~n.leaf /\ \A i \in 1..Len(n.vals) : n.vals[i] \in Level[f] \cap DOMAIN st
  BY <1>2 DEF Fits, Holds, Below
<1>4. ASSUME NEW i \in 1..Len(n.vals)
      PROVE  /\ n.vals[i] \in DOMAIN st /\ n.vals[i] \in Level[f] /\ n.vals[i] \in Digests
             /\ LowAt(h, lo, i) \in Nat
             /\ Row(n.vals[i], LowAt(h, lo, i), Layer[f])
             /\ PartAt(h, i, Layer[e]) = Within(n.vals[i], Layer[f])
  <2>1. i \in 1..Len(h[1]) /\ h[2][i] = n.vals[i]
    BY <1>1
  <2>2. ItemAt(h, lo, i, Layer[e])
    BY <1>1, <2>1 DEF Row
  <2>3. <<n.vals[i], LowAt(h, lo, i)>> \in Layer[e].ok
    BY <2>1, <2>2 DEF ItemAt
  <2>4. /\ Paired(n.vals[i]) /\ LowAt(h, lo, i) \in Nat
        /\ Row(n.vals[i], LowAt(h, lo, i), Layer[f])
    BY <2>3, LayerOk
  <2>5. h[1][i] \in Keys
    BY <1>1, <2>1, DigestIs
  <2>6. PartAt(h, i, Layer[e]) = Layer[e].part[<<h[1][i], n.vals[i]>>]
    BY <2>1 DEF PartAt
  <2>7. PartAt(h, i, Layer[e]) = Within(n.vals[i], Layer[f])
    BY <2>4, <2>5, <2>6, LayerUp
  <2> QED BY <1>3, <2>4, <2>7 DEF Paired
<1> QED BY <1>1, <1>3, <1>4 DEF Lower

(***************************************************************************)
(* The keys below a leaf are its own.                                      *)
(***************************************************************************)
LEMMA GroundKeys ==
    ASSUME NEW st, NEW n \in Node, Fits(n, 0, st)
    PROVE  /\ \A i \in 1..Len(n.keys) : PartAt(Hash(n), i, Layer[0]) = {<<n.keys[i], n.vals[i]>>}
           /\ \A x : x \in KeysOf(Within(Hash(n), Layer[0])) <=> x \in Range(n.keys)
           /\ ~n.leaf => n.vals = <<>> /\ n.keys = <<>>
<1> DEFINE h == Hash(n)
<1>1. h \in Digests /\ h[1] = n.keys /\ h[2] = n.vals /\ Len(n.vals) = Len(n.keys) /\ h = Hash(n)
      /\ n.keys \in Seq(Keys) /\ n.vals \in Seq(Universe) /\ Len(n.keys) \in Nat
  BY NodeFields
<1> HIDE DEF h
<1>2. ASSUME NEW i \in 1..Len(n.keys)
      PROVE  PartAt(h, i, Layer[0]) = {<<n.keys[i], n.vals[i]>>}
  <2>1. n.vals[i] \in Values /\ n.keys[i] \in Keys
    BY <1>1 DEF Fits, Holds, Below
  <2> QED BY <1>1, <2>1, BottomIs DEF PartAt
<1>3. ASSUME NEW x PROVE x \in KeysOf(Within(h, Layer[0])) <=> x \in Range(n.keys)
  <2>1. x \in KeysOf(Within(h, Layer[0])) <=> \E i \in 1..Len(h[1]) : x \in KeysOf(PartAt(h, i, Layer[0]))
    BY WithinHas
  <2>2. ASSUME NEW i \in 1..Len(n.keys) PROVE x \in KeysOf(PartAt(h, i, Layer[0])) <=> x = n.keys[i]
    <3>1. \A z : z \in KeysOf({<<n.keys[i], n.vals[i]>>}) <=> z = n.keys[i]
      BY DEF KeysOf
    <3> QED BY <1>2, <3>1
  <2>3. DOMAIN n.keys = 1..Len(n.keys)
    BY <1>1, LenProperties
  <2>4. x \in Range(n.keys) <=> \E i \in 1..Len(n.keys) : n.keys[i] = x
    BY <2>3 DEF Range
  <2> QED BY <1>1, <2>1, <2>2, <2>4
<1>4. ~n.leaf => n.vals = <<>> /\ n.keys = <<>>
  <2> SUFFICES ASSUME ~n.leaf PROVE n.vals = <<>> /\ n.keys = <<>>
    OBVIOUS
  <2>1. n.vals = <<>>
    BY DEF Fits
  <2>2. Len(n.keys) = 0
    <3>1. Len(<<>>) = 0
      OBVIOUS
    <3> QED BY <1>1, <2>1, <3>1
  <2>3. n.keys = <<>>
    BY <1>1, <2>2, EmptySeq
  <2> QED BY <2>1, <2>3
<1> QED BY <1>1, <1>2, <1>3, <1>4

(***************************************************************************)
(* The keys of a set of nodes include those of the pairs W and no others.  *)
(***************************************************************************)
Collected(S, W) == \A x : x \in KeysOf(W) <=> \E m \in S : x \in Range(m.keys)

(***************************************************************************)
(* The nodes below one node, from those below its children: every          *)
(* separator is a key of some leaf.                                        *)
(***************************************************************************)
LEMMA NodesRow ==
    ASSUME NEW st \in Stores, NEW n \in Node, NEW e \in Nat, Fits(n, e, st), NEW lo \in Nat,
           Row(Hash(n), lo, Layer[e]), NEW below,
           \A f \in Nat, low \in Nat, h \in DOMAIN st :
             e = f + 1 /\ h \in Level[f] /\ Row(h, low, Layer[f]) => Collected(below[h], Within(h, Layer[f]))
    PROVE  Collected(NodesFrom(n, st, below), Within(Hash(n), Layer[e]))
<1> DEFINE h == Hash(n)
           W == Within(h, Layer[e])
           S == NodesFrom(n, st, below)
<1>1. /\ h \in Digests /\ h[1] = n.keys /\ h[2] = n.vals /\ Len(n.vals) = Len(n.keys) /\ h = Hash(n)
      /\ n.keys \in Seq(Keys) /\ n.vals \in Seq(Universe) /\ Len(n.keys) \in Nat /\ n.leaf \in BOOLEAN
  BY NodeFields
<1> HIDE DEF h
<1>2. DOMAIN n.keys = 1..Len(n.keys) /\ DOMAIN n.vals = 1..Len(n.keys)
  BY <1>1, LenProperties
<1>3. \A x : x \in Range(n.keys) <=> \E i \in 1..Len(n.keys) : n.keys[i] = x
  BY <1>2 DEF Range
<1>4. \A g : g \in Range(n.vals) <=> \E i \in 1..Len(n.keys) : n.vals[i] = g
  BY <1>2 DEF Range
<1>5. \A x : x \in KeysOf(W) <=> \E i \in 1..Len(n.keys) : x \in KeysOf(PartAt(h, i, Layer[e]))
  BY <1>1, WithinHas
<1>6. CASE e = 0
  <2>1. S = {n}
    <3>1. Range(<<>>) = {}
      BY DEF Range
    <3>2. n.leaf \/ Range(n.vals) = {}
      BY <1>6, <3>1, GroundKeys
    <3>3. (IF n.leaf THEN {} ELSE Range(n.vals) \cap DOMAIN st) = {}
      BY <3>2
    <3> QED BY <3>3 DEF NodesFrom
  <2>2. \A x : x \in KeysOf(W) <=> x \in Range(n.keys)
    BY <1>1, <1>6, GroundKeys
  <2> QED BY <1>1, <2>1, <2>2 DEF Collected
<1>7. CASE e # 0
  <2>1. PICK f \in Nat : e = f + 1
    <3>1. e - 1 \in Nat /\ e = (e - 1) + 1
      BY <1>7
    <3> QED BY <3>1
  <2>2. /\ ~n.leaf
        /\ \A i \in 1..Len(n.vals) :
             /\ n.vals[i] \in DOMAIN st /\ n.vals[i] \in Level[f]
             /\ LowAt(h, lo, i) \in Nat
             /\ Row(n.vals[i], LowAt(h, lo, i), Layer[f])
             /\ PartAt(h, i, Layer[e]) = Within(n.vals[i], Layer[f])
    <3>1. Lower(n, lo, e, f, st)
      BY <2>1, RowDown
    <3> QED BY <1>1, <3>1 DEF Lower
  <2>3. ASSUME NEW i \in 1..Len(n.keys) PROVE Collected(below[n.vals[i]], PartAt(h, i, Layer[e]))
    BY <1>1, <2>1, <2>2
  <2>4. \A m : m \in S <=> m = n \/ \E i \in 1..Len(n.keys) : m \in below[n.vals[i]]
    <3>1. S = {n} \cup UNION {below[g] : g \in Range(n.vals) \cap DOMAIN st}
      BY <2>2 DEF NodesFrom
    <3>2. \A i \in 1..Len(n.keys) : n.vals[i] \in Range(n.vals) \cap DOMAIN st
      BY <1>1, <1>4, <2>2
    <3> QED BY <1>4, <3>1, <3>2
  <2> HIDE DEF S, W
  <2>5. \A i \in 1..Len(n.keys) : n.keys[i] \in KeysOf(PartAt(h, i, Layer[e]))
    BY <1>1 DEF Row, ItemAt
  <2>6. ASSUME NEW x, x \in KeysOf(W) PROVE \E m \in S : x \in Range(m.keys)
    <3>1. PICK i \in 1..Len(n.keys) : x \in KeysOf(PartAt(h, i, Layer[e]))
      BY <1>5, <2>6
    <3>2. PICK m \in below[n.vals[i]] : x \in Range(m.keys)
      BY <2>3, <3>1 DEF Collected
    <3> QED BY <2>4, <3>2
  <2>7. ASSUME NEW x, NEW m \in S, x \in Range(m.keys) PROVE x \in KeysOf(W)
    <3>1. CASE m = n
      <4>1. PICK i \in 1..Len(n.keys) : n.keys[i] = x
        BY <1>3, <2>7, <3>1
      <4> QED BY <1>5, <2>5, <4>1
    <3>2. CASE m # n
      <4>1. PICK i \in 1..Len(n.keys) : m \in below[n.vals[i]]
        BY <2>4, <3>2
      <4>2. x \in KeysOf(PartAt(h, i, Layer[e]))
        BY <2>3, <2>7, <4>1 DEF Collected
      <4> QED BY <1>5, <4>2
    <3> QED BY <3>1, <3>2
  <2>8. Collected(S, W)
    BY <2>6, <2>7 DEF Collected
  <2> QED BY <1>1, <2>8 DEF S, W
<1> QED BY <1>6, <1>7

-----------------------------------------------------------------------------
(* Order: leaves in a row                                                  *)

(***************************************************************************)
(* A member of a sequence.                                                 *)
(***************************************************************************)
Has(s, x) == \E i \in 1..Len(s) : s[i] = x

(***************************************************************************)
(* A key of one of several leaves.                                         *)
(***************************************************************************)
HasKey(ls, x) == \E i \in 1..Len(ls) : Has(ls[i].keys, x)

(***************************************************************************)
(* Leaves in order: the keys of each increase, all keys of one are below   *)
(* those of the next, and together they are K.                             *)
(***************************************************************************)
Arranged(ls, K) ==
    /\ ls \in Seq(Node)
    /\ \A i \in 1..Len(ls) : Rising(ls[i].keys)
    /\ \A i, j \in 1..Len(ls) : i < j => \A x, y : Has(ls[i].keys, x) /\ Has(ls[j].keys, y) => x < y
    /\ \A x : x \in K <=> HasKey(ls, x)

(***************************************************************************)
(* Leaves followed by leaves with larger keys.                             *)
(***************************************************************************)
LEMMA ArrangedJoin ==
    ASSUME NEW a, NEW b, NEW K, NEW M, Arranged(a, K), Arranged(b, M),
           \A x \in K, y \in M : x < y,
           NEW U, \A z : z \in U <=> z \in K \/ z \in M
    PROVE  Arranged(a \o b, U)
<1> DEFINE r == a \o b
<1>1. a \in Seq(Node) /\ b \in Seq(Node)
  BY DEF Arranged
<1>2. Joins(r, a, b, Node)
  BY <1>1, Joined
<1> HIDE DEF r
<1>3. /\ r \in Seq(Node) /\ Len(a) \in Nat /\ Len(b) \in Nat /\ Len(r) = Len(a) + Len(b)
      /\ \A i \in 1..Len(a) : r[i] = a[i]
      /\ \A i \in 1..Len(b) : r[Len(a) + i] = b[i]
  BY <1>2 DEF Joins
<1>4. ASSUME NEW i \in 1..Len(r)
      PROVE  \/ i \in 1..Len(a) /\ r[i] = a[i]
             \/ i - Len(a) \in 1..Len(b) /\ r[i] = b[i - Len(a)] /\ i > Len(a)
  <2>1. CASE i <= Len(a)
    BY <1>3, <2>1
  <2>2. CASE i > Len(a)
    <3>1. i - Len(a) \in 1..Len(b) /\ Len(a) + (i - Len(a)) = i
      BY <1>3, <2>2
    <3> QED BY <1>3, <2>2, <3>1
  <2> QED BY <1>3, <2>1, <2>2
<1>5. \A i \in 1..Len(r) : Rising(r[i].keys)
  BY <1>4 DEF Arranged
<1>6. ASSUME NEW i \in 1..Len(r), NEW j \in 1..Len(r), i < j, NEW x, NEW y,
             Has(r[i].keys, x), Has(r[j].keys, y)
      PROVE  x < y
  <2>1. CASE j <= Len(a)
    <3>1. i \in 1..Len(a) /\ j \in 1..Len(a) /\ r[i] = a[i] /\ r[j] = a[j]
      BY <1>3, <1>6, <2>1
    <3> QED BY <1>6, <3>1 DEF Arranged
  <2>2. CASE i > Len(a)
    <3>1. /\ i - Len(a) \in 1..Len(b) /\ r[i] = b[i - Len(a)]
          /\ j - Len(a) \in 1..Len(b) /\ r[j] = b[j - Len(a)]
          /\ i - Len(a) < j - Len(a)
      BY <1>3, <1>4, <1>6, <2>2
    <3> QED BY <1>6, <3>1 DEF Arranged
  <2>3. CASE i <= Len(a) /\ j > Len(a)
    <3>1. i \in 1..Len(a) /\ r[i] = a[i] /\ j - Len(a) \in 1..Len(b) /\ r[j] = b[j - Len(a)]
      BY <1>3, <1>4, <1>6, <2>3
    <3>2. HasKey(a, x) /\ HasKey(b, y)
      BY <1>6, <3>1 DEF HasKey
    <3>3. x \in K /\ y \in M
      BY <3>2 DEF Arranged
    <3> QED BY <3>3
  <2> QED BY <1>3, <1>6, <2>1, <2>2, <2>3
<1>7. ASSUME NEW z PROVE z \in U <=> HasKey(r, z)
  <2>1. ASSUME HasKey(r, z) PROVE HasKey(a, z) \/ HasKey(b, z)
    BY <1>4, <2>1 DEF HasKey
  <2>2. ASSUME HasKey(a, z) PROVE HasKey(r, z)
    <3>1. PICK i \in 1..Len(a) : Has(a[i].keys, z)
      BY <2>2 DEF HasKey
    <3>2. i \in 1..Len(r) /\ r[i] = a[i]
      BY <1>3
    <3> QED BY <3>1, <3>2 DEF HasKey
  <2>3. ASSUME HasKey(b, z) PROVE HasKey(r, z)
    <3>1. PICK i \in 1..Len(b) : Has(b[i].keys, z)
      BY <2>3 DEF HasKey
    <3>2. Len(a) + i \in 1..Len(r) /\ r[Len(a) + i] = b[i]
      BY <1>3
    <3> QED BY <3>1, <3>2 DEF HasKey
  <2>4. (z \in K <=> HasKey(a, z)) /\ (z \in M <=> HasKey(b, z))
    BY DEF Arranged
  <2> QED BY <2>1, <2>2, <2>3, <2>4
<1>8. Arranged(r, U)
  BY <1>3, <1>5, <1>6, <1>7 DEF Arranged
<1> QED BY <1>8 DEF r

(***************************************************************************)
(* The keys below the first items of a row.                                *)
(***************************************************************************)
UpTo(h, L, i) == UNION {KeysOf(PartAt(h, j, L)) : j \in 1..i}

(***************************************************************************)
(* They are smaller than those below the next item.                        *)
(***************************************************************************)
LEMMA RowOrder ==
    ASSUME NEW L \in Layers, NEW h \in Digests, NEW lo \in Nat, Row(h, lo, L), NEW i \in 2..Len(h[1])
    PROVE  \A x \in UpTo(h, L, i - 1), y \in KeysOf(PartAt(h, i, L)) : x < y
<1> SUFFICES ASSUME NEW x \in UpTo(h, L, i - 1), NEW y \in KeysOf(PartAt(h, i, L)) PROVE x < y
  OBVIOUS
<1>1. PICK j \in 1..(i - 1) : x \in KeysOf(PartAt(h, j, L))
  BY DEF UpTo
<1>2. Len(h[1]) \in Nat /\ h[1][i] \in Nat /\ i \in 1..Len(h[1]) /\ i # 1
  BY DigestIs
<1>3. j \in 1..Len(h[1]) /\ j < i
  BY <1>1, <1>2
<1>4. x < h[1][i]
  BY <1>1, <1>2, <1>3 DEF Row, Apart
<1>5. h[1][i] <= y
  BY <1>2 DEF Row, ItemAt, LowAt
<1>6. x \in Nat /\ y \in Nat
  BY <1>1, <1>2, <1>3, RowItems
<1> QED BY <1>2, <1>4, <1>5, <1>6

(***************************************************************************)
(* The leaves below the items of a row, one after the other.               *)
(***************************************************************************)
LEMMA LeavesFlat ==
    ASSUME NEW L \in Layers, NEW h \in Digests, NEW lo \in Nat, Row(h, lo, L),
           NEW ss, NEW N \in Nat \ {0}, N = Len(ss), N = Len(h[1]),
           \A i \in 1..N : Arranged(ss[i], KeysOf(PartAt(h, i, L)))
    PROVE  Arranged(FlattenSeq(ss), KeysOf(Within(h, L)))
<1> DEFINE A(i) == {ls \in Seq(Node) : Arranged(ls, UpTo(h, L, i))}
           V == [i \in 1..N |-> A(i)]
<1>1. \A i \in 1..N : V[i] = A(i)
  OBVIOUS
<1> HIDE DEF V
<1>2. 1 \in 1..N /\ N \in 1..N /\ \A i \in 2..N : i \in 1..N /\ i - 1 \in 1..N /\ i \in 2..Len(h[1])
  OBVIOUS
<1>3. ss[1] \in V[1]
  <2>1. \A x : x \in UpTo(h, L, 1) <=> x \in KeysOf(PartAt(h, 1, L))
    <3>1. \A j : j \in 1..1 <=> j = 1
      OBVIOUS
    <3> QED BY <3>1 DEF UpTo
  <2>2. Arranged(ss[1], KeysOf(PartAt(h, 1, L)))
    BY <1>2
  <2>3. Arranged(ss[1], UpTo(h, L, 1))
    BY <2>1, <2>2 DEF Arranged
  <2>4. ss[1] \in Seq(Node)
    BY <2>2 DEF Arranged
  <2> QED BY <1>1, <1>2, <2>3, <2>4
<1>4. ASSUME NEW i \in 2..N, NEW v \in V[i - 1] PROVE v \o ss[i] \in V[i]
  <2> DEFINE K == UpTo(h, L, i - 1)
             M == KeysOf(PartAt(h, i, L))
             U == UpTo(h, L, i)
  <2>1. Arranged(v, K) /\ Arranged(ss[i], M)
    BY <1>1, <1>2, <1>4
  <2>2. \A x \in K, y \in M : x < y
    BY <1>2, RowOrder
  <2>3. \A z : z \in U <=> z \in K \/ z \in M
    <3>1. \A j : j \in 1..i <=> j \in 1..(i - 1) \/ j = i
      BY <1>2
    <3> QED BY <3>1 DEF UpTo
  <2> HIDE DEF K, M, U
  <2>4. Arranged(v \o ss[i], U)
    BY <2>1, <2>2, <2>3, ArrangedJoin
  <2>5. v \o ss[i] \in Seq(Node)
    BY <2>4 DEF Arranged
  <2> QED BY <1>1, <1>2, <2>4, <2>5 DEF U
<1>5. FlattenSteps(ss, N, V)
  BY <1>3, <1>4 DEF FlattenSteps
<1>6. FlattenSeq(ss) \in V[N]
  BY <1>5, FlattenInto
<1>7. Arranged(FlattenSeq(ss), UpTo(h, L, N))
  BY <1>1, <1>2, <1>6
<1>8. \A x : x \in UpTo(h, L, N) <=> x \in KeysOf(Within(h, L))
  BY WithinHas DEF UpTo
<1> QED BY <1>7, <1>8 DEF Arranged

-----------------------------------------------------------------------------
(* Order: the leaves below a node                                          *)

(***************************************************************************)
(* The leaves below one node, from those below its children.               *)
(***************************************************************************)
LEMMA LeavesRow ==
    ASSUME NEW st \in Stores, NEW n \in Node, NEW e \in Nat, Fits(n, e, st), NEW lo \in Nat,
           Row(Hash(n), lo, Layer[e]), NEW below,
           \A f \in Nat, low \in Nat, h \in DOMAIN st :
             e = f + 1 /\ h \in Level[f] /\ Row(h, low, Layer[f])
               => Arranged(below[h], KeysOf(Within(h, Layer[f])))
    PROVE  Arranged(LeavesFrom(n, st, below), KeysOf(Within(Hash(n), Layer[e])))
<1> DEFINE h == Hash(n)
           K == KeysOf(Within(h, Layer[e]))
           S == LeavesFrom(n, st, below)
           ss == [i \in 1..Len(n.vals) |-> IF n.vals[i] \in DOMAIN st THEN below[n.vals[i]] ELSE <<>>]
<1>1. /\ h \in Digests /\ h[1] = n.keys /\ h[2] = n.vals /\ Len(n.vals) = Len(n.keys) /\ h = Hash(n)
      /\ n.keys \in Seq(Keys) /\ n.vals \in Seq(Universe) /\ Len(n.keys) \in Nat /\ n.leaf \in BOOLEAN
  BY NodeFields
<1>2. S = IF n.leaf THEN <<n>> ELSE FlattenSeq(ss)
  BY DEF LeavesFrom
<1>3. /\ Len(ss) = Len(n.keys)
      /\ \A i \in 1..Len(n.keys) : n.vals[i] \in DOMAIN st => ss[i] = below[n.vals[i]]
  <2> DEFINE X == {ss[i] : i \in 1..Len(n.vals)}
  <2>1. ss \in [1..Len(n.vals) -> X]
    OBVIOUS
  <2>2. Len(n.vals) \in Nat /\ DOMAIN ss = 1..Len(n.vals)
    BY <1>1
  <2>3. Len(ss) = Len(n.vals)
    <3> HIDE DEF ss, X
    <3>1. ss \in Seq(X)
      BY <2>1, <2>2, SeqDef
    <3>2. Len(ss) \in Nat /\ DOMAIN ss = 1..Len(ss)
      BY <3>1, LenProperties
    <3> QED BY <2>2, <3>2
  <2> QED BY <1>1, <2>3
<1> HIDE DEF h, ss
<1>4. CASE e = 0
  <2>1. \A x : x \in K <=> Has(n.keys, x)
    <3>1. \A x : x \in K <=> x \in Range(n.keys)
      BY <1>1, <1>4, GroundKeys
    <3>2. DOMAIN n.keys = 1..Len(n.keys)
      BY <1>1, LenProperties
    <3> QED BY <3>1, <3>2 DEF Has, Range
  <2> HIDE DEF K, S
  <2>2. CASE n.leaf
    <3> DEFINE q == <<n>>
    <3>1. q \in Seq(Node) /\ Len(q) = 1 /\ q[1] = n /\ S = q
      BY <1>2, <2>2
    <3> HIDE DEF q
    <3>2. Rising(n.keys)
      <4>1. \A i, j \in 1..Len(h[1]) : i < j => h[1][i] < h[1][j]
        BY <1>1, LayerIs, RowItems
      <4> QED BY <1>1, <4>1 DEF Rising
    <3>3. \A i \in 1..Len(q) : i = 1
      BY <3>1
    <3>4. \A x : HasKey(q, x) <=> Has(n.keys, x)
      BY <3>1, <3>3 DEF HasKey
    <3>5. \A i, j \in 1..Len(q) : ~(i < j)
      BY <3>3
    <3>6. Arranged(S, K)
      BY <2>1, <3>1, <3>2, <3>3, <3>4, <3>5 DEF Arranged
    <3> QED BY <3>6 DEF K, S, h
  <2>3. CASE ~n.leaf
    <3>1. n.keys = <<>>
      BY <1>4, <2>3, GroundKeys
    <3>2. Len(n.keys) = 0
      <4>1. Len(<<>>) = 0
        OBVIOUS
      <4> QED BY <3>1, <4>1
    <3>3. S = ss
      BY <1>2, <1>3, <2>3, <3>2 DEF FlattenSeq
    <3>4. ss = <<>>
      <4>1. Len(n.vals) = 0
        BY <1>1, <3>2
      <4>2. 1..0 = {}
        OBVIOUS
      <4> QED BY <4>1, <4>2 DEF ss
    <3>5. S \in Seq(Node) /\ Len(S) = 0
      BY <3>3, <3>4
    <3>6. \A i \in 1..Len(S) : FALSE
      BY <3>5
    <3>7. \A x : ~HasKey(S, x)
      BY <3>6 DEF HasKey
    <3>8. \A x : ~Has(n.keys, x)
      BY <3>2 DEF Has
    <3> QED BY <2>1, <3>5, <3>6, <3>7, <3>8 DEF Arranged, K, S, h
  <2> QED BY <1>1, <2>2, <2>3
<1>5. CASE e # 0
  <2>1. PICK f \in Nat : e = f + 1
    <3>1. e - 1 \in Nat /\ e = (e - 1) + 1
      BY <1>5
    <3> QED BY <3>1
  <2>2. Lower(n, lo, e, f, st)
    BY <2>1, RowDown
  <2>3. /\ ~n.leaf
        /\ \A i \in 1..Len(n.vals) :
             /\ n.vals[i] \in DOMAIN st /\ n.vals[i] \in Level[f]
             /\ LowAt(h, lo, i) \in Nat
             /\ Row(n.vals[i], LowAt(h, lo, i), Layer[f])
             /\ PartAt(h, i, Layer[e]) = Within(n.vals[i], Layer[f])
    BY <1>1, <2>2 DEF Lower
  <2> DEFINE N == Len(n.keys)
             L == Layer[e]
  <2>4. ASSUME NEW i \in 1..N PROVE Arranged(ss[i], KeysOf(PartAt(h, i, L)))
    <3>1. Arranged(below[n.vals[i]], KeysOf(Within(n.vals[i], Layer[f])))
      BY <1>1, <2>1, <2>3
    <3> QED BY <1>1, <1>3, <2>3, <3>1
  <2>5. n.vals # <<>>
    BY <2>1 DEF Fits
  <2>6. N \in Nat \ {0} /\ N = Len(ss) /\ N = Len(h[1])
    <3>1. Len(n.vals) # 0
      BY <1>1, <2>5, EmptySeq
    <3> QED BY <1>1, <1>3, <3>1
  <2>7. L \in Layers /\ Row(h, lo, L) /\ L = Layer[e]
    BY <1>1, LayerIs
  <2> HIDE DEF N, L
  <2>8. Arranged(FlattenSeq(ss), KeysOf(Within(h, L)))
    BY <1>1, <2>4, <2>6, <2>7, LeavesFlat
  <2>9. S = FlattenSeq(ss)
    BY <1>2, <2>3
  <2> HIDE DEF S
  <2> QED BY <1>1, <2>7, <2>8, <2>9 DEF S
<1> QED BY <1>4, <1>5

-----------------------------------------------------------------------------
(* Order: the recursions that collect leaves and nodes                     *)

(***************************************************************************)
(* The sequences of leaves that are in order, for one stored digest and    *)
(* levels below d.                                                         *)
(***************************************************************************)
KeyedLeaves(d, h) ==
    {ls \in Seq(Node) :
       \A e \in 0..(d - 1), low \in Nat : h \in Level[e] /\ Row(h, low, Layer[e])
         => Arranged(ls, KeysOf(Within(h, Layer[e])))}

(***************************************************************************)
(* The family of them for the induction.                                   *)
(***************************************************************************)
LeavesByDepth(C, N) == [d \in 0..N |-> [c \in C |-> KeyedLeaves(d, c)]]

(***************************************************************************)
(* Its members.                                                            *)
(***************************************************************************)
LEMMA LeavesByDepthIs ==
    ASSUME NEW C, NEW N \in Nat
    PROVE  \A d \in 0..N : \A c \in C : LeavesByDepth(C, N)[d][c] = KeyedLeaves(d, c)
BY DEF LeavesByDepth

(***************************************************************************)
(* One step of the recursion stays within the family.                      *)
(***************************************************************************)
LEMMA KeyedLeavesGrow ==
    ASSUME NEW st \in Stores, Sound(st), NEW d \in Nat, NEW h \in DOMAIN st, NEW below,
           \A c \in DOMAIN st : below[c] \in KeyedLeaves(d, c)
    PROVE  LeavesFrom(GetNode(st, h), st, below) \in KeyedLeaves(d + 1, h)
<1> DEFINE n == GetNode(st, h)
           q == LeavesFrom(n, st, below)
<1>1. n \in Node /\ Hash(n) = h /\ n = GetNode(st, h)
  BY StoreFields
<1>2. q \in Seq(Node)
  <2>1. \A c \in DOMAIN st : below[c] \in Seq(Node)
    BY DEF KeyedLeaves
  <2> QED BY <1>1, <2>1, LeavesFromType
<1> HIDE DEF n, q
<1>3. ASSUME NEW e \in 0..((d + 1) - 1), NEW lo \in Nat, h \in Level[e], Row(h, lo, Layer[e])
      PROVE  Arranged(q, KeysOf(Within(h, Layer[e])))
  <2>1. e \in Nat /\ Fits(n, e, st) /\ Row(Hash(n), lo, Layer[e])
    BY <1>1, <1>3, FitsAgain
  <2>2. ASSUME NEW f \in Nat, NEW low \in Nat, NEW c \in DOMAIN st, e = f + 1, c \in Level[f], Row(c, low, Layer[f])
        PROVE  Arranged(below[c], KeysOf(Within(c, Layer[f])))
    <3>1. f \in 0..(d - 1)
      BY <1>3, <2>2
    <3>2. below[c] \in KeyedLeaves(d, c)
      BY <2>2
    <3> QED BY <2>2, <3>1, <3>2 DEF KeyedLeaves
  <2>3. Arranged(q, KeysOf(Within(Hash(n), Layer[e])))
    BY <1>1, <2>1, <2>2, LeavesRow DEF q
  <2> QED BY <1>1, <2>3
<1>4. q \in KeyedLeaves(d + 1, h)
  BY <1>2, <1>3 DEF KeyedLeaves
<1> QED BY <1>4 DEF q, n

(***************************************************************************)
(* The leaves of a tree are in order and have its keys.                    *)
(***************************************************************************)
LEMMA LeavesArranged ==
    ASSUME NEW st \in Stores, Sound(st), NEW n \in Node, NEW P, Tree(n, st, P)
    PROVE  Arranged(Leaves(n, st), KeysOf(P))
<1>0. PICK e \in Nat : Fits(n, e, st) /\ HoldsAt(n, 0, P, e)
  BY DEF Tree
<1> DEFINE C == DOMAIN st
           N == Cardinality(DOMAIN st)
           G == LeavesByDepth(C, N)
<1>1. /\ N \in Nat /\ 0 \in 0..N /\ N \in 0..N
      /\ \A d \in 1..N : d \in 0..N /\ d - 1 \in 0..N /\ d - 1 \in Nat /\ d - 1 + 1 = d
  BY StoreFields
<1>2. C = DOMAIN st /\ N = Cardinality(DOMAIN st)
  OBVIOUS
<1> HIDE DEF C, N
<1>3. \A d \in 0..N : \A c \in C : G[d][c] = KeyedLeaves(d, c)
  BY <1>1, LeavesByDepthIs
<1> HIDE DEF G
<1>4. ASSUME NEW c \in C PROVE <<>> \in G[0][c]
  <2>1. 0..(0 - 1) = {}
    OBVIOUS
  <2>2. <<>> \in KeyedLeaves(0, c)
    BY <2>1 DEF KeyedLeaves
  <2> QED BY <1>1, <1>3, <2>2
<1>5. ASSUME NEW d \in 1..N, NEW below, Answered(below, C, G[d - 1]), NEW c \in C
      PROVE  LeavesFrom(GetNode(st, c), st, below) \in G[d][c]
  <2> DEFINE b == d - 1
  <2>1. b \in Nat /\ b \in 0..N /\ b + 1 = d /\ Answered(below, C, G[b])
    BY <1>1, <1>5
  <2> HIDE DEF b
  <2>2. ASSUME NEW h \in DOMAIN st PROVE below[h] \in KeyedLeaves(b, h)
    BY <1>2, <1>3, <2>1 DEF Answered
  <2>3. LeavesFrom(GetNode(st, c), st, below) \in KeyedLeaves(b + 1, c)
    BY <1>2, <2>1, <2>2, KeyedLeavesGrow
  <2> QED BY <1>1, <1>3, <2>1, <2>3
<1>6. LeavesSteps(st, C, N, G)
  BY <1>4, <1>5 DEF LeavesSteps
<1>7. PICK below : Answered(below, C, G[N]) /\ Leaves(n, st) = LeavesFrom(n, st, below)
  BY <1>2, <1>6, LeavesInduction
<1>8. ASSUME NEW f \in Nat, NEW low \in Nat, NEW c \in DOMAIN st, e = f + 1, c \in Level[f], Row(c, low, Layer[f])
      PROVE  Arranged(below[c], KeysOf(Within(c, Layer[f])))
  <2>1. f < N
    BY <1>2, <1>8, LevelsStored
  <2>2. f \in 0..(N - 1)
    BY <1>1, <2>1
  <2>3. below[c] \in KeyedLeaves(N, c)
    BY <1>1, <1>2, <1>3, <1>7 DEF Answered
  <2> QED BY <1>8, <2>2, <2>3 DEF KeyedLeaves
<1>9. Row(Hash(n), 0, Layer[e]) /\ P = Within(Hash(n), Layer[e])
  BY <1>0 DEF HoldsAt
<1>10. Arranged(LeavesFrom(n, st, below), KeysOf(Within(Hash(n), Layer[e])))
  BY <1>0, <1>8, <1>9, LeavesRow
<1> QED BY <1>7, <1>9, <1>10

(***************************************************************************)
(* The sets of nodes with the keys of what is below, for one stored digest *)
(* and levels below d.                                                     *)
(***************************************************************************)
KeyedNodes(d, h) ==
    {S \in SUBSET Node :
       \A e \in 0..(d - 1), low \in Nat : h \in Level[e] /\ Row(h, low, Layer[e])
         => Collected(S, Within(h, Layer[e]))}

(***************************************************************************)
(* The family of them for the induction.                                   *)
(***************************************************************************)
NodesByDepth(C, N) == [d \in 0..N |-> [c \in C |-> KeyedNodes(d, c)]]

(***************************************************************************)
(* Its members.                                                            *)
(***************************************************************************)
LEMMA NodesByDepthIs ==
    ASSUME NEW C, NEW N \in Nat
    PROVE  \A d \in 0..N : \A c \in C : NodesByDepth(C, N)[d][c] = KeyedNodes(d, c)
BY DEF NodesByDepth

(***************************************************************************)
(* One step of the recursion stays within the family.                      *)
(***************************************************************************)
LEMMA KeyedNodesGrow ==
    ASSUME NEW st \in Stores, Sound(st), NEW d \in Nat, NEW h \in DOMAIN st, NEW below,
           \A c \in DOMAIN st : below[c] \in KeyedNodes(d, c)
    PROVE  NodesFrom(GetNode(st, h), st, below) \in KeyedNodes(d + 1, h)
<1> DEFINE n == GetNode(st, h)
           q == NodesFrom(n, st, below)
<1>1. n \in Node /\ Hash(n) = h /\ n = GetNode(st, h)
  BY StoreFields
<1>2. q \in SUBSET Node
  <2>1. \A c \in DOMAIN st : below[c] \in SUBSET Node
    BY DEF KeyedNodes
  <2> QED BY <1>1, <2>1 DEF NodesFrom
<1> HIDE DEF n, q
<1>3. ASSUME NEW e \in 0..((d + 1) - 1), NEW lo \in Nat, h \in Level[e], Row(h, lo, Layer[e])
      PROVE  Collected(q, Within(h, Layer[e]))
  <2>1. e \in Nat /\ Fits(n, e, st) /\ Row(Hash(n), lo, Layer[e])
    BY <1>1, <1>3, FitsAgain
  <2>2. ASSUME NEW f \in Nat, NEW low \in Nat, NEW c \in DOMAIN st, e = f + 1, c \in Level[f], Row(c, low, Layer[f])
        PROVE  Collected(below[c], Within(c, Layer[f]))
    <3>1. f \in 0..(d - 1)
      BY <1>3, <2>2
    <3>2. below[c] \in KeyedNodes(d, c)
      BY <2>2
    <3> QED BY <2>2, <3>1, <3>2 DEF KeyedNodes
  <2>3. Collected(q, Within(Hash(n), Layer[e]))
    BY <1>1, <2>1, <2>2, NodesRow DEF q
  <2> QED BY <1>1, <2>3
<1>4. q \in KeyedNodes(d + 1, h)
  BY <1>2, <1>3 DEF KeyedNodes
<1> QED BY <1>4 DEF q, n

(***************************************************************************)
(* The nodes of a tree have its keys, and no other.                        *)
(***************************************************************************)
LEMMA NodesCollected ==
    ASSUME NEW st \in Stores, Sound(st), NEW n \in Node, NEW P, Tree(n, st, P)
    PROVE  Collected(NodesBelow(n, st), P)
<1>0. PICK e \in Nat : Fits(n, e, st) /\ HoldsAt(n, 0, P, e)
  BY DEF Tree
<1> DEFINE C == DOMAIN st
           N == Cardinality(DOMAIN st)
           G == NodesByDepth(C, N)
<1>1. /\ N \in Nat /\ 0 \in 0..N /\ N \in 0..N
      /\ \A d \in 1..N : d \in 0..N /\ d - 1 \in 0..N /\ d - 1 \in Nat /\ d - 1 + 1 = d
  BY StoreFields
<1>2. C = DOMAIN st /\ N = Cardinality(DOMAIN st)
  OBVIOUS
<1> HIDE DEF C, N
<1>3. \A d \in 0..N : \A c \in C : G[d][c] = KeyedNodes(d, c)
  BY <1>1, NodesByDepthIs
<1> HIDE DEF G
<1>4. ASSUME NEW c \in C PROVE {} \in G[0][c]
  <2>1. 0..(0 - 1) = {}
    OBVIOUS
  <2>2. {} \in KeyedNodes(0, c)
    BY <2>1 DEF KeyedNodes
  <2> QED BY <1>1, <1>3, <2>2
<1>5. ASSUME NEW d \in 1..N, NEW below, Answered(below, C, G[d - 1]), NEW c \in C
      PROVE  NodesFrom(GetNode(st, c), st, below) \in G[d][c]
  <2> DEFINE b == d - 1
  <2>1. b \in Nat /\ b \in 0..N /\ b + 1 = d /\ Answered(below, C, G[b])
    BY <1>1, <1>5
  <2> HIDE DEF b
  <2>2. ASSUME NEW h \in DOMAIN st PROVE below[h] \in KeyedNodes(b, h)
    BY <1>2, <1>3, <2>1 DEF Answered
  <2>3. NodesFrom(GetNode(st, c), st, below) \in KeyedNodes(b + 1, c)
    BY <1>2, <2>1, <2>2, KeyedNodesGrow
  <2> QED BY <1>1, <1>3, <2>1, <2>3
<1>6. NodesSteps(st, C, N, G)
  BY <1>4, <1>5 DEF NodesSteps
<1>7. PICK below : Answered(below, C, G[N]) /\ NodesBelow(n, st) = NodesFrom(n, st, below)
  BY <1>2, <1>6, NodesInduction
<1>8. ASSUME NEW f \in Nat, NEW low \in Nat, NEW c \in DOMAIN st, e = f + 1, c \in Level[f], Row(c, low, Layer[f])
      PROVE  Collected(below[c], Within(c, Layer[f]))
  <2>1. f < N
    BY <1>2, <1>8, LevelsStored
  <2>2. f \in 0..(N - 1)
    BY <1>1, <2>1
  <2>3. below[c] \in KeyedNodes(N, c)
    BY <1>1, <1>2, <1>3, <1>7 DEF Answered
  <2> QED BY <1>8, <2>2, <2>3 DEF KeyedNodes
<1>9. Row(Hash(n), 0, Layer[e]) /\ P = Within(Hash(n), Layer[e])
  BY <1>0 DEF HoldsAt
<1>10. Collected(NodesFrom(n, st, below), Within(Hash(n), Layer[e]))
  BY <1>0, <1>8, <1>9, NodesRow
<1> QED BY <1>7, <1>9, <1>10

-----------------------------------------------------------------------------
(* list_keys, the leaves and the nodes of a tree agree                     *)

(***************************************************************************)
(* Increasing keys followed by larger ones that increase.                  *)
(***************************************************************************)
LEMMA RisingJoin ==
    ASSUME NEW s \in Seq(Keys), NEW t \in Seq(Keys), Rising(s), Rising(t),
           \A x, y : Has(s, x) /\ Has(t, y) => x < y
    PROVE  /\ s \o t \in Seq(Keys) /\ Rising(s \o t)
           /\ \A x : Has(s \o t, x) <=> Has(s, x) \/ Has(t, x)
<1> DEFINE r == s \o t
           a == Len(s)
           b == Len(t)
<1>1. Joins(r, s, t, Keys)
  BY Joined
<1>0. a = Len(s) /\ b = Len(t)
  OBVIOUS
<1> HIDE DEF r, a, b
<1>2. /\ r \in Seq(Keys) /\ a \in Nat /\ b \in Nat /\ Len(r) = a + b
      /\ \A i \in 1..a : r[i] = s[i]
      /\ \A i \in 1..b : r[a + i] = t[i]
  BY <1>0, <1>1 DEF Joins
<1>3. ASSUME NEW i \in 1..Len(r)
      PROVE  \/ i \in 1..a /\ r[i] = s[i]
             \/ i > a /\ i - a \in 1..b /\ r[i] = t[i - a]
  <2>1. CASE i <= a
    BY <1>2, <2>1
  <2>2. CASE i > a
    <3>1. i - a \in 1..b /\ a + (i - a) = i
      BY <1>2, <2>2
    <3> QED BY <1>2, <2>2, <3>1
  <2> QED BY <1>2, <2>1, <2>2
<1>4. ASSUME NEW i \in 1..Len(r), NEW j \in 1..Len(r), i < j PROVE r[i] < r[j]
  <2>1. CASE j <= a
    <3>1. i \in 1..a /\ j \in 1..a
      BY <1>2, <1>4, <2>1
    <3> QED BY <1>0, <1>2, <1>4, <3>1 DEF Rising
  <2>2. CASE i > a
    <3>1. i - a \in 1..b /\ j - a \in 1..b /\ i - a < j - a /\ r[i] = t[i - a] /\ r[j] = t[j - a]
      BY <1>2, <1>3, <1>4, <2>2
    <3> QED BY <1>0, <3>1 DEF Rising
  <2>3. CASE i <= a /\ j > a
    <3>1. i \in 1..a /\ r[i] = s[i] /\ j - a \in 1..b /\ r[j] = t[j - a]
      BY <1>2, <1>3, <1>4, <2>3
    <3>2. Has(s, r[i]) /\ Has(t, r[j])
      BY <1>0, <3>1 DEF Has
    <3> QED BY <3>2
  <2> QED BY <1>2, <1>4, <2>1, <2>2, <2>3
<1>5. ASSUME NEW x PROVE Has(r, x) <=> Has(s, x) \/ Has(t, x)
  <2>1. ASSUME Has(r, x) PROVE Has(s, x) \/ Has(t, x)
    BY <1>0, <1>3, <2>1 DEF Has
  <2>2. ASSUME Has(s, x) PROVE Has(r, x)
    <3>1. PICK i \in 1..a : s[i] = x
      BY <1>0, <2>2 DEF Has
    <3>2. i \in 1..Len(r) /\ r[i] = x
      BY <1>2, <3>1
    <3> QED BY <3>2 DEF Has
  <2>3. ASSUME Has(t, x) PROVE Has(r, x)
    <3>1. PICK i \in 1..b : t[i] = x
      BY <1>0, <2>3 DEF Has
    <3>2. a + i \in 1..Len(r) /\ r[a + i] = x
      BY <1>2, <3>1
    <3> QED BY <3>2 DEF Has
  <2> QED BY <2>1, <2>2, <2>3
<1>6. Rising(r)
  BY <1>4 DEF Rising
<1> QED BY <1>2, <1>5, <1>6 DEF r

(***************************************************************************)
(* A key of one of the first leaves.                                       *)
(***************************************************************************)
HasUpTo(ls, i, x) == \E j \in 1..i : Has(ls[j].keys, x)

(***************************************************************************)
(* A sequence of the keys K in increasing order.                           *)
(***************************************************************************)
KeysInOrder(s, K) == s \in Seq(Keys) /\ Rising(s) /\ \A x : x \in K <=> Has(s, x)

(***************************************************************************)
(* The keys of the leaves of a tree, one leaf after the other, increase.   *)
(***************************************************************************)
LEMMA LeafKeysInOrder ==
    ASSUME NEW st \in Stores, NEW n \in Node, NEW K, Arranged(Leaves(n, st), K)
    PROVE  KeysInOrder(LeafKeys(n, st), K)
<1> DEFINE ls == Leaves(n, st)
           N == Len(ls)
           ss == [i \in 1..N |-> ls[i].keys]
<1>0. LeafKeys(n, st) = FlattenSeq(ss)
  BY DEF LeafKeys
<1>1. ls \in Seq(Node) /\ Arranged(ls, K)
  BY LeavesType
<1> HIDE DEF ls
<1>2. N \in Nat /\ \A i \in 1..N : ls[i] \in Node /\ ls[i].keys \in Seq(Keys) /\ Rising(ls[i].keys)
  BY <1>1, NodeFields, LenProperties, ElementOfSeq DEF Arranged
<1>3. \A i, j \in 1..N : i < j => \A x, y : Has(ls[i].keys, x) /\ Has(ls[j].keys, y) => x < y
  BY <1>1 DEF Arranged
<1>4. \A x : x \in K <=> HasUpTo(ls, N, x)
  BY <1>1 DEF Arranged, HasKey, HasUpTo
<1>5. Len(ss) = N /\ \A i \in 1..N : ss[i] = ls[i].keys
  <2>1. ss \in [1..N -> Seq(Keys)]
    BY <1>2
  <2> HIDE DEF N
  <2>2. ss \in Seq(Seq(Keys)) /\ DOMAIN ss = 1..N
    BY <1>2, <2>1, SeqDef
  <2>3. \A i \in 1..N : ss[i] = ls[i].keys
    OBVIOUS
  <2> HIDE DEF ss
  <2>4. Len(ss) \in Nat /\ DOMAIN ss = 1..Len(ss)
    BY <2>2, LenProperties
  <2> QED BY <1>2, <2>2, <2>3, <2>4
<1>6. CASE N = 0
  <2>1. FlattenSeq(ss) = ss
    BY <1>5, <1>6 DEF FlattenSeq
  <2>2. ss = <<>>
    <3>1. 1..0 = {}
      OBVIOUS
    <3> QED BY <1>6, <3>1
  <2>3. ss \in Seq(Keys) /\ Len(ss) = 0
    BY <1>5, <1>6, <2>2
  <2> HIDE DEF ss
  <2>4. Rising(ss) /\ \A x : ~Has(ss, x)
    BY <2>3 DEF Rising, Has
  <2>5. \A x : ~HasUpTo(ls, N, x)
    BY <1>6 DEF HasUpTo
  <2> QED BY <1>0, <1>4, <2>1, <2>3, <2>4, <2>5 DEF KeysInOrder
<1>7. CASE N # 0
  <2> DEFINE A(i) == {s \in Seq(Keys) : Rising(s) /\ \A x : HasUpTo(ls, i, x) <=> Has(s, x)}
             V == [i \in 1..N |-> A(i)]
  <2> HIDE DEF N, ss
  <2>1. \A i \in 1..N : V[i] = A(i)
    OBVIOUS
  <2> HIDE DEF V
  <2>2. N \in Nat \ {0} /\ 1 \in 1..N /\ N \in 1..N /\ \A i \in 2..N : i \in 1..N /\ i - 1 \in 1..N
    BY <1>2, <1>7
  <2>3. ss[1] \in V[1]
    <3>1. \A j : j \in 1..1 <=> j = 1
      OBVIOUS
    <3>2. \A x : HasUpTo(ls, 1, x) <=> Has(ss[1], x)
      BY <1>5, <2>2, <3>1 DEF HasUpTo
    <3> QED BY <1>2, <1>5, <2>1, <2>2, <3>2
  <2>4. ASSUME NEW i \in 2..N, NEW v \in V[i - 1] PROVE v \o ss[i] \in V[i]
    <3>1. v \in Seq(Keys) /\ Rising(v) /\ \A x : HasUpTo(ls, i - 1, x) <=> Has(v, x)
      BY <2>1, <2>2, <2>4
    <3>2. ss[i] \in Seq(Keys) /\ Rising(ss[i]) /\ ss[i] = ls[i].keys
      BY <1>2, <1>5, <2>2
    <3>3. ASSUME NEW x, NEW y, Has(v, x), Has(ss[i], y) PROVE x < y
      <4>1. PICK j \in 1..(i - 1) : Has(ls[j].keys, x)
        BY <3>1, <3>3 DEF HasUpTo
      <4>2. j \in 1..N /\ i \in 1..N /\ j < i
        BY <2>2, <4>1
      <4> QED BY <1>3, <3>2, <3>3, <4>1, <4>2
    <3>4. /\ v \o ss[i] \in Seq(Keys) /\ Rising(v \o ss[i])
          /\ \A x : Has(v \o ss[i], x) <=> Has(v, x) \/ Has(ss[i], x)
      BY <3>1, <3>2, <3>3, RisingJoin
    <3>5. \A x : HasUpTo(ls, i, x) <=> HasUpTo(ls, i - 1, x) \/ Has(ls[i].keys, x)
      <4>1. \A j : j \in 1..i <=> j \in 1..(i - 1) \/ j = i
        BY <2>2
      <4> QED BY <4>1 DEF HasUpTo
    <3>6. \A x : HasUpTo(ls, i, x) <=> Has(v \o ss[i], x)
      BY <3>1, <3>2, <3>4, <3>5
    <3> QED BY <2>1, <2>2, <3>4, <3>6
  <2>5. FlattenSteps(ss, N, V)
    BY <2>3, <2>4 DEF FlattenSteps
  <2>6. FlattenSeq(ss) \in V[N]
    BY <1>5, <2>2, <2>5, FlattenInto
  <2>7. /\ FlattenSeq(ss) \in Seq(Keys) /\ Rising(FlattenSeq(ss))
        /\ \A x : HasUpTo(ls, N, x) <=> Has(FlattenSeq(ss), x)
    BY <2>1, <2>2, <2>6
  <2> QED BY <1>0, <1>4, <2>7 DEF KeysInOrder
<1> QED BY <1>6, <1>7

(***************************************************************************)
(* The two properties in a state of the invariant without stray joins.     *)
(***************************************************************************)
LEMMA PlantingOrders ==
    ASSUME Planting, JoinsNeighbour
    PROVE  LeavesSorted /\ CollectsKeys
<1>1. root \in Node /\ store \in Stores /\ Sound(store) /\ view = Contents(root, store)
  BY DEF Planting, Typing, Leveled, Viewed
<1>2. PICK P : Tree(root, store, P)
  BY DEF Planting, Planted, JoinsNeighbour
<1>3. DOMAIN view = KeysOf(P)
  BY <1>1, <1>2, TreeContents DEF Shows
<1>4. CollectsKeys
  <2>1. Collected(NodesBelow(root, store), P)
    BY <1>1, <1>2, NodesCollected
  <2>2. \A x : x \in CollectKeys(root, store) <=> x \in KeysOf(P)
    BY <2>1 DEF Collected, CollectKeys
  <2> QED BY <1>3, <2>2 DEF CollectsKeys
<1>5. LeavesSorted
  <2> DEFINE ks == LeafKeys(root, store)
  <2>1. Arranged(Leaves(root, store), KeysOf(P))
    BY <1>1, <1>2, LeavesArranged
  <2>2. KeysInOrder(ks, KeysOf(P))
    BY <1>1, <2>1, LeafKeysInOrder
  <2> HIDE DEF ks
  <2>3. ks \in Seq(Keys) /\ Rising(ks) /\ \A x : x \in KeysOf(P) <=> Has(ks, x)
    BY <2>2 DEF KeysInOrder
  <2>4. Len(ks) \in Nat /\ DOMAIN ks = 1..Len(ks)
    BY <2>3, LenProperties
  <2>5. \A i \in 1..(Len(ks) - 1) : ks[i] < ks[i + 1]
    <3>1. \A i \in 1..(Len(ks) - 1) : i \in 1..Len(ks) /\ i + 1 \in 1..Len(ks) /\ i < i + 1
      BY <2>4
    <3> QED BY <2>3, <3>1 DEF Rising
  <2>6. Range(ks) = DOMAIN view
    BY <1>3, <2>3, <2>4 DEF Range, Has
  <2> QED BY <2>5, <2>6 DEF LeavesSorted, ks
<1> QED BY <1>4, <1>5

(***************************************************************************)
(* As long as every join takes the next sibling, the leaves read from left *)
(* to right have their keys in strictly increasing order, no key twice,    *)
(* and they are exactly the keys that find finds: a search that follows    *)
(* separators misses no pair of a leaf. insert and insert_batch only move  *)
(* pairs between neighbours, for any keys, batches, chunk sizes and        *)
(* hashes.                                                                 *)
(***************************************************************************)
THEOREM InsertsKeepLeavesSorted ==
    ASSUME Inserting
    PROVE  Spec => [](JoinsNeighbour => LeavesSorted)
<1>1. Planting => (JoinsNeighbour => LeavesSorted)
  BY PlantingOrders
<1>2. Spec => []Planting
  BY PlantingHolds
<1> QED BY <1>1, <1>2, PTL

(***************************************************************************)
(* As long as every join takes the next sibling, list_keys (collect_keys,  *)
(* which reads the keys of every node, the separators included) answers    *)
(* exactly the keys that find finds: after insertions each separator is a  *)
(* key of a leaf below it.                                                 *)
(***************************************************************************)
THEOREM InsertsCollectKeys ==
    ASSUME Inserting
    PROVE  Spec => [](JoinsNeighbour => CollectsKeys)
<1>1. Planting => (JoinsNeighbour => CollectsKeys)
  BY PlantingOrders
<1>2. Spec => []Planting
  BY PlantingHolds
<1> QED BY <1>1, <1>2, PTL
=============================================================================
