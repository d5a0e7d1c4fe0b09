--------------------------- MODULE KnapsackProofs ---------------------------
(* Theorems about Knapsack: for every catalogue, number of waiting orders   *)
(* and capacity, bundling and the dynamic programme return a best plan.     *)
EXTENDS Knapsack, PlanSelectionProofs, SequenceTheorems

-----------------------------------------------------------------------------
(* The inductive invariant, in parts.                                       *)

(* The arguments of the call do not change. *)
InputsOK ==
  /\ catalogue \in Catalogues
  /\ capacity \in Capacities
  /\ count \in [DOMAIN catalogue -> 0..MaxCount]

(* The table is made after the last chunk. *)
TableIsNew ==
  pc = "chunk" =>
    /\ item = 1 /\ w = capacity
    /\ dp = [x \in Cells |-> 0]
    /\ keepTrack = [x \in Cells |-> <<>>]

(* A chunk holds orders of one product, and no order is in two chunks. *)
ChunksAreApart ==
  /\ \A i \in DOMAIN items :
       \E p \in DOMAIN catalogue : \A o \in items[i] : o[1] = p
  /\ \A i, j \in DOMAIN items : i # j => items[i] \cap items[j] = {}

(* Only orders that the loops have passed are bundled. *)
BundledInOrder ==
  \A i \in DOMAIN items : \A o \in items[i] :
    o[1] < product \/ (o[1] = product /\ o[2] <= index)

Selectable(p, n) ==
  \E chosen \in SUBSET ChunksOf(p) :
    Cardinality(UNION {items[i] : i \in chosen}) = n

(* Of the products done every number that fits can be selected; of the     *)
(* product at hand, every number up to index, and the next chunk is no     *)
(* larger than what closes the gap.                                        *)
BundlesSelectable ==
  /\ \A p \in DOMAIN catalogue, n \in 0..MaxCount :
       p < product /\ n <= count[p] /\ n * catalogue[p].weight <= capacity =>
         Selectable(p, n)
  /\ product \in DOMAIN catalogue =>
       /\ index <= count[product]
       /\ UnitWeight = 0 => index = 0
       /\ UnitWeight > 0 /\ MaxChunkByCapacity > 0 => chunkSize <= MaxChunkByCapacity
       /\ \A n \in 0..index : Selectable(product, n)
  /\ product = Len(catalogue) + 1 => index = 0
  /\ chunkSize <= index + 1
  /\ pc # "chunk" => product = Len(catalogue) + 1

(* A cell never takes an item without value, and the last row is complete   *)
(* when the loop over the items ends.                                       *)
CellsTakeValue ==
  pc = "fill" =>
    /\ \A x \in Cells : \A i \in Chosen(x) : ItemValue(i) > 0
    /\ item > Len(items) => w = capacity

BundlingIInv ==
  TypeOK /\ InputsOK /\ TableIsNew /\ ChunksAreApart /\ BundledInOrder /\ BundlesSelectable
KnapsackIInv == BundlingIInv /\ CellsAreBest /\ CellsTakeValue /\ PlanIsBest

-----------------------------------------------------------------------------
(* What the loops work on                                                   *)

(* A run of orders of one product, and its length. *)
LEMMA RunOfOrders ==
  ASSUME NEW p, NEW a \in Int, NEW b \in Int, a <= b + 1
  PROVE  /\ IsFiniteSet({p} \X (a..b))
         /\ Cardinality({p} \X (a..b)) = b - a + 1
<1>1. /\ IsFiniteSet({p}) /\ Cardinality({p}) = 1
      /\ IsFiniteSet(a..b) /\ Cardinality(a..b) = IF a > b THEN 0 ELSE b - a + 1
  BY FS_Singleton, FS_Interval
<1>2. /\ IsFiniteSet({p} \X (a..b))
      /\ Cardinality({p} \X (a..b)) = Cardinality({p}) * Cardinality(a..b)
  BY <1>1, FS_Product
<1>3. Cardinality(a..b) = b - a + 1 /\ 1 * (b - a + 1) = b - a + 1
  BY <1>1
<1> QED
  BY <1>1, <1>2, <1>3

(* The arguments of the call, typed. *)
LEMMA Inputs ==
  ASSUME InputsOK
  PROVE  /\ capacity \in Nat
         /\ MaxCount \in Nat
         /\ Len(catalogue) \in Nat
         /\ DOMAIN catalogue = 1..Len(catalogue)
         /\ \A p \in DOMAIN catalogue :
              /\ catalogue[p].weight \in Nat
              /\ catalogue[p].value \in Nat
              /\ count[p] \in 0..MaxCount
<1>1. catalogue \in Seq([weight : Nat, value : Nat])
  BY KnapsackAssumption DEF InputsOK
<1>2. capacity \in Nat /\ MaxCount \in Nat
  BY KnapsackAssumption DEF InputsOK
<1>3. Len(catalogue) \in Nat /\ DOMAIN catalogue = 1..Len(catalogue)
  BY <1>1
<1>4. ASSUME NEW p \in DOMAIN catalogue
      PROVE  /\ catalogue[p].weight \in Nat
             /\ catalogue[p].value \in Nat
             /\ count[p] \in 0..MaxCount
  <2>1. catalogue[p] \in [weight : Nat, value : Nat]
    BY <1>1, <1>3, ElementOfSeq
  <2> QED
    BY <2>1 DEF InputsOK
<1> QED
  BY <1>2, <1>3, <1>4

(* The largest chunk that fits is a number, and zero only when no order fits. *)
LEMMA Quotient ==
  ASSUME NEW c \in Nat, NEW u \in Nat, u > 0
  PROVE  /\ c \div u \in Nat
         /\ c \div u = 0 => c < u
OBVIOUS

(* The waiting orders: finitely many, each of a product in the catalogue. *)
LEMMA WaitingOrders ==
  ASSUME InputsOK
  PROVE  /\ IsFiniteSet(Waiting)
         /\ \A o \in Waiting :
              /\ o[1] \in DOMAIN catalogue
              /\ o[2] \in 1..count[o[1]]
              /\ o = <<o[1], o[2]>>
              /\ WeightOf[o] = catalogue[o[1]].weight
              /\ ValueOf[o] = catalogue[o[1]].value
         /\ \A p \in DOMAIN catalogue : \A n \in 1..count[p] : <<p, n>> \in Waiting
<1>1. Orders = (DOMAIN catalogue) \X (1..MaxCount)
  BY DEF Orders
<1>2. IsFiniteSet(Orders)
  <2>1. IsFiniteSet(DOMAIN catalogue) /\ IsFiniteSet(1..MaxCount)
    BY Inputs, FS_Interval
  <2> QED
    BY <1>1, <2>1, FS_Product
<1>3. IsFiniteSet(Waiting)
  BY <1>2, FS_Subset DEF Waiting
<1>4. ASSUME NEW o \in Waiting
      PROVE  /\ o[1] \in DOMAIN catalogue
             /\ o[2] \in 1..count[o[1]]
             /\ o = <<o[1], o[2]>>
             /\ WeightOf[o] = catalogue[o[1]].weight
             /\ ValueOf[o] = catalogue[o[1]].value
  BY <1>1, Inputs DEF Waiting, WeightOf, ValueOf
<1>5. ASSUME NEW p \in DOMAIN catalogue, NEW n \in 1..count[p]
      PROVE  <<p, n>> \in Waiting
  BY <1>1, Inputs DEF Waiting
<1> QED
  BY <1>3, <1>4, <1>5

(* The chunks, typed: finite sets of waiting orders with totals. *)
LEMMA Items ==
  ASSUME InputsOK, items \in Seq(SUBSET Waiting)
  PROVE  /\ Len(items) \in Nat
         /\ DOMAIN items = 1..Len(items)
         /\ \A i \in DOMAIN items :
              /\ items[i] \subseteq Waiting
              /\ IsFiniteSet(items[i])
              /\ ItemWeight(i) \in Nat
              /\ ItemValue(i) \in Nat
<1>1. Len(items) \in Nat /\ DOMAIN items = 1..Len(items)
  OBVIOUS
<1>2. ASSUME NEW i \in DOMAIN items
      PROVE  /\ items[i] \subseteq Waiting
             /\ IsFiniteSet(items[i])
             /\ ItemWeight(i) \in Nat
             /\ ItemValue(i) \in Nat
  <2>1. items[i] \subseteq Waiting
    OBVIOUS
  <2>2. IsFiniteSet(items[i])
    BY <2>1, WaitingOrders, FS_Subset
  <2>3. \A o \in items[i] : WeightOf[o] \in Nat /\ ValueOf[o] \in Nat
    BY <2>1, WaitingOrders, Inputs
  <2> QED
    BY <2>1, <2>2, <2>3, TotalNat DEF ItemWeight, ItemValue
<1> QED
  BY <1>1, <1>2

(* There is a cell of the greatest value, and a first one of them. *)
LEMMA BestCellExists ==
  ASSUME capacity \in Nat, dp \in [Cells -> Nat]
  PROVE  /\ BestCell \in Cells
         /\ \A y \in Cells : dp[y] <= dp[BestCell]
<1>1. 0 \in Cells /\ capacity \in Cells /\ Cells \subseteq Nat
  BY DEF Cells
<1>2. \E m \in Cells : \A y \in Cells : dp[y] <= dp[m]
  <2> DEFINE Values == {dp[x] : x \in Cells}
             G == {n \in Nat : n <= capacity => \E m \in 0..n : \A y \in 0..n : dp[y] <= dp[m]}
  <2>1. 0 \in G
    <3>1. dp[0] \in Nat
      BY <1>1
    <3> QED
      BY <3>1
  <2>2. ASSUME NEW n \in Nat, n \in G PROVE n + 1 \in G
    <3> SUFFICES ASSUME n + 1 <= capacity
                 PROVE  \E m \in 0..(n + 1) : \A y \in 0..(n + 1) : dp[y] <= dp[m]
      OBVIOUS
    <3>1. PICK m \in 0..n : \A y \in 0..n : dp[y] <= dp[m]
      BY <2>2
    <3>2. \A y \in 0..(n + 1) : y \in 0..n \/ y = n + 1
      OBVIOUS
    <3>3. m \in 0..(n + 1) /\ n + 1 \in 0..(n + 1)
      OBVIOUS
    <3>4. \A y \in 0..(n + 1) : dp[y] \in Nat
      BY DEF Cells
    <3>5. CASE dp[n + 1] <= dp[m]
      BY <3>1, <3>2, <3>3, <3>5
    <3>6. CASE dp[m] <= dp[n + 1]
      <4>1. \A y \in 0..(n + 1) : dp[y] <= dp[n + 1]
        BY <3>1, <3>2, <3>3, <3>4, <3>6
      <4> QED
        BY <3>3, <4>1
    <3> QED
      BY <3>3, <3>4, <3>5, <3>6
  <2> HIDE DEF G
  <2>3. capacity \in G
    BY <2>1, <2>2, Counting
  <2> QED
    BY <2>3 DEF G, Cells
<1>3. \E x \in Cells : /\ \A y \in Cells : dp[y] <= dp[x]
                       /\ \A y \in 0..(x - 1) : dp[y] < dp[x]
  <2> DEFINE Tops == {x \in Cells : \A y \in Cells : dp[y] <= dp[x]}
  <2>1. Tops \subseteq Nat /\ Tops # {}
    BY <1>1, <1>2
  <2>2. PICK x \in Tops : \A y \in Tops : x <= y
    BY <2>1, LeastElement
  <2>3. ASSUME NEW y \in 0..(x - 1)
        PROVE  dp[y] < dp[x]
    <3>1. y \in Cells /\ y < x
      BY <2>2 DEF Cells
    <3>2. PICK z \in Cells : ~ (dp[z] <= dp[y])
      BY <1>1, <2>2, <3>1
    <3>3. dp[z] <= dp[x] /\ dp[x] \in Nat /\ dp[y] \in Nat /\ dp[z] \in Nat
      BY <2>2, <3>1
    <3> QED
      BY <3>2, <3>3
  <2> QED
    BY <2>2, <2>3
<1> QED
  BY <1>3, Zenon DEF BestCell

(* No orders at all can always be selected. *)
LEMMA NoneSelectable ==
  ASSUME NEW p
  PROVE  Selectable(p, 0)
<1>1. UNION {items[i] : i \in {}} = {}
  OBVIOUS
<1> QED
  BY <1>1, FS_EmptySet DEF Selectable

(* More chunks take away no selection. *)
LEMMA SelectableExtends ==
  ASSUME DOMAIN items \subseteq DOMAIN items',
         \A i \in DOMAIN items : items'[i] = items[i],
         NEW p, NEW n, Selectable(p, n)
  PROVE  Selectable(p, n)'
<1>1. PICK chosen \in SUBSET ChunksOf(p) : Cardinality(UNION {items[i] : i \in chosen}) = n
  BY DEF Selectable
<1>2. chosen \subseteq DOMAIN items /\ chosen \in SUBSET ChunksOf(p)'
  BY <1>1 DEF ChunksOf
<1>3. {items'[i] : i \in chosen} = {items[i] : i \in chosen}
  BY <1>2
<1> QED
  BY <1>1, <1>2, <1>3 DEF Selectable

-----------------------------------------------------------------------------
(* Bundling                                                                 *)

(* A call starts with nothing bundled. *)
LEMMA InitBundling == Init => BundlingIInv
<1> SUFFICES ASSUME Init PROVE BundlingIInv
  OBVIOUS
<1>1. InputsOK
  BY DEF Init, InputsOK
<1>2. TypeOK
  BY <1>1, Inputs DEF Init, TypeOK, Cells
<1>3. TableIsNew /\ ChunksAreApart /\ BundledInOrder
  BY <1>1, Inputs DEF Init, TableIsNew, ChunksAreApart, BundledInOrder
<1>4. BundlesSelectable
  <2>1. ASSUME product \in DOMAIN catalogue
        PROVE  /\ index <= count[product]
               /\ UnitWeight > 0 /\ MaxChunkByCapacity > 0 => chunkSize <= MaxChunkByCapacity
               /\ \A n \in 0..index : Selectable(product, n)
    <3>1. UnitWeight > 0 => MaxChunkByCapacity \in Nat
      BY <1>1, <2>1, Inputs, Quotient DEF UnitWeight, MaxChunkByCapacity
    <3>2. \A n \in 0..index : n = 0
      BY DEF Init
    <3> QED
      BY <1>1, <2>1, <3>1, <3>2, Inputs, NoneSelectable DEF Init
  <2> QED
    BY <1>1, <2>1, Inputs DEF Init, BundlesSelectable
<1> QED
  BY <1>1, <1>2, <1>3, <1>4 DEF BundlingIInv

(* Going on to the next product. *)
LEMMA NextProductSelectable ==
  ASSUME InputsOK, InputsOK', UNCHANGED input, pc = "chunk", pc' = "chunk",
         NextProduct, product \in 1..Len(catalogue),
         \A p \in DOMAIN catalogue, n \in 0..MaxCount :
           p <= product /\ n <= count[p] /\ n * catalogue[p].weight <= capacity =>
             Selectable(p, n)'
  PROVE  BundlesSelectable'
<1>1. catalogue' = catalogue /\ count' = count /\ capacity' = capacity
  BY DEF input
<1>2. product' = product + 1 /\ index' = 0 /\ chunkSize' = 1
  BY DEF NextProduct
<1>3. ASSUME NEW p \in DOMAIN catalogue, NEW n \in 0..MaxCount, p < product'
      PROVE  n <= count[p] /\ n * catalogue[p].weight <= capacity => Selectable(p, n)'
  <2>1. p <= product
    BY <1>2, <1>3, Inputs
  <2> QED
    BY <2>1
<1>4. ASSUME product' \in DOMAIN catalogue
      PROVE  /\ index' <= count[product']
             /\ UnitWeight' > 0 /\ MaxChunkByCapacity' > 0 => chunkSize' <= MaxChunkByCapacity'
             /\ \A n \in 0..index' : Selectable(product, n)'
  <2>1. UnitWeight' > 0 => MaxChunkByCapacity' \in Nat
    BY <1>1, <1>4, Inputs, Quotient DEF UnitWeight, MaxChunkByCapacity
  <2>2. \A n \in 0..index' : n = 0
    BY <1>2
  <2>3. Selectable(product, 0)'
    <3>1. UNION {items'[i] : i \in {}} = {}
      OBVIOUS
    <3> QED
      BY <3>1, FS_EmptySet DEF Selectable
  <2> QED
    BY <1>2, <1>4, <2>1, <2>2, <2>3, Inputs
<1>5. \A p \in DOMAIN catalogue', n \in 0..MaxCount :
        p < product' /\ n <= count'[p] /\ n * catalogue'[p].weight <= capacity' =>
          Selectable(p, n)'
  BY <1>1, <1>3
<1>6. product' \in DOMAIN catalogue' =>
        /\ index' <= count'[product']
        /\ UnitWeight' = 0 => index' = 0
        /\ UnitWeight' > 0 /\ MaxChunkByCapacity' > 0 => chunkSize' <= MaxChunkByCapacity'
        /\ \A n \in 0..index' : Selectable(product, n)'
  BY <1>1, <1>2, <1>4
<1>7. chunkSize' <= index' + 1
  BY <1>2
<1> QED
  BY <1>2, <1>5, <1>6, <1>7 DEF BundlesSelectable

(* A step of the bundling leaves the arguments and the table alone. *)
LEMMA BundleFrame ==
  ASSUME BundlingIInv, pc = "chunk", UNCHANGED <<input, pc, filling, plan>>,
         items' \in Seq(SUBSET Waiting),
         product' \in 1..(Len(catalogue) + 1),
         index' \in 0..MaxCount,
         chunkSize' \in 1..(MaxCount + capacity + 1)
  PROVE  TypeOK' /\ InputsOK' /\ TableIsNew'
<1>1. /\ catalogue' = catalogue /\ count' = count /\ capacity' = capacity
      /\ pc' = pc /\ item' = item /\ w' = w /\ dp' = dp /\ keepTrack' = keepTrack
      /\ plan' = plan
  BY DEF input, filling
<1>2. InputsOK'
  BY <1>1 DEF BundlingIInv, InputsOK
<1>3. TableIsNew'
  BY <1>1 DEF BundlingIInv, TableIsNew, Cells
<1>4. Waiting' = Waiting
  BY <1>1 DEF Waiting, Orders
<1>5. item' \in 1..(Len(items') + 1)
  <2>1. item = 1 /\ Len(items') \in Nat
    BY DEF BundlingIInv, TableIsNew
  <2> QED
    BY <1>1, <2>1
<1>6. keepTrack' \in [Cells' -> Seq(DOMAIN items')]
  <2>1. keepTrack' = [x \in Cells' |-> <<>>]
    BY <1>1 DEF BundlingIInv, TableIsNew, Cells
  <2>2. <<>> \in Seq(DOMAIN items')
    BY EmptySeq
  <2> HIDE DEF Cells
  <2> QED
    BY <2>1, <2>2
<1>7. dp' \in [Cells' -> Nat] /\ w' \in -1..capacity'
  BY <1>1 DEF BundlingIInv, TypeOK, Cells
<1>8. /\ pc' \in {"chunk", "fill", "done", "cancelled"}
      /\ product' \in 1..(Len(catalogue') + 1)
      /\ index' \in 0..MaxCount
      /\ chunkSize' \in 1..(MaxCount + capacity' + 1)
      /\ items' \in Seq(SUBSET Waiting')
      /\ plan' \subseteq Waiting'
  BY <1>1, <1>4 DEF BundlingIInv, TypeOK
<1> QED
  BY <1>2, <1>3, <1>5, <1>6, <1>7, <1>8 DEF TypeOK

(* No order fits, or all are bundled: every number that fits is selectable. *)
LEMMA SkipProductBundling ==
  ASSUME BundlingIInv, pc = "chunk", product <= Len(catalogue), SkipProduct,
         UNCHANGED <<input, pc, filling, plan>>
  PROVE  BundlingIInv'
<1> USE DEF BundlingIInv
<1>1. product \in DOMAIN catalogue /\ product \in 1..Len(catalogue)
  BY Inputs DEF TypeOK
<1>2. /\ items' = items
      /\ product' = product + 1 /\ index' = 0 /\ chunkSize' = 1
      /\ NextProduct
      /\ catalogue' = catalogue /\ count' = count /\ capacity' = capacity
  BY DEF SkipProduct, NextProduct, input
<1>3. TypeOK' /\ InputsOK' /\ TableIsNew'
  <2>1. product' \in 1..(Len(catalogue) + 1)
    BY <1>1, <1>2, Inputs
  <2>2. chunkSize' \in 1..(MaxCount + capacity + 1) /\ index' \in 0..MaxCount
    BY <1>2, Inputs
  <2>3. items' \in Seq(SUBSET Waiting)
    BY <1>2 DEF TypeOK
  <2> QED
    BY <2>1, <2>2, <2>3, BundleFrame
<1>4. ChunksAreApart'
  BY <1>2 DEF ChunksAreApart
<1>5. BundledInOrder'
  <2>1. ASSUME NEW i \in DOMAIN items, NEW o \in items[i]
        PROVE  o[1] < product + 1
    <3>1. o[1] \in Nat
      <4>1. o \in Waiting
        BY Items DEF TypeOK
      <4>2. o[1] \in 1..Len(catalogue) /\ Len(catalogue) \in Nat
        BY <4>1, WaitingOrders, Inputs
      <4> QED
        BY <4>2
    <3> QED
      BY <1>1, <3>1 DEF BundledInOrder
  <2> QED
    BY <1>2, <2>1 DEF BundledInOrder
<1>6. ASSUME NEW p \in DOMAIN catalogue, NEW n \in 0..MaxCount, p <= product,
             n <= count[p], n * catalogue[p].weight <= capacity
      PROVE  Selectable(p, n)
  <2>1. CASE p < product
    BY <1>6, <2>1 DEF BundlesSelectable
  <2>2. CASE p = product /\ Remaining = 0
    <3>1. count[p] - index = 0 /\ count[p] \in Nat
      BY <1>1, <2>2, Inputs DEF Remaining
    <3>2. index \in Nat
      BY DEF TypeOK
    <3>3. index = count[p]
      BY <3>1, <3>2
    <3> QED
      BY <1>1, <1>6, <2>2, <3>3 DEF BundlesSelectable
  <2>3. CASE p = product /\ MaxChunkByCapacity = 0
    <3>1. catalogue[p].weight \in Nat /\ capacity < catalogue[p].weight
      BY <1>1, <2>3, Inputs, Quotient DEF SkipProduct, MaxChunkByCapacity, UnitWeight
    <3>2. \A u \in Nat : n >= 1 => n * u >= u
      OBVIOUS
    <3>3. n * catalogue[p].weight \in Nat /\ capacity \in Nat
      BY <3>1, Inputs
    <3>4. n = 0
      BY <1>6, <3>1, <3>2, <3>3
    <3> QED
      BY <3>4, NoneSelectable
  <2>4. p < product \/ p = product
    BY <1>1, <1>6, Inputs
  <2> QED
    BY <2>1, <2>2, <2>3, <2>4 DEF SkipProduct
<1>7. \A p \in DOMAIN catalogue, n \in 0..MaxCount :
        p <= product /\ n <= count[p] /\ n * catalogue[p].weight <= capacity => Selectable(p, n)'
  BY <1>2, <1>6, SelectableExtends
<1>8. BundlesSelectable'
  <2>1. pc' = "chunk" /\ UNCHANGED input
    OBVIOUS
  <2> HIDE DEF BundlingIInv
  <2>2. InputsOK
    BY DEF BundlingIInv
  <2> QED
    BY <1>1, <1>2, <1>3, <1>7, <2>1, <2>2, NextProductSelectable
<1> QED
  BY <1>3, <1>4, <1>5, <1>8

(* Orders without weight: n single orders make n. *)
LEMMA SingleOrdersBundling ==
  ASSUME BundlingIInv, pc = "chunk", product <= Len(catalogue), SingleOrders,
         UNCHANGED <<input, pc, filling, plan>>
  PROVE  BundlingIInv'
<1> USE DEF BundlingIInv
<1> DEFINE singles == [n \in 1..count[product] |-> {<<product, n>>}]
           L == Len(items)
           C == count[product]
<1>1. product \in DOMAIN catalogue /\ product \in 1..Len(catalogue) /\ C \in 0..MaxCount
  BY Inputs DEF TypeOK
<1>2. /\ items' = items \o singles
      /\ product' = product + 1 /\ index' = 0 /\ chunkSize' = 1
      /\ NextProduct
      /\ catalogue' = catalogue /\ count' = count /\ capacity' = capacity
  BY DEF SingleOrders, NextProduct, input
<1>3. items \in Seq(SUBSET Waiting) /\ L \in Nat /\ DOMAIN items = 1..L
  BY Items DEF TypeOK
<1>4. singles \in Seq(SUBSET Waiting) /\ Len(singles) = C
  <2>1. ASSUME NEW n \in 1..C
        PROVE  {<<product, n>>} \in SUBSET Waiting
    BY <1>1, WaitingOrders
  <2>2. singles \in [1..C -> SUBSET Waiting]
    BY <2>1
  <2>3. C \in Nat
    BY <1>1, Inputs
  <2> HIDE DEF C, singles
  <2> QED
    BY <2>2, <2>3
<1>5. /\ items' \in Seq(SUBSET Waiting)
      /\ DOMAIN items' = 1..(L + C)
      /\ \A i \in 1..L : items'[i] = items[i]
      /\ \A n \in 1..C : items'[L + n] = {<<product, n>>}
  <2>1. /\ items' \in Seq(SUBSET Waiting)
        /\ Len(items') = L + C
        /\ \A i \in 1..(L + C) : items'[i] = IF i <= L THEN items[i] ELSE singles[i - L]
    <3> HIDE DEF singles, C
    <3> QED
      BY <1>2, <1>3, <1>4, ConcatProperties
  <2>2. L \in Nat /\ C \in Nat
    BY <1>1, <1>3, Inputs
  <2>3. DOMAIN items' = 1..(L + C)
    BY <2>1
  <2>4. ASSUME NEW i \in 1..L PROVE items'[i] = items[i]
    <3> HIDE DEF L, C, singles
    <3>1. i \in 1..(L + C) /\ i <= L
      BY <2>2
    <3> QED
      BY <2>1, <3>1
  <2>5. ASSUME NEW n \in 1..C PROVE items'[L + n] = {<<product, n>>}
    <3>1. singles[n] = {<<product, n>>}
      OBVIOUS
    <3> HIDE DEF L, C, singles
    <3>2. L + n \in 1..(L + C) /\ ~(L + n <= L) /\ (L + n) - L = n
      BY <2>2
    <3> QED
      BY <2>1, <3>1, <3>2
  <2> QED
    BY <2>1, <2>3, <2>4, <2>5
<1>6. TypeOK' /\ InputsOK' /\ TableIsNew'
  <2>1. product' \in 1..(Len(catalogue) + 1)
    BY <1>1, <1>2, Inputs
  <2>2. chunkSize' \in 1..(MaxCount + capacity + 1) /\ index' \in 0..MaxCount
    BY <1>2, Inputs
  <2> QED
    BY <1>5, <2>1, <2>2, BundleFrame
<1> HIDE DEF singles, L, C
<1>7. \A i \in DOMAIN items' :
        \/ i \in DOMAIN items /\ items'[i] = items[i]
        \/ \E n \in 1..C : i = L + n /\ items'[i] = {<<product, n>>}
  <2>1. ASSUME NEW i \in 1..(L + C), ~(i \in 1..L)
        PROVE  i - L \in 1..C /\ i = L + (i - L)
    BY <1>1, <1>3, <2>1
  <2> QED
    BY <1>3, <1>5, <2>1
<1>8. \A i \in DOMAIN items : \A n \in 1..C : <<product, n>> \notin items[i]
  <2>1. index = 0
    BY <1>1 DEF BundlesSelectable, SingleOrders
  <2>2. ASSUME NEW i \in DOMAIN items, NEW n \in 1..C, <<product, n>> \in items[i]
        PROVE  FALSE
    <3>1. product < product \/ n <= 0
      BY <2>1, <2>2 DEF BundledInOrder
    <3> QED
      BY <1>1, <3>1
  <2> QED
    BY <2>2
<1>9. ChunksAreApart'
  <2>1. \A i \in DOMAIN items' : \E p \in DOMAIN catalogue' : \A o \in items'[i] : o[1] = p
    BY <1>1, <1>2, <1>7 DEF ChunksAreApart
  <2>2. ASSUME NEW i \in DOMAIN items', NEW j \in DOMAIN items', i # j
        PROVE  items'[i] \cap items'[j] = {}
    <3>1. CASE i \in DOMAIN items /\ items'[i] = items[i]
      BY <1>7, <1>8, <2>2, <3>1 DEF ChunksAreApart
    <3>2. CASE j \in DOMAIN items /\ items'[j] = items[j]
      BY <1>7, <1>8, <2>2, <3>2 DEF ChunksAreApart
    <3>3. CASE /\ \E n \in 1..C : i = L + n /\ items'[i] = {<<product, n>>}
               /\ \E n \in 1..C : j = L + n /\ items'[j] = {<<product, n>>}
      BY <2>2, <3>3
    <3> QED
      BY <1>7, <3>1, <3>2, <3>3
  <2> QED
    BY <2>1, <2>2 DEF ChunksAreApart
<1>10. BundledInOrder'
  <2>1. ASSUME NEW i \in DOMAIN items, NEW o \in items[i]
        PROVE  o[1] < product + 1
    <3>1. o[1] \in Nat
      <4>1. o \in Waiting
        BY Items DEF TypeOK
      <4>2. o[1] \in 1..Len(catalogue) /\ Len(catalogue) \in Nat
        BY <4>1, WaitingOrders, Inputs
      <4> QED
        BY <4>2
    <3> QED
      BY <1>1, <3>1 DEF BundledInOrder
  <2>2. product < product + 1
    BY <1>1
  <2> QED
    BY <1>2, <1>7, <2>1, <2>2 DEF BundledInOrder
<1>11. \A i \in DOMAIN items : i \in DOMAIN items' /\ items'[i] = items[i]
  BY <1>1, <1>3, <1>5, Inputs
<1>12. ASSUME NEW p \in DOMAIN catalogue, p = product, NEW n \in 0..C
       PROVE  Selectable(p, n)'
  <2> DEFINE chosen == {L + k : k \in 1..n}
  <2>1. /\ \A k \in 1..n : k \in 1..C
        /\ \A k \in 1..C : L + k \in DOMAIN items'
    BY <1>1, <1>3, <1>5, Inputs
  <2>2. chosen \in SUBSET {i \in DOMAIN items' : \A o \in items'[i] : o[1] = p}
    BY <1>5, <1>12, <2>1
  <2>3. UNION {items'[i] : i \in chosen} = {<<p, k>> : k \in 1..n}
    BY <1>5, <1>12, <2>1
  <2>4. Cardinality({<<p, k>> : k \in 1..n}) = n
    <3>1. n \in Nat /\ 1 \in Int /\ n \in Int /\ 1 <= n + 1 /\ n - 1 + 1 = n
      BY <1>1, Inputs
    <3>2. Cardinality({p} \X (1..n)) = n
      BY <3>1, RunOfOrders
    <3>3. {<<p, k>> : k \in 1..n} = {p} \X (1..n)
      OBVIOUS
    <3> QED
      BY <3>2, <3>3
  <2> HIDE DEF chosen
  <2>5. \E S \in SUBSET {i \in DOMAIN items' : \A o \in items'[i] : o[1] = p} :
          Cardinality(UNION {items'[i] : i \in S}) = n
    BY <2>2, <2>3, <2>4
  <2> QED
    BY <2>5 DEF Selectable, ChunksOf
<1>13. ASSUME NEW p \in DOMAIN catalogue, NEW n \in 0..MaxCount, p <= product,
              n <= count[p], n * catalogue[p].weight <= capacity
       PROVE  Selectable(p, n)'
  <2>1. CASE p < product
    <3>1. Selectable(p, n)
      BY <1>13, <2>1 DEF BundlesSelectable
    <3> QED
      BY <1>11, <3>1, SelectableExtends
  <2>2. CASE p = product
    BY <1>1, <1>12, <1>13, <2>2 DEF C
  <2>3. p < product \/ p = product
    BY <1>1, <1>13, Inputs
  <2> QED
    BY <2>1, <2>2, <2>3
<1>14. BundlesSelectable'
  <2>1. pc' = "chunk" /\ UNCHANGED input /\ InputsOK
    OBVIOUS
  <2> HIDE DEF BundlingIInv
  <2> QED
    BY <1>1, <1>2, <1>6, <1>13, <2>1, NextProductSelectable
<1> QED
  BY <1>6, <1>9, <1>10, <1>14

(* The size of the next chunk: positive, within the capacity and no larger  *)
(* than what closes the gap after the orders bundled so far.                *)
LEMMA ChunkSizes ==
  \A c, i, r, m \in Nat : 1 <= c /\ c <= i + 1 /\ c <= m /\ 1 <= r =>
    \A a, d : /\ a = Smaller(Smaller(c, r), m)
              /\ d = IF c < r - a THEN Smaller(c * 2, m) ELSE c
              => /\ a \in Nat /\ 1 <= a /\ a <= r /\ a <= i + 1
                 /\ d \in Nat /\ 1 <= d /\ d <= i + a + 1 /\ d <= m
<1> SUFFICES ASSUME NEW c \in Nat, NEW i \in Nat, NEW r \in Nat, NEW m \in Nat,
                    1 <= c, c <= i + 1, c <= m, 1 <= r,
                    NEW a, a = Smaller(Smaller(c, r), m),
                    NEW d, d = IF c < r - a THEN Smaller(c * 2, m) ELSE c
             PROVE  /\ a \in Nat /\ 1 <= a /\ a <= r /\ a <= i + 1
                    /\ d \in Nat /\ 1 <= d /\ d <= i + a + 1 /\ d <= m
  OBVIOUS
<1>1. a \in Nat /\ 1 <= a /\ a <= r /\ a <= c
  BY DEF Smaller
<1>2. CASE c < r - a
  <2>1. a = c
    BY <1>1, <1>2 DEF Smaller
  <2>2. d \in Nat /\ 1 <= d /\ d <= c * 2 /\ d <= m
    BY <1>2 DEF Smaller
  <2> QED
    BY <1>1, <2>1, <2>2
<1>3. CASE ~ (c < r - a)
  BY <1>1, <1>3
<1> QED
  BY <1>2, <1>3

(* A chunk extends the selectable numbers by its size, without a gap. *)
LEMMA BundleChunkBundling ==
  ASSUME BundlingIInv, pc = "chunk", product <= Len(catalogue), BundleChunk,
         UNCHANGED <<input, pc, filling, plan>>
  PROVE  BundlingIInv'
<1> USE DEF BundlingIInv
<1> DEFINE A == ActualChunk
           chunk == {<<product, n>> : n \in (index + 1)..(index + A)}
           L == Len(items)
<1>1. product \in DOMAIN catalogue /\ product \in 1..Len(catalogue)
  BY Inputs DEF TypeOK
<1>2. /\ items' = Append(items, chunk)
      /\ index' = index + A /\ product' = product
      /\ chunkSize' = NextChunkSize(Remaining - A)
      /\ catalogue' = catalogue /\ count' = count /\ capacity' = capacity /\ pc' = pc
  BY DEF BundleChunk, input
<1>3. /\ index \in Nat /\ index <= count[product] /\ count[product] \in 0..MaxCount
      /\ MaxCount \in Nat /\ capacity \in Nat
      /\ Remaining \in Nat /\ 1 <= Remaining /\ index + Remaining = count[product]
  <2>1. index \in Nat /\ count[product] \in 0..MaxCount /\ MaxCount \in Nat /\ capacity \in Nat
    BY <1>1, Inputs DEF TypeOK
  <2>2. index <= count[product]
    BY <1>1 DEF BundlesSelectable
  <2>3. Remaining = count[product] - index /\ Remaining > 0
    BY DEF Remaining, BundleChunk
  <2> QED
    BY <2>1, <2>2, <2>3
<1>4. MaxChunkByCapacity \in Nat /\ 1 <= MaxChunkByCapacity
  BY <1>1, Inputs, Quotient DEF MaxChunkByCapacity, UnitWeight, BundleChunk
<1>5. /\ A \in Nat /\ 1 <= A /\ A <= Remaining /\ A <= index + 1
      /\ chunkSize' \in Nat /\ 1 <= chunkSize' /\ chunkSize' <= index + A + 1
      /\ chunkSize' <= MaxChunkByCapacity
  <2>1. /\ chunkSize \in Nat /\ 1 <= chunkSize /\ chunkSize <= index + 1
        /\ chunkSize <= MaxChunkByCapacity
    BY <1>1, <1>4 DEF TypeOK, BundlesSelectable, BundleChunk
  <2>2. A = Smaller(Smaller(chunkSize, Remaining), MaxChunkByCapacity)
    BY DEF ActualChunk
  <2>3. chunkSize' = IF chunkSize < Remaining - A
                     THEN Smaller(chunkSize * 2, MaxChunkByCapacity) ELSE chunkSize
    BY <1>2 DEF NextChunkSize
  <2> HIDE DEF A
  <2>4. /\ chunkSize \in Nat /\ index \in Nat /\ Remaining \in Nat /\ MaxChunkByCapacity \in Nat
        /\ 1 <= chunkSize /\ chunkSize <= index + 1
        /\ chunkSize <= MaxChunkByCapacity /\ 1 <= Remaining
    BY <1>3, <1>4, <2>1
  <2> QED
    BY <2>2, <2>3, <2>4, ChunkSizes
<1> HIDE DEF A
<1>6. index + A <= count[product] /\ index' \in 0..MaxCount
  BY <1>2, <1>3, <1>5
<1>7. items \in Seq(SUBSET Waiting) /\ L \in Nat /\ DOMAIN items = 1..L
  BY Items DEF TypeOK
<1>8. chunk \in SUBSET Waiting
  <2>1. \A n \in (index + 1)..(index + A) : n \in 1..count[product]
    BY <1>3, <1>5, <1>6
  <2> QED
    BY <1>1, <2>1, WaitingOrders
<1>9. /\ IsFiniteSet(chunk) /\ Cardinality(chunk) = A
      /\ \A o \in chunk : o[1] = product /\ index < o[2] /\ o[2] <= index + A
  <2>1. chunk = {product} \X ((index + 1)..(index + A))
    OBVIOUS
  <2>2. /\ index + 1 \in Int /\ index + A \in Int /\ index + 1 <= (index + A) + 1
        /\ (index + A) - (index + 1) + 1 = A
    BY <1>3, <1>5
  <2>3. /\ IsFiniteSet({product} \X ((index + 1)..(index + A)))
        /\ Cardinality({product} \X ((index + 1)..(index + A))) = (index + A) - (index + 1) + 1
    BY <2>2, RunOfOrders, Zenon
  <2>4. \A o \in chunk : o[1] = product /\ index < o[2] /\ o[2] <= index + A
    BY <1>3, <1>5
  <2> HIDE DEF chunk
  <2> QED
    BY <2>1, <2>2, <2>3, <2>4
<1> HIDE DEF chunk, L
<1>10. /\ items' \in Seq(SUBSET Waiting)
       /\ DOMAIN items' = 1..(L + 1)
       /\ \A i \in DOMAIN items : i \in DOMAIN items' /\ items'[i] = items[i]
       /\ items'[L + 1] = chunk
  <2>1. /\ items' \in Seq(SUBSET Waiting) /\ Len(items') = L + 1
        /\ \A i \in 1..L : items'[i] = items[i]
        /\ items'[L + 1] = chunk
    BY <1>2, <1>7, <1>8, AppendProperties DEF L
  <2>2. DOMAIN items' = 1..(L + 1)
    BY <2>1
  <2> QED
    BY <1>7, <2>1, <2>2
<1>11. \A i \in DOMAIN items' : (i \in DOMAIN items /\ items'[i] = items[i]) \/ i = L + 1
  BY <1>7, <1>10
<1>12. TypeOK' /\ InputsOK' /\ TableIsNew'
  <2>1. chunkSize' \in 1..(MaxCount + capacity + 1)
    BY <1>3, <1>5, <1>6
  <2>2. product' \in 1..(Len(catalogue) + 1)
    BY <1>1, <1>2, Inputs
  <2> QED
    BY <1>6, <1>10, <2>1, <2>2, BundleFrame
<1>13. \A i \in DOMAIN items : items[i] \cap chunk = {}
  <2>1. ASSUME NEW i \in DOMAIN items, NEW o \in items[i], o \in chunk
        PROVE  FALSE
    <3>1. o[1] = product /\ index < o[2] /\ o[2] \in Nat
      BY <1>8, <1>9, <2>1, WaitingOrders, Inputs
    <3>2. o[1] < product \/ o[2] <= index
      BY <2>1 DEF BundledInOrder
    <3> QED
      BY <1>1, <1>3, <3>1, <3>2
  <2> QED
    BY <2>1
<1>14. ChunksAreApart'
  <2>1. \A i \in DOMAIN items' : \E p \in DOMAIN catalogue' : \A o \in items'[i] : o[1] = p
    BY <1>1, <1>2, <1>9, <1>10, <1>11 DEF ChunksAreApart
  <2>2. ASSUME NEW i \in DOMAIN items', NEW j \in DOMAIN items', i # j
        PROVE  items'[i] \cap items'[j] = {}
    BY <1>10, <1>11, <1>13, <2>2 DEF ChunksAreApart
  <2> QED
    BY <2>1, <2>2 DEF ChunksAreApart
<1>15. BundledInOrder'
  <2>1. ASSUME NEW i \in DOMAIN items, NEW o \in items[i]
        PROVE  o[1] < product \/ (o[1] = product /\ o[2] <= index + A)
    <3>1. o[2] \in Nat
      <4>1. o \in Waiting
        BY Items DEF TypeOK
      <4>2. o[1] \in DOMAIN catalogue /\ o[2] \in 1..count[o[1]]
        BY <4>1, WaitingOrders
      <4> QED
        BY <4>2
    <3>2. o[1] < product \/ (o[1] = product /\ o[2] <= index)
      BY DEF BundledInOrder
    <3> QED
      BY <1>3, <1>5, <3>1, <3>2
  <2>2. ASSUME NEW i \in DOMAIN items', NEW o \in items'[i]
        PROVE  o[1] < product' \/ (o[1] = product' /\ o[2] <= index')
    BY <1>2, <1>9, <1>10, <1>11, <2>1
  <2> QED
    BY <2>2 DEF BundledInOrder
<1>16. \A p, n : Selectable(p, n) => Selectable(p, n)'
  BY <1>10, SelectableExtends
<1>17. ASSUME NEW n \in 0..(index + A)
       PROVE  Selectable(product, n)'
  <2>1. CASE n <= index
    <3>1. Selectable(product, n)
      BY <1>1, <1>3, <2>1 DEF BundlesSelectable
    <3>2. ASSUME NEW p, p = product PROVE Selectable(p, n)'
      BY <1>16, <3>1, <3>2
    <3> QED
      BY <1>2, <3>2
  <2>2. CASE n > index
    <3>1. n - A \in 0..index
      BY <1>3, <1>5, <2>2
    <3>2. PICK chosen \in SUBSET ChunksOf(product) :
            Cardinality(UNION {items[i] : i \in chosen}) = n - A
      BY <1>1, <3>1 DEF BundlesSelectable, Selectable
    <3> DEFINE U == UNION {items[i] : i \in chosen}
               more == chosen \cup {L + 1}
    <3>3. chosen \subseteq DOMAIN items /\ \A i \in chosen : \A o \in items[i] : o[1] = product
      BY <3>2 DEF ChunksOf
    <3>4. U \subseteq Waiting /\ U \cap chunk = {}
      BY <1>13, <3>3, Items DEF TypeOK
    <3>5. IsFiniteSet(U)
      BY <3>4, WaitingOrders, FS_Subset
    <3>6. Cardinality(U \cup chunk) = n
      <4>1. Cardinality(U \cup chunk) = Cardinality(U) + Cardinality(chunk) - Cardinality(U \cap chunk)
        BY <1>9, <3>5, FS_Union
      <4>2. Cardinality(U \cap chunk) = 0 /\ Cardinality(U) = n - A
        BY <3>2, <3>4, FS_EmptySet
      <4> HIDE DEF U
      <4> QED
        BY <1>3, <1>5, <1>9, <4>1, <4>2
    <3>7. more \in SUBSET {i \in DOMAIN items' : \A o \in items'[i] : o[1] = product}
      BY <1>7, <1>9, <1>10, <3>3
    <3>8. UNION {items'[i] : i \in more} = U \cup chunk
      <4>1. \A i \in chosen : items'[i] = items[i]
        BY <1>10, <3>3
      <4> QED
        BY <1>10, <4>1
    <3> HIDE DEF U, more
    <3>9. \E S \in SUBSET {i \in DOMAIN items' : \A o \in items'[i] : o[1] = product'} :
            Cardinality(UNION {items'[i] : i \in S}) = n
      BY <1>2, <3>6, <3>7, <3>8
    <3> QED
      BY <3>9 DEF Selectable, ChunksOf
  <2> QED
    BY <1>3, <1>5, <2>1, <2>2
<1>18. BundlesSelectable'
  <2>1. \A p \in DOMAIN catalogue', n \in 0..MaxCount :
          p < product' /\ n <= count'[p] /\ n * catalogue'[p].weight <= capacity' =>
            Selectable(p, n)'
    BY <1>2, <1>16 DEF BundlesSelectable
  <2>2. /\ index' <= count'[product']
        /\ UnitWeight' = 0 => index' = 0
        /\ UnitWeight' > 0 /\ MaxChunkByCapacity' > 0 => chunkSize' <= MaxChunkByCapacity'
    <3>1. UnitWeight' = UnitWeight /\ MaxChunkByCapacity' = MaxChunkByCapacity
      BY <1>2 DEF UnitWeight, MaxChunkByCapacity
    <3>2. UnitWeight > 0 /\ UnitWeight \in Nat
      BY <1>1, Inputs DEF BundleChunk, UnitWeight
    <3> QED
      BY <1>2, <1>5, <1>6, <3>1, <3>2
  <2>3. \A n \in 0..index' : Selectable(product, n)'
    BY <1>2, <1>17
  <2>4. chunkSize' <= index' + 1
    BY <1>2, <1>3, <1>5
  <2>5. product' # Len(catalogue') + 1
    BY <1>1, <1>2, Inputs
  <2>6. pc' = "chunk"
    BY <1>2
  <2> QED
    BY <2>1, <2>2, <2>3, <2>4, <2>5, <2>6 DEF BundlesSelectable
<1> QED
  BY <1>12, <1>14, <1>15, <1>18

(* The steps after the bundling leave its results alone. *)
LEMMA BundlesStay ==
  ASSUME BundlingIInv, UNCHANGED <<input, chunking, items>>, pc' # "chunk",
         product = Len(catalogue) + 1
  PROVE  InputsOK' /\ TableIsNew' /\ ChunksAreApart' /\ BundledInOrder' /\ BundlesSelectable'
<1> USE DEF BundlingIInv
<1>1. /\ catalogue' = catalogue /\ count' = count /\ capacity' = capacity
      /\ product' = product /\ index' = index /\ chunkSize' = chunkSize
      /\ items' = items
  BY DEF input, chunking
<1>2. InputsOK' /\ TableIsNew' /\ ChunksAreApart' /\ BundledInOrder'
  BY <1>1 DEF InputsOK, TableIsNew, ChunksAreApart, BundledInOrder
<1>3. \A p, n : Selectable(p, n) => Selectable(p, n)'
  BY <1>1, SelectableExtends
<1>4. product' \notin DOMAIN catalogue'
  BY <1>1, Inputs
<1>5. BundlesSelectable'
  BY <1>1, <1>3, <1>4, Inputs DEF BundlesSelectable
<1> QED
  BY <1>2, <1>5

(* A cell that the item fits into, the cell its rest is read from, and the  *)
(* value the item would make.                                               *)
LEMMA CellsOfItem ==
  ASSUME BundlingIInv, item <= Len(items), Fits
  PROVE  /\ item \in DOMAIN items
         /\ ItemWeight(item) \in Nat /\ ItemValue(item) \in Nat
         /\ w \in Cells
         /\ w - ItemWeight(item) \in Cells
         /\ w - ItemWeight(item) <= w
         /\ dp[w] \in Nat
         /\ dp[w - ItemWeight(item)] \in Nat
<1> USE DEF BundlingIInv
<1>1. item \in DOMAIN items /\ ItemWeight(item) \in Nat /\ ItemValue(item) \in Nat
  BY Items DEF TypeOK
<1>2. w \in Int /\ w >= ItemWeight(item) /\ w <= capacity /\ capacity \in Nat
  BY Inputs DEF TypeOK, Fits
<1>3. w \in Cells /\ w - ItemWeight(item) \in Cells /\ w - ItemWeight(item) <= w
  BY <1>1, <1>2 DEF Cells
<1> QED
  BY <1>1, <1>3 DEF TypeOK

(* The steps of the loops over the table leave the chunks alone. *)
LEMMA FillCellBundling ==
  ASSUME BundlingIInv, FillCell, product = Len(catalogue) + 1
  PROVE  BundlingIInv'
<1> DEFINE rest == w - ItemWeight(item)
           better == dp[rest] + ItemValue(item) > dp[w]
<1>1. /\ catalogue' = catalogue /\ count' = count /\ capacity' = capacity
      /\ product' = product /\ index' = index /\ chunkSize' = chunkSize
      /\ items' = items /\ item' = item /\ plan' = plan /\ pc' = pc
      /\ pc = "fill" /\ w' = w - 1
      /\ dp' = IF better THEN [dp EXCEPT ![w] = dp[rest] + ItemValue(item)] ELSE dp
      /\ keepTrack' = IF better THEN [keepTrack EXCEPT ![w] = Append(keepTrack[rest], item)]
                      ELSE keepTrack
  BY DEF FillCell, input, chunking
<1>2. /\ item \in DOMAIN items /\ ItemWeight(item) \in Nat /\ ItemValue(item) \in Nat
      /\ w \in Cells /\ rest \in Cells /\ dp[w] \in Nat /\ dp[rest] \in Nat
  BY CellsOfItem DEF FillCell
<1>3. Waiting' = Waiting /\ Cells' = Cells
  BY <1>1 DEF Waiting, Orders, Cells
<1> HIDE DEF rest
<1>4. dp' \in [Cells -> Nat]
  <2>1. dp \in [Cells -> Nat]
    BY DEF BundlingIInv, TypeOK
  <2>2. dp[rest] + ItemValue(item) \in Nat
    BY <1>2
  <2> QED
    BY <1>1, <1>2, <2>1, <2>2
<1>5. keepTrack' \in [Cells -> Seq(DOMAIN items)]
  <2>1. keepTrack \in [Cells -> Seq(DOMAIN items)]
    BY DEF BundlingIInv, TypeOK
  <2>2. Append(keepTrack[rest], item) \in Seq(DOMAIN items)
    BY <1>2, <2>1, AppendProperties
  <2> QED
    BY <1>1, <1>2, <2>1, <2>2
<1>6. w' \in -1..capacity
  BY <1>1, <1>2, Inputs DEF Cells, BundlingIInv
<1>7. TypeOK'
  BY <1>1, <1>3, <1>4, <1>5, <1>6 DEF BundlingIInv, TypeOK
<1>8. UNCHANGED <<input, chunking, items>> /\ pc' # "chunk"
  BY <1>1 DEF FillCell
<1> QED
  BY <1>7, <1>8, BundlesStay DEF BundlingIInv

(* So does the step to the next item. *)
LEMMA NextItemBundling ==
  ASSUME BundlingIInv, NextItem, product = Len(catalogue) + 1
  PROVE  BundlingIInv'
<1>1. /\ catalogue' = catalogue /\ count' = count /\ capacity' = capacity
      /\ product' = product /\ index' = index /\ chunkSize' = chunkSize
      /\ items' = items /\ item' = item + 1 /\ plan' = plan /\ pc' = pc
      /\ pc = "fill" /\ w' = capacity /\ dp' = dp /\ keepTrack' = keepTrack
  BY DEF NextItem, input, chunking
<1>2. Waiting' = Waiting /\ Cells' = Cells
  BY <1>1 DEF Waiting, Orders, Cells
<1>3. item' \in 1..(Len(items) + 1)
  BY <1>1, Items DEF NextItem, BundlingIInv, TypeOK
<1>4. w' \in -1..capacity
  BY <1>1, Inputs DEF BundlingIInv
<1>5. TypeOK'
  BY <1>1, <1>2, <1>3, <1>4 DEF BundlingIInv, TypeOK
<1>6. UNCHANGED <<input, chunking, items>> /\ pc' # "chunk"
  BY <1>1 DEF NextItem
<1> QED
  BY <1>5, <1>6, BundlesStay DEF BundlingIInv

(* The steps that move between the phases. *)
LEMMA PhaseBundling ==
  ASSUME BundlingIInv, StartFilling \/ Cancel \/ Restore
  PROVE  BundlingIInv'
<1>1. /\ catalogue' = catalogue /\ count' = count /\ capacity' = capacity
      /\ product' = product /\ index' = index /\ chunkSize' = chunkSize
      /\ items' = items /\ item' = item /\ w' = w /\ dp' = dp /\ keepTrack' = keepTrack
      /\ pc' \in {"fill", "done", "cancelled"}
      /\ plan' = plan \/ (Restore /\ plan' = Unbundled(keepTrack[BestCell]))
  BY DEF StartFilling, Cancel, Restore, input, chunking, filling
<1>2. product = Len(catalogue) + 1
  <2>1. CASE StartFilling
    BY <2>1, Inputs DEF StartFilling, BundlingIInv, TypeOK
  <2>2. CASE Cancel \/ Restore
    BY <2>2 DEF Cancel, Restore, BundlingIInv, BundlesSelectable
  <2> QED
    BY <2>1, <2>2
<1>3. Waiting' = Waiting /\ Cells' = Cells
  BY <1>1 DEF Waiting, Orders, Cells
<1>4. plan' \subseteq Waiting
  <2>1. \A x \in Cells : Unbundled(keepTrack[x]) \subseteq Waiting
    <3>1. ASSUME NEW x \in Cells, NEW i \in DOMAIN keepTrack[x]
          PROVE  items[keepTrack[x][i]] \subseteq Waiting
      <4>1. keepTrack[x] \in Seq(DOMAIN items)
        BY DEF BundlingIInv, TypeOK
      <4>2. keepTrack[x][i] \in DOMAIN items
        BY <4>1
      <4> QED
        BY <4>2, Items DEF BundlingIInv, TypeOK
    <3> QED
      BY <3>1 DEF Unbundled
  <2>2. CASE Restore
    BY <1>1, <2>1, Inputs, BestCellExists DEF BundlingIInv, TypeOK
  <2> QED
    BY <1>1, <2>2 DEF BundlingIInv, TypeOK
<1>5. TypeOK'
  BY <1>1, <1>3, <1>4 DEF BundlingIInv, TypeOK
<1>6. UNCHANGED <<input, chunking, items>> /\ pc' # "chunk"
  BY <1>1 DEF input, chunking
<1> QED
  BY <1>2, <1>5, <1>6, BundlesStay DEF BundlingIInv

(* Every step keeps the parts about types and bundling. *)
LEMMA BundlingInductive == BundlingIInv /\ [Next]_vars => BundlingIInv'
<1> SUFFICES ASSUME BundlingIInv, [Next]_vars
             PROVE  BundlingIInv'
  OBVIOUS
<1>1. pc # "chunk" => product = Len(catalogue) + 1
  BY DEF BundlingIInv, BundlesSelectable
<1>2. CASE Bundle
  BY <1>2, SingleOrdersBundling, SkipProductBundling, BundleChunkBundling DEF Bundle
<1>3. CASE StartFilling \/ Cancel \/ Restore
  BY <1>3, PhaseBundling
<1>4. CASE FillCell
  BY <1>1, <1>4, FillCellBundling DEF FillCell
<1>5. CASE NextItem
  BY <1>1, <1>5, NextItemBundling DEF NextItem
<1>6. CASE UNCHANGED vars
  <2>1. /\ UNCHANGED <<catalogue, count, capacity, pc, product, index, chunkSize, items,
                       item, w, dp, keepTrack, plan>>
    BY <1>6 DEF vars, input, chunking, filling
  <2>2. TypeOK' /\ InputsOK' /\ TableIsNew'
    BY <2>1 DEF BundlingIInv, TypeOK, InputsOK, TableIsNew, Waiting, Orders, Cells
  <2>3. ChunksAreApart' /\ BundledInOrder'
    BY <2>1 DEF BundlingIInv, ChunksAreApart, BundledInOrder
  <2>4. \A p, n : Selectable(p, n) => Selectable(p, n)'
    BY <2>1, SelectableExtends
  <2>5. BundlesSelectable'
    BY <2>1, <2>4 DEF BundlingIInv, BundlesSelectable, UnitWeight, MaxChunkByCapacity
  <2> QED
    BY <2>2, <2>3, <2>5 DEF BundlingIInv
<1> QED
  BY <1>2, <1>3, <1>4, <1>5, <1>6 DEF Next

-----------------------------------------------------------------------------
(* Filling the table                                                        *)

(* Weights and values of sets of chunks. *)
LEMMA ItemTotals ==
  ASSUME BundlingIInv
  PROVE  /\ IsFiniteSet(DOMAIN items)
         /\ WeightOfItems({}) = 0 /\ ValueOfItems({}) = 0
         /\ \A S \in SUBSET DOMAIN items :
              /\ IsFiniteSet(S)
              /\ WeightOfItems(S) \in Nat /\ ValueOfItems(S) \in Nat
              /\ \A i \in S : /\ WeightOfItems(S) = ItemWeight(i) + WeightOfItems(S \ {i})
                              /\ ValueOfItems(S) = ItemValue(i) + ValueOfItems(S \ {i})
              /\ \A i \in DOMAIN items : i \notin S =>
                   /\ WeightOfItems(S \cup {i}) = WeightOfItems(S) + ItemWeight(i)
                   /\ ValueOfItems(S \cup {i}) = ValueOfItems(S) + ItemValue(i)
<1>1. /\ Len(items) \in Nat /\ DOMAIN items = 1..Len(items)
      /\ \A i \in DOMAIN items : /\ ItemWeights[i] = ItemWeight(i) /\ ItemWeights[i] \in Nat
                                 /\ ItemValues[i] = ItemValue(i) /\ ItemValues[i] \in Nat
  BY Items DEF BundlingIInv, TypeOK, ItemWeights, ItemValues
<1>2. IsFiniteSet(DOMAIN items)
  BY <1>1, FS_Interval
<1>3. ASSUME NEW S \in SUBSET DOMAIN items
      PROVE  IsFiniteSet(S) /\ WeightOfItems(S) \in Nat /\ ValueOfItems(S) \in Nat
  <2>1. IsFiniteSet(S)
    BY <1>2, FS_Subset
  <2> QED
    BY <1>1, <2>1, TotalNat DEF WeightOfItems, ValueOfItems
<1>4. ASSUME NEW S \in SUBSET DOMAIN items, NEW i \in S
      PROVE  /\ WeightOfItems(S) = ItemWeight(i) + WeightOfItems(S \ {i})
             /\ ValueOfItems(S) = ItemValue(i) + ValueOfItems(S \ {i})
  <2>1. /\ IsFiniteSet(S)
        /\ \A x \in S : ItemWeights[x] \in Nat /\ ItemValues[x] \in Nat
        /\ ItemWeights[i] = ItemWeight(i) /\ ItemValues[i] = ItemValue(i)
    BY <1>1, <1>3
  <2>2. /\ TotalOf(ItemWeights, S) = ItemWeights[i] + TotalOf(ItemWeights, S \ {i})
        /\ TotalOf(ItemValues, S) = ItemValues[i] + TotalOf(ItemValues, S \ {i})
    BY <2>1, TotalRemove
  <2> QED
    BY <2>1, <2>2 DEF WeightOfItems, ValueOfItems
<1>5. ASSUME NEW S \in SUBSET DOMAIN items, NEW i \in DOMAIN items, i \notin S
      PROVE  /\ WeightOfItems(S \cup {i}) = WeightOfItems(S) + ItemWeight(i)
             /\ ValueOfItems(S \cup {i}) = ValueOfItems(S) + ItemValue(i)
  <2>1. /\ IsFiniteSet(S)
        /\ \A x \in S \cup {i} : ItemWeights[x] \in Nat /\ ItemValues[x] \in Nat
    BY <1>1, <1>3
  <2> QED
    BY <1>1, <1>5, <2>1, TotalAdd DEF WeightOfItems, ValueOfItems
<1>6. WeightOfItems({}) = 0 /\ ValueOfItems({}) = 0
  BY TotalEmpty DEF WeightOfItems, ValueOfItems
<1> QED
  BY <1>2, <1>3, <1>4, <1>5, <1>6

(* What a cell promises. *)
CellIsBest(x) ==
  /\ \A S \in SUBSET Visited(x) : WeightOfItems(S) <= x => ValueOfItems(S) <= dp[x]
  /\ Chosen(x) \subseteq Visited(x)
  /\ Cardinality(Chosen(x)) = Len(keepTrack[x])
  /\ WeightOfItems(Chosen(x)) <= x
  /\ ValueOfItems(Chosen(x)) = dp[x]

(* CellsAreBest, cell by cell. *)
LEMMA CellsAreBestByCell == CellsAreBest <=> (pc = "fill" => \A x \in Cells : CellIsBest(x))
BY DEF CellsAreBest, CellIsBest

(* The cells at or below w still hold the row of the items before item. *)
LEMMA OldRow ==
  ASSUME BundlingIInv, CellsAreBest, pc = "fill", item \in DOMAIN items,
         NEW x \in Cells, x <= w
  PROVE  /\ Visited(x) = 1..(item - 1)
         /\ 1..(item - 1) \subseteq DOMAIN items
         /\ \A S \in SUBSET (1..(item - 1)) : WeightOfItems(S) <= x => ValueOfItems(S) <= dp[x]
         /\ Chosen(x) \subseteq 1..(item - 1)
         /\ Cardinality(Chosen(x)) = Len(keepTrack[x])
         /\ WeightOfItems(Chosen(x)) <= x
         /\ ValueOfItems(Chosen(x)) = dp[x]
<1>1. x \in Int /\ w \in Int /\ ~(x > w)
  BY DEF BundlingIInv, TypeOK, Cells
<1>2. Visited(x) = 1..(item - 1)
  BY <1>1 DEF Visited
<1>3. 1..(item - 1) \subseteq DOMAIN items
  BY Items DEF BundlingIInv, TypeOK
<1>4. CellIsBest(x)
  BY CellsAreBestByCell
<1> QED
  BY <1>2, <1>3, <1>4 DEF CellIsBest

(* A set of items up to the current one, with and without the current one. *)
LEMMA WithItem ==
  ASSUME BundlingIInv, CellsAreBest, pc = "fill", item <= Len(items), Fits,
         NEW rest, rest = w - ItemWeight(item)
  PROVE  /\ dp[rest] <= dp[w]
         /\ \A S \in SUBSET (1..item) : WeightOfItems(S) <= w =>
              ValueOfItems(S) <= dp[w] \/ ValueOfItems(S) <= dp[rest] + ItemValue(item)
         /\ Chosen(rest) \cup {item} \subseteq 1..item
         /\ Cardinality(Chosen(rest) \cup {item}) = Len(keepTrack[rest]) + 1
         /\ WeightOfItems(Chosen(rest) \cup {item}) <= w
         /\ ValueOfItems(Chosen(rest) \cup {item}) = dp[rest] + ItemValue(item)
<1>1. /\ item \in DOMAIN items
      /\ ItemWeight(item) \in Nat /\ ItemValue(item) \in Nat
      /\ w \in Cells /\ rest \in Cells /\ rest <= w
      /\ dp[w] \in Nat /\ dp[rest] \in Nat
  BY CellsOfItem
<1>2. w \in Int /\ rest \in Int /\ item \in Nat /\ item >= 1
  <2>1. w \in Int /\ rest \in Int
    BY <1>1 DEF Cells
  <2>2. item \in 1..Len(items)
    BY <1>1, Items DEF BundlingIInv, TypeOK
  <2> QED
    BY <2>1, <2>2
<1>3. /\ 1..(item - 1) \subseteq DOMAIN items
      /\ \A S \in SUBSET (1..(item - 1)) : WeightOfItems(S) <= w => ValueOfItems(S) <= dp[w]
  BY <1>1, <1>2, OldRow
<1>4. /\ \A S \in SUBSET (1..(item - 1)) : WeightOfItems(S) <= rest => ValueOfItems(S) <= dp[rest]
      /\ Chosen(rest) \subseteq 1..(item - 1)
      /\ Cardinality(Chosen(rest)) = Len(keepTrack[rest])
      /\ WeightOfItems(Chosen(rest)) <= rest
      /\ ValueOfItems(Chosen(rest)) = dp[rest]
  BY <1>1, OldRow
<1>5. 1..item = (1..(item - 1)) \cup {item} /\ item \notin 1..(item - 1)
  BY <1>2
<1>6. /\ Chosen(rest) \in SUBSET DOMAIN items /\ item \notin Chosen(rest)
      /\ IsFiniteSet(Chosen(rest))
      /\ WeightOfItems(Chosen(rest)) \in Nat
  BY <1>3, <1>4, <1>5, ItemTotals
<1>7. dp[rest] <= dp[w]
  <2>1. WeightOfItems(Chosen(rest)) <= w
    BY <1>1, <1>2, <1>4, <1>6
  <2> QED
    BY <1>3, <1>4, <2>1
<1>8. ASSUME NEW S \in SUBSET (1..item), WeightOfItems(S) <= w
      PROVE  ValueOfItems(S) <= dp[w] \/ ValueOfItems(S) <= dp[rest] + ItemValue(item)
  <2>1. CASE item \notin S
    <3>1. S \in SUBSET (1..(item - 1))
      BY <1>5, <2>1
    <3> QED
      BY <1>3, <1>8, <3>1
  <2>2. CASE item \in S
    <3>1. S \ {item} \in SUBSET (1..(item - 1)) /\ S \in SUBSET DOMAIN items
      BY <1>1, <1>3, <1>5
    <3>2. /\ WeightOfItems(S) = ItemWeight(item) + WeightOfItems(S \ {item})
          /\ ValueOfItems(S) = ItemValue(item) + ValueOfItems(S \ {item})
          /\ WeightOfItems(S \ {item}) \in Nat /\ ValueOfItems(S \ {item}) \in Nat
      <4>1. S \ {item} \in SUBSET DOMAIN items
        BY <3>1
      <4> QED
        BY <2>2, <3>1, <4>1, ItemTotals
    <3>3. WeightOfItems(S \ {item}) <= rest
      BY <1>1, <1>2, <1>8, <3>2
    <3>4. ValueOfItems(S \ {item}) <= dp[rest]
      BY <1>4, <3>1, <3>3
    <3> QED
      BY <1>1, <3>2, <3>4
  <2> QED
    BY <2>1, <2>2
<1>9. Cardinality(Chosen(rest) \cup {item}) = Len(keepTrack[rest]) + 1
  BY <1>4, <1>6, FS_AddElement
<1>10. /\ WeightOfItems(Chosen(rest) \cup {item}) = WeightOfItems(Chosen(rest)) + ItemWeight(item)
       /\ ValueOfItems(Chosen(rest) \cup {item}) = ValueOfItems(Chosen(rest)) + ItemValue(item)
  BY <1>1, <1>6, ItemTotals
<1>11. WeightOfItems(Chosen(rest) \cup {item}) <= w
  BY <1>1, <1>2, <1>4, <1>6, <1>10
<1> QED
  BY <1>4, <1>5, <1>7, <1>8, <1>9, <1>10, <1>11

(* The values of a sequence with one more element. *)
LEMMA ValuesOfAppend ==
  ASSUME NEW S, NEW s \in Seq(S), NEW e \in S, NEW t, t = Append(s, e)
  PROVE  \A v : (\E i \in DOMAIN t : t[i] = v) <=> ((\E i \in DOMAIN s : s[i] = v) \/ v = e)
<1>1. /\ t \in Seq(S) /\ Len(t) = Len(s) + 1 /\ Len(s) \in Nat
      /\ \A i \in 1..Len(s) : t[i] = s[i]
      /\ t[Len(s) + 1] = e
  BY AppendProperties
<1>2. DOMAIN t = 1..(Len(s) + 1) /\ DOMAIN s = 1..Len(s)
  BY <1>1
<1>3. DOMAIN t = (DOMAIN s) \cup {Len(s) + 1}
  BY <1>1, <1>2
<1> QED
  BY <1>1, <1>2, <1>3

(* The items and their totals do not change once they are bundled. *)
LEMMA TotalsStay ==
  ASSUME UNCHANGED <<input, items>>
  PROVE  /\ \A i : ItemWeight(i)' = ItemWeight(i) /\ ItemValue(i)' = ItemValue(i)
         /\ \A S : WeightOfItems(S)' = WeightOfItems(S) /\ ValueOfItems(S)' = ValueOfItems(S)
<1>1. catalogue' = catalogue /\ items' = items
  BY DEF input
<1>2. WeightOf' = WeightOf /\ ValueOf' = ValueOf
  BY <1>1 DEF WeightOf, ValueOf, Orders
<1>3. \A i : ItemWeight(i)' = ItemWeight(i) /\ ItemValue(i)' = ItemValue(i)
  BY <1>1, <1>2 DEF ItemWeight, ItemValue
<1>4. ItemWeights' = ItemWeights /\ ItemValues' = ItemValues
  BY <1>1, <1>3 DEF ItemWeights, ItemValues
<1> QED
  BY <1>3, <1>4 DEF WeightOfItems, ValueOfItems

(* An empty table is right for no items. *)
LEMMA StartFillingCells ==
  ASSUME BundlingIInv, StartFilling
  PROVE  CellsAreBest' /\ CellsTakeValue'
<1>1. /\ UNCHANGED <<input, items>> /\ items' = items
      /\ item' = 1 /\ w' = capacity /\ capacity' = capacity /\ Cells' = Cells
      /\ dp' = [x \in Cells |-> 0] /\ keepTrack' = [x \in Cells |-> <<>>]
  BY DEF StartFilling, filling, input, Cells, BundlingIInv, TableIsNew
<1>2. capacity \in Nat /\ \A x \in Cells : x \in Nat /\ x <= capacity
  BY Inputs DEF BundlingIInv, Cells
<1>3. ASSUME NEW x \in Cells
      PROVE  /\ CellIsBest(x)'
             /\ Chosen(x)' = {}
  <2>1. Visited(x)' = {}
    BY <1>1, <1>2 DEF Visited
  <2>2. dp'[x] = 0 /\ keepTrack'[x] = <<>>
    BY <1>1
  <2>3. Chosen(x)' = {}
    BY <2>2 DEF Chosen
  <2>4. /\ \A S : WeightOfItems(S)' = WeightOfItems(S) /\ ValueOfItems(S)' = ValueOfItems(S)
        /\ WeightOfItems({}) = 0 /\ ValueOfItems({}) = 0
    BY <1>1, TotalsStay, ItemTotals
  <2>5. Cardinality({}) = 0 /\ Len(<<>>) = 0
    BY FS_EmptySet
  <2>6. \A S \in SUBSET Visited(x)' : S = {}
    BY <2>1
  <2>7. \A S \in SUBSET Visited(x)' : ValueOfItems(S)' <= dp'[x]
    BY <2>2, <2>4, <2>6
  <2>8. /\ Chosen(x)' \subseteq Visited(x)'
        /\ Cardinality(Chosen(x)') = Len(keepTrack'[x])
    BY <2>2, <2>3, <2>5
  <2>9. WeightOfItems({})' <= x /\ ValueOfItems({})' = dp'[x]
    BY <1>2, <2>2, <2>4
  <2>10. CellIsBest(x)'
    BY <2>3, <2>7, <2>8, <2>9 DEF CellIsBest
  <2> QED
    BY <2>3, <2>10
<1>4. CellsAreBest'
  BY <1>1, <1>3 DEF CellsAreBest, CellIsBest
<1>5. CellsTakeValue'
  BY <1>1, <1>3 DEF CellsTakeValue
<1> QED
  BY <1>4, <1>5

(* A cell takes the item when that is worth more, else it keeps its items. *)
LEMMA FillCellCells ==
  ASSUME BundlingIInv, CellsAreBest, CellsTakeValue, FillCell
  PROVE  CellsAreBest' /\ CellsTakeValue'
<1> DEFINE rest == w - ItemWeight(item)
           better == dp[rest] + ItemValue(item) > dp[w]
<1>1. /\ UNCHANGED <<input, items>> /\ items' = items
      /\ item' = item /\ item <= Len(items) /\ pc = "fill" /\ w' = w - 1
      /\ dp' = IF better THEN [dp EXCEPT ![w] = dp[rest] + ItemValue(item)] ELSE dp
      /\ keepTrack' = IF better THEN [keepTrack EXCEPT ![w] = Append(keepTrack[rest], item)]
                      ELSE keepTrack
  BY DEF FillCell
<1>2. Cells' = Cells
  BY <1>1 DEF input, Cells
<1>3. /\ item \in DOMAIN items /\ ItemWeight(item) \in Nat /\ ItemValue(item) \in Nat
      /\ w \in Cells /\ rest \in Cells /\ rest <= w /\ dp[w] \in Nat /\ dp[rest] \in Nat
  BY CellsOfItem DEF FillCell
<1>4. /\ dp[rest] <= dp[w]
      /\ \A S \in SUBSET (1..item) : WeightOfItems(S) <= w =>
           ValueOfItems(S) <= dp[w] \/ ValueOfItems(S) <= dp[rest] + ItemValue(item)
      /\ Chosen(rest) \cup {item} \subseteq 1..item
      /\ Cardinality(Chosen(rest) \cup {item}) = Len(keepTrack[rest]) + 1
      /\ WeightOfItems(Chosen(rest) \cup {item}) <= w
      /\ ValueOfItems(Chosen(rest) \cup {item}) = dp[rest] + ItemValue(item)
  BY <1>1, WithItem DEF FillCell
<1> HIDE DEF rest
<1>5. /\ keepTrack \in [Cells -> Seq(DOMAIN items)] /\ dp \in [Cells -> Nat]
      /\ w \in Int /\ item \in Nat /\ \A x \in Cells : x \in Int
  BY <1>3, Items DEF BundlingIInv, TypeOK, Cells
<1>6. \A x : /\ WeightOfItems(x)' = WeightOfItems(x) /\ ValueOfItems(x)' = ValueOfItems(x)
             /\ ItemValue(x)' = ItemValue(x)
  BY <1>1, TotalsStay
<1>7. ASSUME NEW x \in Cells, x # w
      PROVE  CellIsBest(x)' /\ Chosen(x)' = Chosen(x)
  <2>1. dp'[x] = dp[x] /\ keepTrack'[x] = keepTrack[x]
    BY <1>1, <1>5, <1>7
  <2>2. Visited(x)' = Visited(x)
    BY <1>1, <1>5, <1>7 DEF Visited
  <2>3. Chosen(x)' = Chosen(x)
    BY <2>1 DEF Chosen
  <2>4. CellIsBest(x)
    BY <1>1, CellsAreBestByCell
  <2> QED
    BY <1>6, <2>1, <2>2, <2>3, <2>4 DEF CellIsBest
<1>8. Visited(w) = 1..(item - 1) /\ \A x : x = w => Visited(x)' = 1..item
  BY <1>1, <1>5 DEF Visited
<1>9. ASSUME better, NEW x, x = w
      PROVE  /\ CellIsBest(x)'
             /\ Chosen(x)' = Chosen(rest) \cup {item}
  <2>1. dp'[x] = dp[rest] + ItemValue(item) /\ keepTrack'[x] = Append(keepTrack[rest], item)
    BY <1>1, <1>3, <1>5, <1>9
  <2>2. keepTrack[rest] \in Seq(DOMAIN items)
    BY <1>3, <1>5
  <2>3. Chosen(x)' = Chosen(rest) \cup {item}
    <3>0. ASSUME NEW kept \in Seq(DOMAIN items), NEW t, t = Append(kept, item)
          PROVE  \A v : (\E i \in DOMAIN t : t[i] = v) <=> ((\E i \in DOMAIN kept : kept[i] = v) \/ v = item)
      <4>1. item \in DOMAIN items
        BY <1>3
      <4> QED
        BY <3>0, <4>1, ValuesOfAppend
    <3>1. \A v : (\E i \in DOMAIN keepTrack'[x] : keepTrack'[x][i] = v)
            <=> ((\E i \in DOMAIN keepTrack[rest] : keepTrack[rest][i] = v) \/ v = item)
      <4>1. PICK kept \in Seq(DOMAIN items) : kept = keepTrack[rest]
        BY <2>2
      <4>2. PICK t : t = keepTrack'[x]
        OBVIOUS
      <4>3. t = Append(kept, item)
        BY <2>1, <4>1, <4>2
      <4>4. \A v : (\E i \in DOMAIN t : t[i] = v)
              <=> ((\E i \in DOMAIN kept : kept[i] = v) \/ v = item)
        BY <3>0, <4>3
      <4> QED
        BY <4>1, <4>2, <4>4
    <3>2. /\ \A v : v \in Chosen(x)' <=> \E i \in DOMAIN keepTrack'[x] : keepTrack'[x][i] = v
          /\ \A v : v \in Chosen(rest) <=> \E i \in DOMAIN keepTrack[rest] : keepTrack[rest][i] = v
      BY DEF Chosen
    <3> QED
      BY <3>1, <3>2
  <2>4. Len(keepTrack'[x]) = Len(keepTrack[rest]) + 1
    BY <1>3, <2>1, <2>2, AppendProperties
  <2>5. ASSUME NEW S \in SUBSET (1..item), WeightOfItems(S) <= w
        PROVE  ValueOfItems(S) <= dp[rest] + ItemValue(item)
    <3>1. S \in SUBSET DOMAIN items
      BY <1>3, Items DEF BundlingIInv, TypeOK
    <3>2. ValueOfItems(S) \in Nat
      BY <3>1, ItemTotals
    <3>3. ValueOfItems(S) <= dp[w] \/ ValueOfItems(S) <= dp[rest] + ItemValue(item)
      BY <1>4, <2>5
    <3> QED
      BY <1>3, <1>9, <3>2, <3>3
  <2> QED
    BY <1>4, <1>6, <1>8, <1>9, <2>1, <2>3, <2>4, <2>5 DEF CellIsBest
<1>10. ASSUME ~better, NEW x, x = w
       PROVE  CellIsBest(x)' /\ Chosen(x)' = Chosen(x)
  <2>1. dp'[x] = dp[w] /\ keepTrack'[x] = keepTrack[w]
    BY <1>1, <1>10
  <2>2. Chosen(x)' = Chosen(w) /\ Chosen(x) = Chosen(w)
    BY <1>10, <2>1 DEF Chosen
  <2>3. CellIsBest(w)
    BY <1>1, <1>3, CellsAreBestByCell
  <2>4. Chosen(w) \subseteq 1..item
    <3>1. Chosen(w) \subseteq 1..(item - 1)
      BY <1>8, <2>3 DEF CellIsBest
    <3> QED
      BY <1>5, <3>1
  <2>5. ASSUME NEW S \in SUBSET (1..item), WeightOfItems(S) <= w
        PROVE  ValueOfItems(S) <= dp[w]
    <3>1. S \in SUBSET DOMAIN items
      BY <1>3, Items DEF BundlingIInv, TypeOK
    <3>2. ValueOfItems(S) \in Nat
      BY <3>1, ItemTotals
    <3>3. ValueOfItems(S) <= dp[w] \/ ValueOfItems(S) <= dp[rest] + ItemValue(item)
      BY <1>4, <2>5
    <3> QED
      BY <1>3, <1>10, <3>2, <3>3
  <2> QED
    BY <1>6, <1>8, <1>10, <2>1, <2>2, <2>3, <2>4, <2>5 DEF CellIsBest
<1>11. CellsAreBest'
  <2>1. \A x \in Cells : CellIsBest(x)'
    BY <1>7, <1>9, <1>10
  <2> QED
    BY <1>2, <2>1 DEF CellsAreBest, CellIsBest
<1>12. CellsTakeValue'
  <2>1. better => ItemValue(item) > 0
    BY <1>3, <1>4
  <2>2. \A x \in Cells : \A i \in Chosen(x) : ItemValue(i) > 0
    BY <1>1 DEF CellsTakeValue
  <2>3. \A x \in Cells : \A i \in Chosen(x)' : ItemValue(i) > 0
    BY <1>3, <1>7, <1>9, <1>10, <2>1, <2>2
  <2>4. ~(item' > Len(items'))
    BY <1>1, <1>5, Items DEF BundlingIInv, TypeOK
  <2> QED
    BY <1>2, <1>6, <2>3, <2>4 DEF CellsTakeValue
<1> QED
  BY <1>11, <1>12

(* The item fits no cell that is left: it makes no difference to them. *)
LEMMA NextItemCells ==
  ASSUME BundlingIInv, CellsAreBest, CellsTakeValue, NextItem
  PROVE  CellsAreBest' /\ CellsTakeValue'
<1>1. /\ UNCHANGED <<input, items>> /\ items' = items /\ capacity' = capacity
      /\ item' = item + 1 /\ item <= Len(items) /\ pc = "fill" /\ w' = capacity
      /\ dp' = dp /\ keepTrack' = keepTrack /\ ~Fits
  BY DEF NextItem, input
<1>2. Cells' = Cells
  BY <1>1 DEF Cells
<1>3. /\ item \in DOMAIN items /\ item \in Nat /\ item >= 1 /\ ItemWeight(item) \in Nat
      /\ 1..item \subseteq DOMAIN items
      /\ w \in Int /\ w < ItemWeight(item) /\ capacity \in Nat
      /\ \A x \in Cells : x \in Nat /\ x <= capacity
  <2>1. capacity \in Nat /\ \A x \in Cells : x \in Nat /\ x <= capacity
    BY Inputs DEF BundlingIInv, Cells
  <2>2. /\ Len(items) \in Nat /\ DOMAIN items = 1..Len(items)
        /\ item \in 1..(Len(items) + 1) /\ w \in -1..capacity
    BY Items DEF BundlingIInv, TypeOK
  <2>3. item \in DOMAIN items /\ item \in Nat /\ item >= 1 /\ 1..item \subseteq DOMAIN items
    BY <1>1, <2>2
  <2>4. ItemWeight(item) \in Nat
    BY <2>3, Items DEF BundlingIInv, TypeOK
  <2>5. w \in Int /\ w < ItemWeight(item)
    BY <1>1, <2>1, <2>2, <2>4 DEF Fits
  <2> QED
    BY <2>1, <2>3, <2>4, <2>5
<1>4. \A x : /\ WeightOfItems(x)' = WeightOfItems(x) /\ ValueOfItems(x)' = ValueOfItems(x)
             /\ ItemValue(x)' = ItemValue(x)
  BY <1>1, TotalsStay
<1>5. ASSUME NEW x \in Cells
      PROVE  CellIsBest(x)' /\ Chosen(x)' = Chosen(x)
  <2>1. Chosen(x)' = Chosen(x)
    BY <1>1 DEF Chosen
  <2>2. CellIsBest(x)
    BY <1>1, CellsAreBestByCell
  <2>3. Visited(x)' = 1..item
    BY <1>1, <1>3 DEF Visited
  <2>4. Visited(x) \subseteq 1..item
    BY <1>3 DEF Visited
  <2>5. ASSUME NEW S \in SUBSET (1..item), WeightOfItems(S) <= x
        PROVE  S \in SUBSET Visited(x)
    <3>1. CASE x > w
      BY <3>1 DEF Visited
    <3>2. CASE ~(x > w)
      <4>1. item \notin S
        <5>1. SUFFICES ASSUME item \in S PROVE FALSE
          OBVIOUS
        <5>2. /\ WeightOfItems(S) = ItemWeight(item) + WeightOfItems(S \ {item})
              /\ WeightOfItems(S \ {item}) \in Nat
          <6>1. S \in SUBSET DOMAIN items /\ S \ {item} \in SUBSET DOMAIN items
            BY <1>3
          <6> QED
            BY <5>1, <6>1, ItemTotals
        <5> QED
          BY <1>3, <2>5, <3>2, <5>2
      <4>2. \A i \in 1..item : i # item => i \in 1..(item - 1)
        BY <1>3
      <4> QED
        BY <3>2, <4>1, <4>2 DEF Visited
    <3> QED
      BY <3>1, <3>2
  <2> QED
    BY <1>1, <1>4, <2>1, <2>2, <2>3, <2>4, <2>5 DEF CellIsBest
<1>6. CellsAreBest'
  BY <1>2, <1>5 DEF CellsAreBest, CellIsBest
<1>7. CellsTakeValue'
  BY <1>1, <1>2, <1>4, <1>5 DEF CellsTakeValue
<1> QED
  BY <1>6, <1>7

-----------------------------------------------------------------------------
(* The plan                                                                 *)

(* The orders of a set of chunks. *)
OrdersOf(S) == UNION {items[i] : i \in S}

(* They are waiting orders, and finitely many. *)
LEMMA OrdersOfType ==
  ASSUME BundlingIInv, NEW S \in SUBSET DOMAIN items
  PROVE  OrdersOf(S) \subseteq Waiting /\ IsFiniteSet(OrdersOf(S))
<1>1. OrdersOf(S) \subseteq Waiting
  BY Items DEF OrdersOf, BundlingIInv, TypeOK
<1> QED
  BY <1>1, WaitingOrders, FS_Subset DEF BundlingIInv

(* Attributes of orders have totals, and disjoint sets of orders add up. *)
LEMMA OrderTotals ==
  ASSUME InputsOK, NEW P \in SUBSET Waiting
  PROVE  /\ IsFiniteSet(P)
         /\ TotalOf(WeightOf, P) \in Nat /\ TotalOf(ValueOf, P) \in Nat
         /\ \A Q \in SUBSET Waiting : P \cap Q = {} =>
              /\ TotalOf(WeightOf, P \cup Q) = TotalOf(WeightOf, P) + TotalOf(WeightOf, Q)
              /\ TotalOf(ValueOf, P \cup Q) = TotalOf(ValueOf, P) + TotalOf(ValueOf, Q)
         /\ \A p \in DOMAIN catalogue : (\A o \in P : o[1] = p) =>
              /\ TotalOf(WeightOf, P) = Cardinality(P) * catalogue[p].weight
              /\ TotalOf(ValueOf, P) = Cardinality(P) * catalogue[p].value
<1>1. \A o \in Waiting : WeightOf[o] \in Nat /\ ValueOf[o] \in Nat
  BY WaitingOrders, Inputs
<1>2. \A Q \in SUBSET Waiting : IsFiniteSet(Q)
  BY WaitingOrders, FS_Subset
<1>3. TotalOf(WeightOf, P) \in Nat /\ TotalOf(ValueOf, P) \in Nat
  BY <1>1, <1>2, TotalNat
<1>4. ASSUME NEW Q \in SUBSET Waiting, P \cap Q = {}
      PROVE  /\ TotalOf(WeightOf, P \cup Q) = TotalOf(WeightOf, P) + TotalOf(WeightOf, Q)
             /\ TotalOf(ValueOf, P \cup Q) = TotalOf(ValueOf, P) + TotalOf(ValueOf, Q)
  <2>1. /\ IsFiniteSet(P) /\ IsFiniteSet(Q)
        /\ \A o \in P \cup Q : WeightOf[o] \in Nat /\ ValueOf[o] \in Nat
    BY <1>1, <1>2
  <2> QED
    BY <1>4, <2>1, TotalUnion
<1>5. ASSUME NEW p \in DOMAIN catalogue, \A o \in P : o[1] = p
      PROVE  /\ TotalOf(WeightOf, P) = Cardinality(P) * catalogue[p].weight
             /\ TotalOf(ValueOf, P) = Cardinality(P) * catalogue[p].value
  <2>1. /\ IsFiniteSet(P)
        /\ catalogue[p].weight \in Nat /\ catalogue[p].value \in Nat
        /\ \A o \in P : WeightOf[o] = catalogue[p].weight /\ ValueOf[o] = catalogue[p].value
    BY <1>2, <1>5, WaitingOrders, Inputs
  <2> QED
    BY <2>1, TotalConstant
<1> QED
  BY <1>2, <1>3, <1>4, <1>5

(* The totals of a set of chunks are the totals of its orders. *)
LEMMA UnbundledTotals ==
  ASSUME BundlingIInv, NEW S \in SUBSET DOMAIN items
  PROVE  /\ TotalOf(WeightOf, OrdersOf(S)) = WeightOfItems(S)
         /\ TotalOf(ValueOf, OrdersOf(S)) = ValueOfItems(S)
<1> DEFINE Same(T) == /\ TotalOf(WeightOf, OrdersOf(T)) = WeightOfItems(T)
                      /\ TotalOf(ValueOf, OrdersOf(T)) = ValueOfItems(T)
           G == {T \in SUBSET S : Same(T)}
<1>1. ASSUME NEW T \in SUBSET S, \A i \in T : T \ {i} \in G
      PROVE  T \in G
  <2>1. CASE T = {}
    <3>1. OrdersOf({}) = {}
      BY DEF OrdersOf
    <3> QED
      BY <2>1, <3>1, ItemTotals, TotalEmpty
  <2>2. CASE T # {}
    <3>1. PICK i \in T : TRUE
      BY <2>2
    <3> DEFINE R == T \ {i}
    <3>2. R \in SUBSET DOMAIN items /\ T \in SUBSET DOMAIN items /\ i \in DOMAIN items
      OBVIOUS
    <3>3. OrdersOf(T) = OrdersOf(R) \cup items[i]
      BY DEF OrdersOf
    <3>4. OrdersOf(R) \cap items[i] = {}
      BY <3>2 DEF OrdersOf, BundlingIInv, ChunksAreApart
    <3>5. OrdersOf(R) \in SUBSET Waiting /\ items[i] \in SUBSET Waiting
      BY <3>2, OrdersOfType, Items DEF BundlingIInv, TypeOK
    <3>6. /\ TotalOf(WeightOf, OrdersOf(T)) = TotalOf(WeightOf, OrdersOf(R)) + ItemWeight(i)
          /\ TotalOf(ValueOf, OrdersOf(T)) = TotalOf(ValueOf, OrdersOf(R)) + ItemValue(i)
      BY <3>3, <3>4, <3>5, OrderTotals DEF ItemWeight, ItemValue, BundlingIInv
    <3>7. Same(R)
      BY <1>1
    <3>8. /\ WeightOfItems(T) = ItemWeight(i) + WeightOfItems(R) /\ WeightOfItems(R) \in Nat
          /\ ValueOfItems(T) = ItemValue(i) + ValueOfItems(R) /\ ValueOfItems(R) \in Nat
          /\ ItemWeight(i) \in Nat /\ ItemValue(i) \in Nat
      BY <3>2, ItemTotals, Items DEF BundlingIInv, TypeOK
    <3> HIDE DEF R, G
    <3>9. Same(T)
      BY <3>6, <3>7, <3>8
    <3> QED
      BY <3>9 DEF G
  <2> QED
    BY <2>1, <2>2
<1>2. IsFiniteSet(S)
  BY ItemTotals
<1>3. S \in G
  <2> HIDE DEF G
  <2>1. \A T \in SUBSET S : (\A i \in T : T \ {i} \in G) => T \in G
    BY <1>1
  <2> QED
    BY <1>2, <2>1, SubsetInduction
<1> QED
  BY <1>3

(* Whatever orders fit the robot, chunks of the same weight and value exist. *)
LEMMA ChunksMatchOrders ==
  ASSUME BundlingIInv, pc # "chunk",
         NEW Q \in SUBSET Waiting, TotalOf(WeightOf, Q) <= capacity
  PROVE  \E S \in SUBSET DOMAIN items :
           /\ WeightOfItems(S) = TotalOf(WeightOf, Q)
           /\ ValueOfItems(S) = TotalOf(ValueOf, Q)
<1> DEFINE Upto(k) == {o \in Q : o[1] <= k}
           Match(k, S) ==
             /\ \A i \in S : \A o \in items[i] : o[1] <= k
             /\ TotalOf(WeightOf, OrdersOf(S)) = TotalOf(WeightOf, Upto(k))
             /\ TotalOf(ValueOf, OrdersOf(S)) = TotalOf(ValueOf, Upto(k))
           G == {k \in Nat : k <= Len(catalogue) => \E S \in SUBSET DOMAIN items : Match(k, S)}
<1>0. InputsOK /\ product = Len(catalogue) + 1
  BY DEF BundlingIInv, BundlesSelectable
<1>1. /\ Len(catalogue) \in Nat /\ DOMAIN catalogue = 1..Len(catalogue)
      /\ \A o \in Waiting : o[1] \in 1..Len(catalogue)
      /\ capacity \in Nat /\ MaxCount \in Nat
  BY <1>0, Inputs, WaitingOrders
<1>2. 0 \in G
  <2>1. Upto(0) = {}
    BY <1>1
  <2>2. OrdersOf({}) = {}
    BY DEF OrdersOf
  <2>3. Match(0, {})
    BY <2>1, <2>2
  <2> QED
    BY <2>3
<1>3. ASSUME NEW k \in Nat, k \in G
      PROVE  k + 1 \in G
  <2> SUFFICES ASSUME k + 1 <= Len(catalogue)
               PROVE  \E S \in SUBSET DOMAIN items : Match(k + 1, S)
    OBVIOUS
  <2>1. PICK S \in SUBSET DOMAIN items : Match(k, S)
    BY <1>1, <1>3
  <2> DEFINE p == k + 1
             P == {o \in Q : o[1] = p}
             n == Cardinality(P)
  <2>2. p \in DOMAIN catalogue /\ p \in 1..Len(catalogue)
    BY <1>1
  <2>3. P \in SUBSET Waiting /\ Upto(k) \in SUBSET Waiting /\ Upto(k) \cap P = {}
        /\ Upto(p) = Upto(k) \cup P
    BY <1>1
  <2>4. n \in Nat /\ n <= count[p] /\ count[p] \in 0..MaxCount
    <3>1. P \subseteq {p} \X (1..count[p])
      BY <2>3, <1>0, WaitingOrders
    <3>2. count[p] \in 0..MaxCount
      BY <1>0, <2>2, Inputs
    <3>3. /\ IsFiniteSet({p} \X (1..count[p]))
          /\ Cardinality({p} \X (1..count[p])) = count[p]
      <4>1. 1 \in Int /\ count[p] \in Int /\ 1 <= count[p] + 1 /\ count[p] - 1 + 1 = count[p]
        BY <3>2, <1>1
      <4> HIDE DEF p
      <4> QED
        BY <4>1, RunOfOrders
    <3>4. IsFiniteSet(P) /\ n <= count[p]
      BY <3>1, <3>3, FS_Subset
    <3>5. n \in Nat
      BY <3>4, FS_CardinalityType
    <3> QED
      BY <3>2, <3>4, <3>5
  <2>5. /\ TotalOf(WeightOf, P) = n * catalogue[p].weight
        /\ TotalOf(ValueOf, P) = n * catalogue[p].value
    BY <1>0, <2>2, <2>3, OrderTotals
  <2>6. TotalOf(WeightOf, P) <= capacity
    <3>1. Q \ P \in SUBSET Waiting /\ P \cap (Q \ P) = {} /\ P \cup (Q \ P) = Q
      OBVIOUS
    <3>2. /\ TotalOf(WeightOf, Q) = TotalOf(WeightOf, P) + TotalOf(WeightOf, Q \ P)
          /\ TotalOf(WeightOf, P) \in Nat /\ TotalOf(WeightOf, Q \ P) \in Nat
      <4>1. TotalOf(WeightOf, P \cup (Q \ P)) = TotalOf(WeightOf, P) + TotalOf(WeightOf, Q \ P)
        BY <1>0, <2>3, <3>1, OrderTotals
      <4> QED
        BY <1>0, <2>3, <3>1, <4>1, OrderTotals
    <3> QED
      BY <1>1, <3>2
  <2>7. Selectable(p, n)
    <3>1. p < product /\ n \in 0..MaxCount
      BY <1>0, <1>1, <2>4
    <3> HIDE DEF p, n, P
    <3> QED
      BY <2>2, <2>4, <2>5, <2>6, <3>1 DEF BundlingIInv, BundlesSelectable
  <2>8. PICK chosen \in SUBSET ChunksOf(p) : Cardinality(OrdersOf(chosen)) = n
    BY <2>7 DEF Selectable, OrdersOf
  <2> DEFINE V == OrdersOf(chosen)
  <2>9. /\ chosen \in SUBSET DOMAIN items
        /\ \A i \in chosen : \A o \in items[i] : o[1] = p
        /\ \A o \in V : o[1] = p
        /\ V \in SUBSET Waiting
    <3>1. chosen \in SUBSET DOMAIN items /\ \A i \in chosen : \A o \in items[i] : o[1] = p
      BY <2>8 DEF ChunksOf
    <3>2. \A o \in V : o[1] = p
      BY <3>1 DEF OrdersOf
    <3> QED
      BY <3>1, <3>2, OrdersOfType
  <2>10. /\ TotalOf(WeightOf, V) = n * catalogue[p].weight
         /\ TotalOf(ValueOf, V) = n * catalogue[p].value
    BY <1>0, <2>2, <2>8, <2>9, OrderTotals
  <2>11. OrdersOf(S \cup chosen) = OrdersOf(S) \cup V
    BY DEF OrdersOf
  <2>12. OrdersOf(S) \cap V = {} /\ OrdersOf(S) \in SUBSET Waiting
    <3>1. \A o \in OrdersOf(S) : o[1] <= k
      BY <2>1 DEF OrdersOf
    <3>2. OrdersOf(S) \in SUBSET Waiting
      BY OrdersOfType
    <3>3. ~(p <= k)
      OBVIOUS
    <3> QED
      BY <2>9, <3>1, <3>2, <3>3
  <2>13. /\ TotalOf(WeightOf, OrdersOf(S \cup chosen)) = TotalOf(WeightOf, OrdersOf(S)) + TotalOf(WeightOf, V)
         /\ TotalOf(ValueOf, OrdersOf(S \cup chosen)) = TotalOf(ValueOf, OrdersOf(S)) + TotalOf(ValueOf, V)
    <3> HIDE DEF V
    <3>1. /\ TotalOf(WeightOf, OrdersOf(S) \cup V) = TotalOf(WeightOf, OrdersOf(S)) + TotalOf(WeightOf, V)
          /\ TotalOf(ValueOf, OrdersOf(S) \cup V) = TotalOf(ValueOf, OrdersOf(S)) + TotalOf(ValueOf, V)
      BY <1>0, <2>9, <2>12, OrderTotals
    <3> QED
      BY <2>11, <3>1
  <2>14. /\ TotalOf(WeightOf, Upto(p)) = TotalOf(WeightOf, Upto(k)) + TotalOf(WeightOf, P)
         /\ TotalOf(ValueOf, Upto(p)) = TotalOf(ValueOf, Upto(k)) + TotalOf(ValueOf, P)
    <3>1. /\ TotalOf(WeightOf, Upto(k) \cup P) = TotalOf(WeightOf, Upto(k)) + TotalOf(WeightOf, P)
          /\ TotalOf(ValueOf, Upto(k) \cup P) = TotalOf(ValueOf, Upto(k)) + TotalOf(ValueOf, P)
      <4> HIDE DEF Upto, P, p
      <4> QED
        BY <1>0, <2>3, OrderTotals
    <3> QED
      BY <2>3, <3>1
  <2>15. \A i \in S \cup chosen : \A o \in items[i] : o[1] <= p
    <3>1. ASSUME NEW i \in S, NEW o \in items[i]
          PROVE  o[1] <= p
      <4>1. o[1] <= k
        BY <2>1
      <4>2. o[1] \in Nat
        BY <1>0, <1>1, Items DEF BundlingIInv, TypeOK
      <4> QED
        BY <4>1, <4>2
    <3> QED
      BY <2>9, <3>1
  <2>16. Match(p, S \cup chosen)
    BY <2>1, <2>5, <2>10, <2>13, <2>14, <2>15
  <2>17. S \cup chosen \in SUBSET DOMAIN items
    BY <2>9
  <2> HIDE DEF Match
  <2> QED
    BY <2>16, <2>17
<1> HIDE DEF G
<1>4. Len(catalogue) \in G
  BY <1>1, <1>2, <1>3, Counting
<1>5. PICK S \in SUBSET DOMAIN items : Match(Len(catalogue), S)
  BY <1>1, <1>4 DEF G
<1>6. Upto(Len(catalogue)) = Q
  BY <1>1
<1> QED
  BY <1>5, <1>6, UnbundledTotals

(* An item of positive value holds only orders of positive value. *)
LEMMA ItemOfValue ==
  ASSUME BundlingIInv, NEW i \in DOMAIN items, ItemValue(i) > 0
  PROVE  items[i] \subseteq {o \in Waiting : ValueOf[o] > 0}
<1>1. PICK p \in DOMAIN catalogue : \A o \in items[i] : o[1] = p
  BY DEF BundlingIInv, ChunksAreApart
<1>2. items[i] \in SUBSET Waiting
  BY Items DEF BundlingIInv, TypeOK
<1>3. /\ IsFiniteSet(items[i])
      /\ TotalOf(ValueOf, items[i]) = Cardinality(items[i]) * catalogue[p].value
  BY <1>1, <1>2, OrderTotals DEF BundlingIInv
<1>4. catalogue[p].value \in Nat /\ Cardinality(items[i]) \in Nat
  BY <1>3, Inputs, FS_CardinalityType DEF BundlingIInv
<1>5. catalogue[p].value > 0
  <2>1. \A k \in Nat : k * 0 = 0
    OBVIOUS
  <2>2. catalogue[p].value # 0
    BY <1>3, <1>4, <2>1 DEF ItemValue
  <2> QED
    BY <1>4, <2>2
<1>6. \A o \in items[i] : ValueOf[o] = catalogue[p].value
  BY <1>1, <1>2, WaitingOrders DEF BundlingIInv
<1> QED
  BY <1>2, <1>5, <1>6

(* What keepTrack of a cell unbundles to are the orders of its items. *)
LEMMA UnbundledOrders ==
  ASSUME BundlingIInv, NEW x \in Cells
  PROVE  Unbundled(keepTrack[x]) = OrdersOf(Chosen(x)) /\ Chosen(x) \in SUBSET DOMAIN items
<1>1. keepTrack[x] \in Seq(DOMAIN items)
  BY DEF BundlingIInv, TypeOK
<1>2. \A i \in DOMAIN keepTrack[x] : keepTrack[x][i] \in DOMAIN items
  BY <1>1
<1>3. Chosen(x) \in SUBSET DOMAIN items
  BY <1>2 DEF Chosen
<1>4. \A o : o \in Unbundled(keepTrack[x]) <=> \E i \in DOMAIN keepTrack[x] : o \in items[keepTrack[x][i]]
  BY DEF Unbundled
<1>5. \A o : o \in OrdersOf(Chosen(x)) <=> \E i \in DOMAIN keepTrack[x] : o \in items[keepTrack[x][i]]
  BY DEF OrdersOf, Chosen
<1> QED
  BY <1>3, <1>4, <1>5

(* When the table is full, the first cell of the greatest value holds a     *)
(* best plan.                                                               *)
LEMMA FullTable ==
  ASSUME BundlingIInv, CellsAreBest, CellsTakeValue, pc = "fill", item > Len(items)
  PROVE  Unbundled(keepTrack[BestCell]) \in BestPlans(Waiting, WeightOf, ValueOf, capacity)
<1> DEFINE best == BestCell
           P == OrdersOf(Chosen(best))
<1>1. /\ capacity \in Nat /\ capacity \in Cells
      /\ best \in Cells /\ best \in Nat /\ best <= capacity
      /\ dp[best] \in Nat /\ dp[capacity] \in Nat /\ dp[capacity] <= dp[best]
  <2>1. capacity \in Nat /\ dp \in [Cells -> Nat]
    BY Inputs DEF BundlingIInv, TypeOK
  <2>2. best \in Cells /\ \A y \in Cells : dp[y] <= dp[best]
    BY <2>1, BestCellExists
  <2>3. capacity \in Cells
    BY <2>1 DEF Cells
  <2> HIDE DEF best
  <2> QED
    BY <2>1, <2>2, <2>3 DEF Cells
<1> HIDE DEF best
<1>2. Visited(capacity) = DOMAIN items
  <2>1. w = capacity /\ item = Len(items) + 1 /\ Len(items) \in Nat
    BY Items DEF CellsTakeValue, BundlingIInv, TypeOK
  <2>2. ~(capacity > w) /\ item - 1 = Len(items) /\ DOMAIN items = 1..Len(items)
    BY <1>1, <2>1, Items DEF BundlingIInv, TypeOK
  <2> QED
    BY <2>2 DEF Visited
<1>3. CellIsBest(best) /\ CellIsBest(capacity)
  BY <1>1, CellsAreBestByCell
<1>4. Chosen(best) \in SUBSET DOMAIN items /\ Unbundled(keepTrack[best]) = P
  BY <1>1, UnbundledOrders
<1>5. /\ TotalOf(WeightOf, P) = WeightOfItems(Chosen(best)) /\ TotalOf(ValueOf, P) = dp[best]
      /\ WeightOfItems(Chosen(best)) \in Nat /\ WeightOfItems(Chosen(best)) <= best
  BY <1>3, <1>4, UnbundledTotals, ItemTotals DEF CellIsBest
<1>6. P \in FeasiblePlans(Waiting, WeightOf, ValueOf, capacity)
  <2>1. \A i \in Chosen(best) : ItemValue(i) > 0
    BY <1>1 DEF CellsTakeValue
  <2>2. \A i \in Chosen(best) : items[i] \subseteq {o \in Waiting : ValueOf[o] > 0}
    BY <1>4, <2>1, ItemOfValue
  <2>3. P \subseteq {o \in Waiting : ValueOf[o] > 0}
    BY <2>2 DEF OrdersOf
  <2>4. TotalOf(WeightOf, P) <= capacity
    BY <1>1, <1>5
  <2> QED
    BY <2>3, <2>4 DEF FeasiblePlans
<1>7. ASSUME NEW Q \in FeasiblePlans(Waiting, WeightOf, ValueOf, capacity)
      PROVE  TotalOf(ValueOf, Q) <= TotalOf(ValueOf, P)
  <2>1. Q \in SUBSET Waiting /\ TotalOf(WeightOf, Q) <= capacity
    BY DEF FeasiblePlans
  <2>2. PICK S \in SUBSET DOMAIN items : /\ WeightOfItems(S) = TotalOf(WeightOf, Q)
                                         /\ ValueOfItems(S) = TotalOf(ValueOf, Q)
    BY <2>1, ChunksMatchOrders
  <2>3. ValueOfItems(S) <= dp[capacity]
    BY <1>2, <1>3, <2>1, <2>2 DEF CellIsBest
  <2>4. ValueOfItems(S) \in Nat
    BY ItemTotals
  <2> QED
    BY <1>1, <1>5, <2>2, <2>3, <2>4
<1>8. P \in BestPlans(Waiting, WeightOf, ValueOf, capacity)
  <2> HIDE DEF P
  <2> QED
    BY <1>6, <1>7 DEF BestPlans
<1> QED
  BY <1>4, <1>8 DEF best

-----------------------------------------------------------------------------
(* The theorems                                                             *)

(* Every step keeps the whole invariant. *)
LEMMA KnapsackInductive == KnapsackIInv /\ [Next]_vars => KnapsackIInv'
<1> SUFFICES ASSUME KnapsackIInv, [Next]_vars
             PROVE  KnapsackIInv'
  OBVIOUS
<1> USE DEF KnapsackIInv
<1>1. BundlingIInv'
  BY BundlingInductive
<1>2. CASE Bundle
  <2>1. pc' = "chunk"
    BY <1>2 DEF Bundle
  <2> QED
    BY <1>1, <2>1 DEF CellsAreBest, CellsTakeValue, PlanIsBest
<1>3. CASE StartFilling
  <2>1. pc' = "fill"
    BY <1>3 DEF StartFilling
  <2> QED
    BY <1>1, <1>3, <2>1, StartFillingCells DEF PlanIsBest
<1>4. CASE FillCell
  <2>1. pc' = "fill"
    BY <1>4 DEF FillCell
  <2> QED
    BY <1>1, <1>4, <2>1, FillCellCells DEF PlanIsBest
<1>5. CASE NextItem
  <2>1. pc' = "fill"
    BY <1>5 DEF NextItem
  <2> QED
    BY <1>1, <1>5, <2>1, NextItemCells DEF PlanIsBest
<1>6. CASE Restore
  <2>1. /\ pc = "fill" /\ item > Len(items) /\ pc' = "done"
        /\ plan' = Unbundled(keepTrack[BestCell])
        /\ catalogue' = catalogue /\ count' = count /\ capacity' = capacity
    BY <1>6 DEF Restore, input
  <2>2. plan' \in BestPlans(Waiting, WeightOf, ValueOf, capacity)
    BY <2>1, FullTable
  <2>3. Waiting' = Waiting /\ WeightOf' = WeightOf /\ ValueOf' = ValueOf
    BY <2>1 DEF Waiting, Orders, WeightOf, ValueOf
  <2>4. PlanIsBest'
    BY <2>1, <2>2, <2>3 DEF PlanIsBest
  <2> QED
    BY <1>1, <2>1, <2>4 DEF CellsAreBest, CellsTakeValue
<1>7. CASE Cancel
  <2>1. pc' = "cancelled"
    BY <1>7 DEF Cancel
  <2> QED
    BY <1>1, <2>1 DEF CellsAreBest, CellsTakeValue, PlanIsBest
<1>8. CASE UNCHANGED vars
  <2>1. /\ UNCHANGED <<catalogue, count, capacity, pc, items, item, w, dp, keepTrack, plan>>
        /\ UNCHANGED <<input, items>>
    BY <1>8 DEF vars, input, filling
  <2>2. /\ \A i : ItemValue(i)' = ItemValue(i)
        /\ \A S : WeightOfItems(S)' = WeightOfItems(S) /\ ValueOfItems(S)' = ValueOfItems(S)
    BY <2>1, TotalsStay
  <2>3. CellsAreBest'
    BY <2>1, <2>2 DEF CellsAreBest, Cells, Visited, Chosen
  <2>4. CellsTakeValue'
    BY <2>1, <2>2 DEF CellsTakeValue, Cells, Chosen
  <2>5. PlanIsBest'
    BY <2>1 DEF PlanIsBest, Waiting, Orders, WeightOf, ValueOf
  <2> QED
    BY <1>1, <2>3, <2>4, <2>5
<1> QED
  BY <1>2, <1>3, <1>4, <1>5, <1>6, <1>7, <1>8 DEF Next

(* The four parts of the invariant hold in every state of the computation. *)
LEMMA KnapsackInvariant == Spec => []KnapsackIInv
<1>1. Init => KnapsackIInv
  <2> SUFFICES ASSUME Init PROVE KnapsackIInv
    OBVIOUS
  <2>1. BundlingIInv
    BY InitBundling
  <2>2. pc = "chunk"
    BY DEF Init
  <2> QED
    BY <2>1, <2>2 DEF KnapsackIInv, CellsAreBest, CellsTakeValue, PlanIsBest
<1> QED
  BY <1>1, KnapsackInductive, PTL DEF Spec

(* The loop variables stay in range, so that no index of dp, keepTrack or   *)
(* the chunks is out of bounds, and a plan holds waiting orders only        *)
(* (selectOrdersForDelivery).                                               *)
THEOREM TypeCorrect == Spec => []TypeOK
<1>1. KnapsackIInv => TypeOK
  BY DEF KnapsackIInv, BundlingIInv
<1> QED
  BY <1>1, KnapsackInvariant, PTL

(* For every catalogue, number of orders and capacity the doubling chunk    *)
(* sizes leave no gap: any number of waiting orders of a product that fits  *)
(* the robot is the number of orders of some of its chunks.                 *)
THEOREM ChunksLeaveNoGap == Spec => []EveryCountCanBeChosen
<1>1. KnapsackIInv => EveryCountCanBeChosen
  <2> SUFFICES ASSUME BundlingIInv, pc = "fill",
                      NEW p \in DOMAIN catalogue, NEW n \in 0..MaxCount,
                      n <= count[p], n * catalogue[p].weight <= capacity
               PROVE  Selectable(p, n)
    BY DEF KnapsackIInv, EveryCountCanBeChosen, Selectable
  <2>1. product = Len(catalogue) + 1
    BY DEF BundlingIInv, BundlesSelectable
  <2>2. p < product
    BY <2>1, Inputs DEF BundlingIInv
  <2> QED
    BY <2>2 DEF BundlingIInv, BundlesSelectable
<1> QED
  BY <1>1, KnapsackInvariant, PTL

(* The loop invariant of the dynamic programme: after every cell, dp is the *)
(* best value of the items visited and keepTrack attains it.                *)
THEOREM TableIsRight == Spec => []CellsAreBest
<1>1. KnapsackIInv => CellsAreBest
  BY DEF KnapsackIInv
<1> QED
  BY <1>1, KnapsackInvariant, PTL

(* The plan that selectOrdersForDelivery returns fits the robot, and no     *)
(* other choice of waiting orders that fits is worth more.                  *)
THEOREM PlanIsOptimal == Spec => []PlanIsBest
<1>1. KnapsackIInv => PlanIsBest
  BY DEF KnapsackIInv
<1> QED
  BY <1>1, KnapsackInvariant, PTL

=============================================================================
