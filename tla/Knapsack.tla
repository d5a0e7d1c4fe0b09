------------------------------ MODULE Knapsack ------------------------------
(***************************************************************************)
(* selectOrdersForDelivery (service/robot.go): the orders of a product are *)
(* bundled into chunks, the chunks are the items of a 0/1 knapsack over    *)
(* the robot's capacity, and the plan is read back from the best cell.     *)
(* One step per chunk and one step per cell of the dynamic programme, in   *)
(* the order of the loops.  An order is a pair: its product and its rank   *)
(* among the product's orders by id.                                       *)
(***************************************************************************)
EXTENDS Integers, Sequences, PlanSelection

CONSTANTS
  Catalogues,   \* catalogues to try: sequences of [weight, value] records
  Capacities,   \* robot capacities to try
  MaxCount      \* bound: orders of one product

ASSUME KnapsackAssumption ==
  /\ MaxCount \in Nat
  /\ Capacities \subseteq Nat
  /\ \A cat \in Catalogues : cat \in Seq([weight : Nat, value : Nat])

VARIABLES
  catalogue,   \* input: the products, in the order of their ids
  count,       \* input: how many orders of each product are waiting
  capacity,    \* input: robotCapacity
  pc,          \* "chunk", "fill", "done" or "cancelled"
  product,     \* chunking: the product whose orders are being bundled
  index,       \* chunking: how many of its orders are bundled
  chunkSize,   \* chunking: the size of the next chunk
  items,       \* aggregated: the chunks, each a set of orders
  item, w,     \* filling: the loop variables i and w
  dp,          \* dp[w]: the best value within weight w
  keepTrack,   \* keepTrack[w]: the items that make up dp[w]
  plan         \* the orders of the returned plan

input == <<catalogue, count, capacity>>
chunking == <<product, index, chunkSize>>
filling == <<item, w, dp, keepTrack>>
vars == <<input, pc, chunking, items, filling, plan>>

Orders == {<<p, n>> : p \in DOMAIN catalogue, n \in 1..MaxCount}
Waiting == {o \in Orders : o[2] <= count[o[1]]}
WeightOf == [o \in Orders |-> catalogue[o[1]].weight]
ValueOf == [o \in Orders |-> catalogue[o[1]].value]
Cells == 0..capacity

Smaller(a, b) == IF a < b THEN a ELSE b

Init ==
  /\ catalogue \in Catalogues
  /\ capacity \in Capacities
  /\ count \in [DOMAIN catalogue -> 0..MaxCount]
  /\ pc = "chunk"
  /\ product = 1 /\ index = 0 /\ chunkSize = 1
  /\ items = <<>>
  /\ item = 1 /\ w = capacity
  /\ dp = [x \in Cells |-> 0]
  /\ keepTrack = [x \in Cells |-> <<>>]
  /\ plan = {}

-----------------------------------------------------------------------------
(* Bundling the orders of a product *)

UnitWeight == catalogue[product].weight
Remaining == count[product] - index
MaxChunkByCapacity == capacity \div UnitWeight

(* Mutant: the chunk size of a product is carried over to the next one. *)
NextProductKeepsSize == product' = product + 1 /\ index' = 0 /\ UNCHANGED chunkSize

NextProduct == product' = product + 1 /\ index' = 0 /\ chunkSize' = 1

(* Orders without weight stay single. *)
SingleOrders ==
  /\ UnitWeight = 0
  /\ items' = items \o [n \in 1..count[product] |-> {<<product, n>>}]
  /\ NextProduct

(* All orders are bundled, or not even one fits. *)
SkipProduct ==
  /\ UnitWeight > 0
  /\ Remaining = 0 \/ MaxChunkByCapacity = 0
  /\ NextProduct
  /\ UNCHANGED items

(* Mutant: a chunk may run past the last order. *)
ChunkPastTheEnd == Smaller(chunkSize, MaxChunkByCapacity)

ActualChunk == Smaller(Smaller(chunkSize, Remaining), MaxChunkByCapacity)

(* Chunks double in size up to what fits the capacity, and stop growing    *)
(* when the rest is no larger than the chunk.                              *)
(* Mutant: chunks grow so fast that they leave gaps.                       *)
QuadruplingSize(rest) ==
  IF chunkSize < rest THEN Smaller(chunkSize * 4, MaxChunkByCapacity) ELSE chunkSize

NextChunkSize(rest) ==
  IF chunkSize < rest THEN Smaller(chunkSize * 2, MaxChunkByCapacity) ELSE chunkSize

BundleChunk ==
  /\ UnitWeight > 0
  /\ Remaining > 0 /\ MaxChunkByCapacity > 0
  /\ items' = Append(items, {<<product, n>> : n \in (index + 1)..(index + ActualChunk)})
  /\ index' = index + ActualChunk
  /\ chunkSize' = NextChunkSize(Remaining - ActualChunk)
  /\ UNCHANGED product

Bundle ==
  /\ pc = "chunk"
  /\ product <= Len(catalogue)
  /\ SingleOrders \/ SkipProduct \/ BundleChunk
  /\ UNCHANGED <<input, pc, filling, plan>>

StartFilling ==
  /\ pc = "chunk"
  /\ product > Len(catalogue)
  /\ pc' = "fill"
  /\ UNCHANGED <<input, chunking, items, filling, plan>>

-----------------------------------------------------------------------------
(* Filling the table *)

ItemWeight(i) == TotalOf(WeightOf, items[i])
ItemValue(i) == TotalOf(ValueOf, items[i])

(* The loop over w goes down to the weight of the item itself. *)
(* Mutant: the cell the item fills exactly is left out. *)
RoomToSpare == w > ItemWeight(item)

Fits == w >= ItemWeight(item)

(* The cells of a row are visited from the capacity down, so that a cell   *)
(* builds on the row of the previous item.                                 *)
FillCell ==
  /\ pc = "fill"
  /\ item <= Len(items)
  /\ Fits
  /\ LET rest == w - ItemWeight(item)
         better == dp[rest] + ItemValue(item) > dp[w]
     IN  /\ dp' = IF better THEN [dp EXCEPT ![w] = dp[rest] + ItemValue(item)] ELSE dp
         /\ keepTrack' = IF better
                         THEN [keepTrack EXCEPT ![w] = Append(keepTrack[rest], item)]
                         ELSE keepTrack
  /\ w' = w - 1
  /\ UNCHANGED <<input, pc, chunking, items, item, plan>>

(* The rows of the remaining cells keep their values; an item that weighs  *)
(* more than the capacity is skipped altogether.                           *)
NextItem ==
  /\ pc = "fill"
  /\ item <= Len(items)
  /\ ~Fits
  /\ item' = item + 1
  /\ w' = capacity
  /\ UNCHANGED <<input, pc, chunking, items, dp, keepTrack, plan>>

(* The first cell of the greatest value; its items are unbundled again. *)
BestCell == CHOOSE x \in Cells :
              /\ \A y \in Cells : dp[y] <= dp[x]
              /\ \A y \in 0..(x - 1) : dp[y] < dp[x]

Unbundled(chosen) == UNION {items[chosen[i]] : i \in DOMAIN chosen}

Restore ==
  /\ pc = "fill"
  /\ item > Len(items)
  /\ plan' = Unbundled(keepTrack[BestCell])
  /\ pc' = "done"
  /\ UNCHANGED <<input, chunking, items, filling>>

(* The context is looked at once every so many cells; a cancelled call has *)
(* no plan.                                                                *)
Cancel ==
  /\ pc = "fill"
  /\ item <= Len(items)
  /\ Fits
  /\ pc' = "cancelled"
  /\ UNCHANGED <<input, chunking, items, filling, plan>>

Next == Bundle \/ StartFilling \/ FillCell \/ NextItem \/ Restore \/ Cancel

Spec == Init /\ [][Next]_vars

-----------------------------------------------------------------------------
(* Properties *)

TypeOK ==
  /\ pc \in {"chunk", "fill", "done", "cancelled"}
  /\ product \in 1..(Len(catalogue) + 1)
  /\ index \in 0..MaxCount
  /\ chunkSize \in 1..(MaxCount + capacity + 1)
  /\ items \in Seq(SUBSET Waiting)
  /\ item \in 1..(Len(items) + 1)
  /\ w \in -1..capacity
  /\ dp \in [Cells -> Nat]
  /\ keepTrack \in [Cells -> Seq(DOMAIN items)]
  /\ plan \subseteq Waiting

(* Bundling loses no plan: of every product, any number of orders that is  *)
(* waiting and fits the robot can be put together from its chunks.         *)
ChunksOf(p) == {i \in DOMAIN items : \A o \in items[i] : o[1] = p}

EveryCountCanBeChosen ==
  pc = "fill" =>
    \A p \in DOMAIN catalogue, n \in 0..MaxCount :
      n <= count[p] /\ n * catalogue[p].weight <= capacity =>
        \E chosen \in SUBSET ChunksOf(p) :
          Cardinality(UNION {items[i] : i \in chosen}) = n

(* The loop invariant of the dynamic programme: each cell holds the best   *)
(* value of the items visited so far, cells at or below w still without    *)
(* the current item, and keepTrack is a choice of items that attains it.   *)
Visited(x) == 1..(IF x > w THEN item ELSE item - 1)
ItemWeights == [i \in DOMAIN items |-> ItemWeight(i)]
ItemValues == [i \in DOMAIN items |-> ItemValue(i)]
WeightOfItems(S) == TotalOf(ItemWeights, S)
ValueOfItems(S) == TotalOf(ItemValues, S)
Chosen(x) == {keepTrack[x][i] : i \in DOMAIN keepTrack[x]}

CellsAreBest ==
  pc = "fill" => \A x \in Cells :
    /\ \A S \in SUBSET Visited(x) : WeightOfItems(S) <= x => ValueOfItems(S) <= dp[x]
    /\ Chosen(x) \subseteq Visited(x)
    /\ Cardinality(Chosen(x)) = Len(keepTrack[x])
    /\ WeightOfItems(Chosen(x)) <= x
    /\ ValueOfItems(Chosen(x)) = dp[x]

(* The plan keeps the promise the rest of the system relies on: it fits    *)
(* and no other choice of waiting orders is worth more.                    *)
PlanIsBest ==
  pc = "done" => plan \in BestPlans(Waiting, WeightOf, ValueOf, capacity)
=============================================================================
