-------------------------- MODULE StorefrontProofs --------------------------
(***************************************************************************)
(* Proofs about the product page: for any catalogue and any number of      *)
(* listing requests, quantities and orders.                                *)
(***************************************************************************)
EXTENDS Storefront, FiniteSetTheorems, TLAPS

(* The newest request asks for what the page says it shows. *)
GridInv ==
  /\ newest <= sent
  /\ \A f \in fetches : f.id <= sent /\ (f.id = sent => f.query = view)
  /\ newest = sent => shown \in {view, NoRows}

(* Rows hold entries that were typed for them. *)
FormInv ==
  \A p \in Products :
    /\ quantities[p] <= typed
    /\ quantities[p] # 0 => productOf[quantities[p]] = p

(* What an order that has succeeded, or that the page no longer waits for, *)
(* took from the form is not in it any more.                               *)
PostInv ==
  /\ \A i, j \in Posts : i < j /\ posts[i].state = "none" => posts[j].state = "none"
  /\ \A i \in Posts :
       /\ posts[i].state = "none" => posts[i].entries = {}
       /\ posts[i].typed <= typed
       /\ \A e \in posts[i].entries : e <= typed
       /\ posts[i].state = "done" \/ posts[i].left =>
            \A p \in Products : quantities[p] \notin posts[i].entries
  /\ \A i \in Posts, e \in Entries :
       <<e, i>> \in orders <=>
         e \in posts[i].entries /\ posts[i].state \in {"served", "done", "lost"}

(* An order takes along an entry of an earlier one only when that one is   *)
(* under way or has failed.                                                *)
ResendInv ==
  \A i, j \in Posts : i < j =>
    \A e \in posts[i].entries \cap posts[j].entries :
      i \in posts[j].during \/ posts[i].state \in {"lost", "failed"}

(* What stood in a row on display when an order was sent, and still does,  *)
(* is in the order.                                                        *)
TakenInv ==
  \A i \in Posts : UnderWay(i) /\ ~posts[i].left =>
    \A p \in posts[i].rows \cap Products :
      quantities[p] \in 1..posts[i].typed => quantities[p] \in posts[i].entries

StorefrontIInv ==
  /\ TypeOK /\ GridInv /\ FormInv /\ PostInv /\ ResendInv /\ TakenInv
  /\ VanishedOnlyByAnotherOrder

-----------------------------------------------------------------------------
(* The listing *)

(* A search finds at most the catalogue. *)
LEMMA CountBounded ==
  ASSUME NEW query \in Queries
  PROVE  CountProducts(query) \in 0..Cardinality(Products)
<1>1. Hits[query.search] \subseteq Products
  BY ListingAssumption DEF Queries
<1>2. IsFiniteSet(Products)
  BY ListingAssumption
<1>3. /\ IsFiniteSet(Hits[query.search])
      /\ Cardinality(Hits[query.search]) <= Cardinality(Products)
  BY <1>1, <1>2, FS_Subset
<1>4. Cardinality(Hits[query.search]) \in Nat /\ Cardinality(Products) \in Nat
  BY <1>2, <1>3, FS_CardinalityType
<1>5. QED
  BY <1>3, <1>4 DEF CountProducts

(* The grid displays products of the catalogue. *)
LEMMA DisplayedProducts ==
  ASSUME TypeOK
  PROVE  Displayed \subseteq Products
BY ListingAssumption DEF TypeOK, Displayed, ListProducts, Queries

-----------------------------------------------------------------------------
(* The pages of a listing                                                   *)

(* The hits of a query are finitely many products with comparable keys.     *)
LEMMA HitsOfQuery ==
  ASSUME NEW query \in Queries
  PROVE  /\ IsFiniteSet(Hits[query.search]) /\ CountProducts(query) \in Nat
         /\ \A p \in Hits[query.search] : p \in Nat /\ Key[query.field][p] \in Int
<1>1. Hits[query.search] \subseteq Products /\ Key[query.field] \in [Products -> Int]
  BY ListingAssumption DEF Queries
<1>2. IsFiniteSet(Hits[query.search])
  BY <1>1, ListingAssumption, FS_Subset
<1>3. CountProducts(query) \in Nat
  BY <1>2, FS_CardinalityType DEF CountProducts
<1>4. \A p \in Hits[query.search] : p \in Nat /\ Key[query.field][p] \in Int
  BY <1>1, ListingAssumption
<1> QED
  BY <1>2, <1>3, <1>4

(* ORDER BY the field and then by product_id is a strict total order.       *)
LEMMA HitsAreOrdered ==
  ASSUME NEW query \in Queries
  PROVE  \A p, q \in Hits[query.search] :
           /\ ~Before(p, p, query)
           /\ p # q => Before(p, q, query) \/ Before(q, p, query)
           /\ \A r \in Hits[query.search] :
                Before(r, p, query) /\ Before(p, q, query) => Before(r, q, query)
<1> SUFFICES ASSUME NEW p \in Hits[query.search], NEW q \in Hits[query.search],
                    NEW r \in Hits[query.search]
             PROVE  /\ ~Before(p, p, query)
                    /\ p # q => Before(p, q, query) \/ Before(q, p, query)
                    /\ Before(r, p, query) /\ Before(p, q, query) => Before(r, q, query)
  OBVIOUS
<1> DEFINE key == Key[query.field]
<1>1. /\ p \in Nat /\ q \in Nat /\ r \in Nat
      /\ key[p] \in Int /\ key[q] \in Int /\ key[r] \in Int
  BY HitsOfQuery
<1>2. CASE SortOrder(query.order) = "ASC"
  <2>1. \A x, y : Before(x, y, query) <=> key[x] < key[y] \/ (key[x] = key[y] /\ x < y)
    BY <1>2 DEF Before
  <2> HIDE DEF key
  <2> QED
    BY <1>1, <2>1
<1>3. CASE SortOrder(query.order) # "ASC"
  <2>1. \A x, y : Before(x, y, query) <=> key[x] > key[y] \/ (key[x] = key[y] /\ x < y)
    BY <1>3 DEF Before
  <2> HIDE DEF key
  <2> QED
    BY <1>1, <2>1
<1> QED
  BY <1>2, <1>3

(* Every hit has a place of its own among the hits.                         *)
LEMMA PlacesDiffer ==
  ASSUME NEW query \in Queries
  PROVE  \A p \in Hits[query.search] :
           /\ Place(p, query) \in Nat /\ Place(p, query) < CountProducts(query)
           /\ \A q \in Hits[query.search] : p # q => Place(p, query) # Place(q, query)
<1> DEFINE H == Hits[query.search]
           Earlier(p) == {q \in H : Before(q, p, query)}
<1>1. ASSUME NEW S, S \subseteq H
      PROVE  IsFiniteSet(S) /\ Cardinality(S) \in Nat
  BY <1>1, HitsOfQuery, FS_Subset, FS_CardinalityType
<1>2. ASSUME NEW S, NEW T, NEW p, S \subseteq T, T \subseteq H, p \in T, p \notin S
      PROVE  Cardinality(S) < Cardinality(T)
  <2>1. S \subseteq T \ {p}
    BY <1>2
  <2>2. /\ IsFiniteSet(T) /\ Cardinality(T) \in Nat
        /\ IsFiniteSet(T \ {p}) /\ Cardinality(T \ {p}) = Cardinality(T) - 1
    BY <1>1, <1>2, FS_RemoveElement
  <2>3. Cardinality(S) <= Cardinality(T \ {p}) /\ Cardinality(S) \in Nat
    BY <1>1, <1>2, <2>1, <2>2, FS_Subset
  <2> QED
    BY <2>2, <2>3
<1>3. ASSUME NEW p \in H
      PROVE  Place(p, query) \in Nat /\ Place(p, query) < CountProducts(query)
  <2>1. p \notin Earlier(p) /\ Earlier(p) \subseteq H
    BY HitsAreOrdered
  <2>2. Cardinality(Earlier(p)) < Cardinality(H) /\ Cardinality(Earlier(p)) \in Nat
    <3> HIDE DEF Earlier, H
    <3> QED
      BY <1>1, <1>2, <1>3, <2>1
  <2> QED
    BY <2>2 DEF Place, CountProducts
<1>4. ASSUME NEW p \in H, NEW q \in H, Before(p, q, query)
      PROVE  Place(p, query) < Place(q, query)
  <2>1. Earlier(p) \subseteq Earlier(q) /\ p \in Earlier(q) /\ p \notin Earlier(p)
    BY <1>4, HitsAreOrdered
  <2>2. Earlier(q) \subseteq H
    OBVIOUS
  <2>3. Cardinality(Earlier(p)) < Cardinality(Earlier(q))
    <3> HIDE DEF Earlier, H
    <3> QED
      BY <1>2, <2>1, <2>2
  <2> QED
    BY <2>3 DEF Place
<1>5. ASSUME NEW p \in H, NEW q \in H, p # q
      PROVE  Place(p, query) # Place(q, query)
  <2>1. Before(p, q, query) \/ Before(q, p, query)
    BY <1>5, HitsAreOrdered
  <2>2. Place(p, query) \in Nat /\ Place(q, query) \in Nat
    BY <1>3
  <2>3. Place(p, query) < Place(q, query) \/ Place(q, query) < Place(p, query)
    BY <1>4, <2>1
  <2> QED
    BY <2>2, <2>3
<1> QED
  BY <1>3, <1>5

(* Pages of the same size split the places: each falls into exactly one.    *)
LEMMA OnePageEach ==
  ASSUME NEW size \in Nat \ {0}, NEW place \in Nat, NEW n \in Nat \ {0}
  PROVE  (n - 1) * size <= place /\ place < (n - 1) * size + size
           <=> n = (place \div size) + 1
<1> DEFINE d == place \div size
<1>1. d \in Nat /\ d * size <= place /\ place < d * size + size
  OBVIOUS
<1> HIDE DEF d
<1>2. ASSUME NEW i \in Nat, NEW j \in Nat, i < j
      PROVE  i * size + size <= j * size
  <2>1. PICK k \in Nat : j = i + 1 + k
    <3>1. j - i - 1 \in Nat /\ j = i + 1 + (j - i - 1)
      BY <1>2
    <3> QED
      BY <3>1
  <2>2. (i + 1 + k) * size = i * size + size + k * size
    OBVIOUS
  <2>3. k * size \in Nat /\ i * size \in Nat
    OBVIOUS
  <2> QED
    BY <2>1, <2>2, <2>3
<1>3. ASSUME NEW m \in Nat, m * size <= place, place < m * size + size
      PROVE  m = d
  <2>1. m * size \in Nat /\ d * size \in Nat
    BY <1>1
  <2>2. ~(m < d)
    BY <1>1, <1>2, <1>3, <2>1
  <2>3. ~(d < m)
    BY <1>1, <1>2, <1>3, <2>1
  <2> QED
    BY <1>1, <2>2, <2>3
<1>4. n - 1 \in Nat
  OBVIOUS
<1>5. n = d + 1 => n - 1 = d
  BY <1>1
<1>6. n - 1 = d => n = d + 1
  BY <1>1
<1> QED
  BY <1>1, <1>3, <1>4, <1>5, <1>6 DEF d

(* What a page of the listing holds. *)
LEMMA RowsOfPage ==
  ASSUME NEW query \in Queries, NEW n \in Nat \ {0}
  PROVE  ListProducts([query EXCEPT !.page = n]) =
           {p \in Hits[query.search] :
              /\ (n - 1) * query.size <= Place(p, query)
              /\ Place(p, query) < (n - 1) * query.size + query.size}
<1> DEFINE turned == [query EXCEPT !.page = n]
<1>1. /\ turned.search = query.search /\ turned.field = query.field
      /\ turned.order = query.order /\ turned.size = query.size /\ turned.page = n
  BY DEF Queries
<1> HIDE DEF turned
<1>2. \A p, q : Before(p, q, turned) <=> Before(p, q, query)
  BY <1>1 DEF Before
<1>3. \A p : Place(p, turned) = Place(p, query)
  BY <1>1, <1>2 DEF Place
<1>4. ListProducts(turned) =
        {p \in Hits[query.search] :
           /\ (n - 1) * query.size <= Place(p, query)
           /\ Place(p, query) < (n - 1) * query.size + query.size}
  BY <1>1, <1>3 DEF ListProducts, Offset
<1> QED
  BY <1>4 DEF turned

(* The pages within the total split the hits of any query.                  *)
LEMMA PagesSplit ==
  ASSUME view \in Queries
  PROVE  PagesSplitTheHits
<1> DEFINE N == CountProducts(view)
           pages == {n \in 1..N : (n - 1) * view.size < N}
           rows(n) == ListProducts([view EXCEPT !.page = n])
           H == Hits[view.search]
           place(p) == Place(p, view)
<1>1. view.size \in Nat \ {0} /\ N \in Nat
  BY ListingAssumption, HitsOfQuery DEF Queries
<1>2. \A p \in H : /\ place(p) \in Nat /\ place(p) < N
                   /\ \A q \in H : p # q => place(p) # place(q)
  BY PlacesDiffer
<1>3. \A n \in Nat \ {0} : \A p :
        p \in rows(n) <=> p \in H /\ (n - 1) * view.size <= place(p)
                                  /\ place(p) < (n - 1) * view.size + view.size
  BY RowsOfPage
<1> HIDE DEF rows, place, H, N
<1>4. ASSUME NEW p \in H
      PROVE  \E n \in pages : \A m \in pages : p \in rows(m) <=> m = n
  <2> DEFINE n == (place(p) \div view.size) + 1
  <2>1. place(p) \div view.size \in Nat
    BY <1>1, <1>2
  <2>2. \A m \in Nat \ {0} : p \in rows(m) <=> m = n
    <3>1. \A m \in Nat \ {0} :
            (m - 1) * view.size <= place(p) /\ place(p) < (m - 1) * view.size + view.size
              <=> m = (place(p) \div view.size) + 1
      BY <1>1, <1>2, OnePageEach
    <3> QED
      BY <1>3, <3>1
  <2>3. n \in Nat \ {0}
    BY <2>1
  <2> HIDE DEF n
  <2>4. (n - 1) * view.size <= place(p)
    BY <1>3, <2>2, <2>3
  <2>5. n - 1 <= (n - 1) * view.size
    <3>1. \A k \in Nat, s \in Nat \ {0} : k <= k * s
      OBVIOUS
    <3> QED
      BY <1>1, <2>3, <3>1
  <2>6. (n - 1) * view.size \in Nat
    BY <1>1, <2>3
  <2>7. n \in pages
    BY <1>1, <1>2, <2>3, <2>4, <2>5, <2>6
  <2>8. \A m \in pages : m \in Nat \ {0}
    BY <1>1
  <2> QED
    BY <2>2, <2>7, <2>8
<1>5. ASSUME NEW n \in pages
      PROVE  Cardinality(rows(n)) <= view.size
  <2> DEFINE first == (n - 1) * view.size
             range == first .. (first + view.size - 1)
             f == [p \in rows(n) |-> place(p)]
  <2>1. n \in Nat \ {0} /\ first \in Nat
    BY <1>1
  <2> HIDE DEF first
  <2>2. IsFiniteSet(range) /\ Cardinality(range) = view.size
    <3>1. first \in Int /\ first + view.size - 1 \in Int /\ ~(first > first + view.size - 1)
          /\ (first + view.size - 1) - first + 1 = view.size
      BY <1>1, <2>1
    <3> QED
      BY <3>1, FS_Interval
  <2>3. \A p \in rows(n) : p \in H /\ place(p) \in range
    BY <1>1, <1>2, <1>3, <2>1 DEF first
  <2>4. f \in [rows(n) -> range]
    BY <2>3
  <2>5. \A p, q \in rows(n) : p # q => f[p] # f[q]
    BY <1>2, <2>3
  <2>6. IsFiniteSet(rows(n)) /\ Cardinality(rows(n)) \in Nat
    <3>1. IsFiniteSet(H) /\ rows(n) \subseteq H
      BY <2>3, HitsOfQuery DEF H
    <3> QED
      BY <3>1, FS_Subset, FS_CardinalityType
  <2> HIDE DEF f, range
  <2>7. ~(Cardinality(range) < Cardinality(rows(n)))
    <3> DEFINE R == rows(n)
    <3>1. IsFiniteSet(R) /\ f \in [R -> range] /\ \A p, q \in R : p # q => f[p] # f[q]
      BY <2>4, <2>5, <2>6
    <3> HIDE DEF R
    <3>2. ~(Cardinality(range) < Cardinality(R))
      BY <2>2, <3>1, FS_PigeonHole
    <3> QED
      BY <3>2 DEF R
  <2> QED
    BY <1>1, <2>2, <2>6, <2>7
<1> QED
  BY <1>4, <1>5 DEF PagesSplitTheHits, N, H, rows

-----------------------------------------------------------------------------
(* Browsing and its answers *)

(* The first page of a view is a view. *)
LEMMA FirstPage ==
  ASSUME NEW v \in Queries
  PROVE  [v EXCEPT !.page = 1] \in Queries
BY DEF Queries

(* Everything done on the page but leaving it shows a view. *)
LEMMA BrowseShows ==
  ASSUME TypeOK, Browse, ~Leave
  PROVE  \E v \in Queries : Show(v)
<1>1. ASSUME NEW s \in Searches, Search(s)
      PROVE  \E v \in Queries : Show(v)
  <2>1. [view EXCEPT !.search = s] \in Queries
    BY DEF TypeOK, Queries
  <2>2. [view EXCEPT !.search = s, !.page = 1] \in Queries
    BY <2>1, FirstPage
  <2>3. QED
    BY <1>1, <2>2 DEF Search
<1>2. ASSUME NEW n \in 1..totalCount, TurnPage(n)
      PROVE  \E v \in Queries : Show(v)
  <2>1. n \in Nat \ {0}
    BY DEF TypeOK
  <2>2. [view EXCEPT !.page = n] \in Queries
    BY <2>1 DEF TypeOK, Queries
  <2>3. QED
    BY <1>2, <2>2 DEF TurnPage
<1>3. ASSUME NEW size \in PageSizes, Resize(size)
      PROVE  \E v \in Queries : Show(v)
  <2>1. [view EXCEPT !.size = size] \in Queries
    BY DEF TypeOK, Queries
  <2>2. [view EXCEPT !.size = size, !.page = 1] \in Queries
    BY <2>1, FirstPage
  <2>3. QED
    BY <1>3, <2>2 DEF Resize
<1>4. ASSUME NEW field \in SortFields, NEW order \in SortOrders, Sort(field, order)
      PROVE  \E v \in Queries : Show(v)
  <2>1. [view EXCEPT !.field = field, !.order = order] \in Queries
    BY DEF TypeOK, Queries
  <2>2. QED
    BY <1>4, <2>1 DEF Sort
<1>5. QED
  BY <1>1, <1>2, <1>3, <1>4 DEF Browse

(* What a step of the grid leaves alone. *)
LEMMA GridStep ==
  ASSUME FormInv, PostInv, ResendInv, TakenInv, VanishedOnlyByAnotherOrder,
         UNCHANGED <<form, posts, orders>>
  PROVE  FormInv' /\ PostInv' /\ ResendInv' /\ TakenInv' /\ VanishedOnlyByAnotherOrder'
BY DEF form, FormInv, PostInv, ResendInv, TakenInv, UnderWay,
       VanishedOnlyByAnotherOrder, Vanished, Entered, NotPartOf

(* A change of the view, with its request, keeps the invariant. *)
LEMMA ShowStep ==
  ASSUME StorefrontIInv, NEW v \in Queries, Show(v)
  PROVE  StorefrontIInv'
<1> USE DEF StorefrontIInv
<1>1. TypeOK'
  BY StorefrontAssumption DEF Show, Fetch, TypeOK, form, Fetches
<1>2. GridInv'
  BY StorefrontAssumption DEF Show, Fetch, TypeOK, GridInv, Fetches
<1>3. QED
  BY <1>1, <1>2, GridStep DEF Show

(* Answers and errors of listing requests keep it, in any order. *)
LEMMA AnswerStep ==
  ASSUME StorefrontIInv, NEW f \in fetches, Answer(f) \/ AnswerError(f)
  PROVE  StorefrontIInv'
<1> USE DEF StorefrontIInv
<1>1. f.id \in Fetches /\ f.query \in Queries
  BY DEF TypeOK
<1>2. TypeOK'
  <2>1. CountProducts(f.query) \in 0..Cardinality(Products)
    BY <1>1, CountBounded
  <2>2. newest' \in 0..MaxFetches
    BY <1>1, StorefrontAssumption DEF Answer, AnswerError, Fetches
  <2>3. shown' \in Queries \cup {NoRows} /\ totalCount' \in 0..Cardinality(Products)
    BY <1>1, <2>1 DEF Answer, AnswerError, TypeOK
  <2>4. /\ UNCHANGED <<view, sent, quantities, typed, productOf, withdrawn, posts, orders>>
        /\ fetches' \subseteq fetches
        /\ isLoading' = FALSE
    BY DEF Answer, AnswerError, form
  <2>5. QED
    BY <2>2, <2>3, <2>4 DEF TypeOK
<1>3. GridInv'
  BY DEF Answer, AnswerError, GridInv
<1>4. QED
  BY <1>2, <1>3, GridStep DEF Answer, AnswerError

-----------------------------------------------------------------------------
(* The form *)

(* A step that removes the entry of one row, and may put a new one there.  *)
LEMMA FormStep ==
  ASSUME StorefrontIInv, NEW p \in Products,
         Enter(p) \/ Erase(p)
  PROVE  StorefrontIInv'
<1> USE DEF StorefrontIInv
<1>1. /\ UNCHANGED <<grid, posts, orders>>
      /\ quantities'[p] \in {0, typed + 1}
      /\ \A q \in Products \ {p} : quantities'[q] = quantities[q]
      /\ typed' \in {typed, typed + 1}
      /\ quantities'[p] = typed + 1 => typed' = typed + 1 /\ productOf'[typed + 1] = p
      /\ typed' = typed + 1 => quantities'[p] = typed + 1
      /\ \A e \in Entries : e <= typed => productOf'[e] = productOf[e]
      /\ withdrawn' = withdrawn \cup ({quantities[p]} \ {0})
  BY StorefrontAssumption DEF Enter, Erase, TypeOK, Entries
<1>2. typed \in Nat /\ Entries \subseteq Nat \ {0} /\ \A q \in Products : quantities[q] \in Nat
  BY StorefrontAssumption DEF TypeOK, Entries
<1>3. TypeOK'
  <2>1. UNCHANGED <<view, shown, totalCount, isLoading, fetches, sent, newest>>
    BY <1>1 DEF grid
  <2>2. /\ quantities' \in [Products -> 0..MaxEntries]
        /\ typed' \in 0..MaxEntries
        /\ productOf' \in [Entries -> Products \cup {0}]
        /\ withdrawn' \subseteq Entries
    <3>1. CASE Enter(p)
      <4>1. typed + 1 \in Entries
        BY <3>1, StorefrontAssumption DEF Enter, TypeOK, Entries
      <4>2. quantities[p] \in Entries \cup {0}
        BY StorefrontAssumption DEF TypeOK, Entries
      <4>3. typed + 1 \in 0..MaxEntries /\ p \in Products \cup {0}
        BY <4>1, StorefrontAssumption DEF Entries
      <4>4. quantities' \in [Products -> 0..MaxEntries] /\ typed' \in 0..MaxEntries
        BY <3>1, <4>3 DEF Enter, TypeOK
      <4>5. productOf' \in [Entries -> Products \cup {0}]
        BY <3>1, <4>1, <4>3 DEF Enter, TypeOK
      <4>6. withdrawn' \subseteq Entries
        BY <3>1, <4>2 DEF Enter, TypeOK
      <4>7. QED
        BY <4>4, <4>5, <4>6
    <3>2. CASE Erase(p)
      <4>1. quantities[p] \in Entries
        BY <3>2, StorefrontAssumption DEF Erase, TypeOK, Entries
      <4>2. QED
        BY <3>2, <4>1, StorefrontAssumption DEF Erase, TypeOK
    <3>3. QED
      BY <3>1, <3>2
  <2>3. QED
    BY <1>1, <2>1, <2>2 DEF TypeOK
<1>4. GridInv'
  BY <1>1 DEF grid, GridInv
<1>5. FormInv'
  <2>1. ASSUME NEW q \in Products \ {p}, quantities[q] # 0
        PROVE  productOf'[quantities[q]] = q
    <3>1. quantities[q] \in Entries /\ quantities[q] <= typed
      BY <2>1, StorefrontAssumption DEF FormInv, TypeOK, Entries
    <3>2. QED
      BY <1>1, <2>1, <3>1 DEF FormInv
  <2>2. QED
    BY <1>1, <1>2, <2>1 DEF FormInv
<1>6. \A i \in Posts : \A e \in posts[i].entries : e <= typed /\ e # 0 /\ e # typed + 1
  BY <1>2 DEF PostInv, TypeOK, PostRecords
<1>7. PostInv'
  <2>1. \A i \in Posts : posts[i].typed \in Nat
    BY DEF TypeOK, PostRecords
  <2>2. \A i \in Posts : /\ posts[i].typed <= typed'
                         /\ \A e \in posts[i].entries : e <= typed'
    BY <1>1, <1>2, <1>6, <2>1 DEF PostInv, TypeOK, PostRecords
  <2>3. \A i \in Posts : posts[i].state = "done" \/ posts[i].left =>
          \A q \in Products : quantities'[q] \notin posts[i].entries
    BY <1>1, <1>6 DEF PostInv
  <2>4. QED
    BY <1>1, <2>2, <2>3 DEF PostInv
<1>8. ResendInv'
  BY <1>1 DEF ResendInv
<1>9. TakenInv'
  <2>1. \A i \in Posts : posts[i].typed \in Nat /\ posts[i].typed <= typed
    BY DEF TypeOK, PostRecords, PostInv
  <2>2. \A i \in Posts : quantities'[p] \notin 1..posts[i].typed
    BY <1>1, <1>2, <2>1
  <2>3. QED
    BY <1>1, <2>2 DEF TakenInv, UnderWay
<1>10. VanishedOnlyByAnotherOrder'
  <2>1. ASSUME NEW e \in Entries, Vanished(e)'
        PROVE  Vanished(e) /\ e <= typed
    <3>1. e <= typed
      BY <1>1, <1>2, <2>1 DEF Vanished, Entered
    <3>2. e \notin Entered
      BY <1>1, <2>1 DEF Vanished, Entered
    <3>3. QED
      BY <1>1, <2>1, <3>1, <3>2 DEF Vanished
  <2>2. QED
    BY <1>1, <2>1 DEF VanishedOnlyByAnotherOrder, NotPartOf
<1>11. QED
  BY <1>3, <1>4, <1>5, <1>7, <1>8, <1>9, <1>10

-----------------------------------------------------------------------------
(* Orders *)

(* The parts of the invariant that an order alone does not touch. *)
LEMMA OrderStep ==
  ASSUME GridInv, UNCHANGED grid
  PROVE  GridInv'
BY DEF GridInv, grid

(* Sending an order keeps the invariant. *)
LEMMA SubmitStep ==
  ASSUME StorefrontIInv, NEW i \in Posts, Submit(i)
  PROVE  StorefrontIInv'
<1> USE DEF StorefrontIInv
<1>1. /\ posts[i].state = "none"
      /\ \A j \in Posts : j < i => posts[j].state # "none"
      /\ posts'[i].state = "sent" /\ posts'[i].entries = Selected /\ ~posts'[i].left
      /\ posts'[i].rows = Displayed /\ posts'[i].typed = typed
      /\ posts'[i].during = {j \in Posts : UnderWay(j)}
      /\ \A j \in Posts \ {i} : posts'[j] = posts[j]
      /\ UNCHANGED <<grid, form, orders>>
  BY StorefrontAssumption DEF Submit, TypeOK, Posts
<1>2. Selected \subseteq Entries
  BY DisplayedProducts, StorefrontAssumption DEF Selected, TypeOK, Entries
<1>3. TypeOK'
  <2>1. posts' \in [Posts -> PostRecords]
    BY <1>2, DisplayedProducts, StorefrontAssumption DEF Submit, TypeOK, PostRecords
  <2>2. QED
    BY <1>1, <2>1 DEF TypeOK, grid, form
<1>4. GridInv' /\ FormInv'
  BY <1>1, OrderStep DEF FormInv, form
<1>5. \A e \in Selected : e <= typed /\ \E p \in Products : quantities[p] = e
  BY DisplayedProducts DEF Selected, FormInv
<1>6. \A j \in Posts : i < j => posts[j].state = "none"
  BY <1>1 DEF PostInv
<1>7. PostInv'
  <2>1. \A j, k \in Posts : j < k /\ posts'[j].state = "none" => posts'[k].state = "none"
    BY <1>1, <1>6 DEF PostInv, Posts
  <2>2. typed \in Nat
    BY StorefrontAssumption DEF TypeOK
  <2>3. QED
    BY <1>1, <1>5, <2>1, <2>2 DEF PostInv, form
<1>8. ResendInv'
  <2>1. ASSUME NEW j \in Posts, j < i, NEW e \in posts[j].entries \cap Selected
        PROVE  UnderWay(j) \/ posts[j].state \in {"lost", "failed"}
    <3>1. posts[j].state \notin {"none", "done"}
      BY <1>1, <1>5, <2>1 DEF PostInv
    <3>2. QED
      BY <3>1 DEF TypeOK, PostRecords, UnderWay
  <2>2. ASSUME NEW j \in Posts, i < j
        PROVE  posts'[j].entries = {}
    BY <1>1, <1>6, <2>2 DEF PostInv, Posts
  <2>3. \A j \in Posts : j < i => j # i
    BY DEF Posts
  <2>4. QED
    BY <1>1, <2>1, <2>2, <2>3 DEF ResendInv
<1>9. TakenInv'
  <2>1. \A p \in Displayed : quantities[p] \in 1..typed => quantities[p] \in Selected
    BY StorefrontAssumption DEF Selected, TypeOK
  <2>2. QED
    BY <1>1, <2>1 DEF TakenInv, UnderWay, form
<1>10. VanishedOnlyByAnotherOrder'
  BY <1>1 DEF VanishedOnlyByAnotherOrder, Vanished, Entered, NotPartOf, form
<1>11. QED
  BY <1>3, <1>4, <1>7, <1>8, <1>9, <1>10

(* An order that is settled stays well typed. *)
LEMMA SettledRecord ==
  ASSUME posts \in [Posts -> PostRecords], NEW i \in Posts,
         NEW state \in {"served", "refused", "done", "failed", "lost"}, Settle(i, state)
  PROVE  posts' \in [Posts -> PostRecords]
<1>1. [posts[i] EXCEPT !.state = state] \in PostRecords
  BY DEF PostRecords
<1>2. posts' = [posts EXCEPT ![i] = [posts[i] EXCEPT !.state = state]]
  BY DEF Settle
<1>3. QED
  BY <1>1, <1>2

(* A step that moves an order on and leaves the form as it is. *)
LEMMA SettleStep ==
  ASSUME StorefrontIInv, NEW i \in Posts, Serve(i) \/ Refuse(i) \/ FailPost(i)
  PROVE  StorefrontIInv'
<1> USE DEF StorefrontIInv
<1> DEFINE now == posts[i].state
           next == posts'[i].state
<1>1. /\ posts'[i] = [posts[i] EXCEPT !.state = next]
      /\ \A j \in Posts \ {i} : posts'[j] = posts[j]
      /\ UNCHANGED <<grid, form>>
      /\ \/ now = "sent" /\ next = "served"
            /\ orders' = orders \cup {<<e, i>> : e \in posts[i].entries}
         \/ now = "sent" /\ next = "refused" /\ orders' = orders
         \/ now = "served" /\ next = "lost" /\ orders' = orders
         \/ now = "refused" /\ next = "failed" /\ orders' = orders
  BY DEF Serve, Refuse, FailPost, Settle, TypeOK, PostRecords
<1>2. \A j \in Posts : /\ posts'[j].entries = posts[j].entries
                       /\ posts'[j].left = posts[j].left
                       /\ posts'[j].rows = posts[j].rows
                       /\ posts'[j].typed = posts[j].typed
                       /\ posts'[j].during = posts[j].during
  BY <1>1 DEF TypeOK, PostRecords
<1>3. TypeOK'
  <2>1. posts' \in [Posts -> PostRecords]
    BY SettledRecord DEF Serve, Refuse, FailPost, TypeOK
  <2>2. orders' \subseteq Entries \X Posts
    BY <1>1 DEF TypeOK, PostRecords
  <2>3. QED
    BY <1>1, <2>1, <2>2 DEF TypeOK, grid, form
<1>4. GridInv' /\ FormInv'
  BY <1>1, OrderStep DEF FormInv, form
<1>5. PostInv'
  <2>1. \A j \in Posts, e \in Entries :
          <<e, j>> \in orders' <=>
            e \in posts'[j].entries /\ posts'[j].state \in {"served", "done", "lost"}
    <3>1. ASSUME NEW j \in Posts, NEW e \in Entries
          PROVE  <<e, j>> \in orders' <=>
                   e \in posts'[j].entries /\ posts'[j].state \in {"served", "done", "lost"}
      <4>1. CASE j = i
        BY <1>1, <1>2, <4>1 DEF PostInv
      <4>2. CASE j # i
        <5>1. <<e, j>> \in orders' <=> <<e, j>> \in orders
          BY <1>1, <4>2
        <5>2. QED
          BY <1>1, <4>2, <5>1 DEF PostInv
      <4>3. QED
        BY <4>1, <4>2
    <3>2. QED
      BY <3>1
  <2>2. /\ \A j, k \in Posts : j < k /\ posts'[j].state = "none" => posts'[k].state = "none"
        /\ \A j \in Posts : /\ posts'[j].state = "none" => posts[j].state = "none"
                            /\ posts'[j].state = "done" => posts[j].state = "done"
    BY <1>1 DEF PostInv
  <2>3. QED
    BY <1>1, <1>2, <2>1, <2>2 DEF PostInv, form
<1>6. ResendInv'
  BY <1>1, <1>2 DEF ResendInv
<1>7. TakenInv'
  BY <1>1, <1>2 DEF TakenInv, UnderWay, form
<1>8. VanishedOnlyByAnotherOrder'
  BY <1>1, <1>2 DEF VanishedOnlyByAnotherOrder, Vanished, Entered, NotPartOf, form
<1>9. QED
  BY <1>3, <1>4, <1>5, <1>6, <1>7, <1>8

(* A success that empties the form keeps the invariant. *)
LEMMA SucceedStep ==
  ASSUME StorefrontIInv, NEW i \in Posts, Succeed(i)
  PROVE  StorefrontIInv'
<1> USE DEF StorefrontIInv
<1>1. /\ posts'[i] = [posts[i] EXCEPT !.state = "done"]
      /\ \A j \in Posts \ {i} : posts'[j] = posts[j]
      /\ posts[i].state = "served" /\ posts'[i].state = "done"
      /\ UNCHANGED <<grid, typed, productOf, withdrawn, orders>>
  BY DEF Succeed, Settle, TypeOK, PostRecords
<1>2. \A j \in Posts : /\ posts'[j].entries = posts[j].entries
                       /\ posts'[j].left = posts[j].left
                       /\ posts'[j].rows = posts[j].rows
                       /\ posts'[j].typed = posts[j].typed
                       /\ posts'[j].during = posts[j].during
  BY <1>1 DEF TypeOK, PostRecords
<1>3. IF posts[i].left THEN quantities' = quantities
      ELSE \A p \in Products : quantities'[p] = 0
  BY DEF Succeed, QuantitiesAfterOrder, NoQuantities
<1>4. \A j \in Posts : 0 \notin posts[j].entries
  BY StorefrontAssumption DEF TypeOK, PostRecords, Entries
<1>5. TypeOK'
  <2>1. posts' \in [Posts -> PostRecords]
    BY SettledRecord DEF Succeed, TypeOK
  <2>2. quantities' \in [Products -> 0..MaxEntries]
    BY StorefrontAssumption DEF Succeed, QuantitiesAfterOrder, NoQuantities, TypeOK
  <2>3. QED
    BY <1>1, <2>1, <2>2 DEF TypeOK, grid
<1>6. typed \in Nat
  BY StorefrontAssumption DEF TypeOK
<1>7. GridInv' /\ FormInv'
  BY <1>1, <1>3, <1>6, OrderStep DEF FormInv
<1>8. PostInv'
  <2>1. \A j \in Posts : posts'[j].state = "done" \/ posts'[j].left =>
          \A p \in Products : quantities'[p] \notin posts'[j].entries
    BY <1>1, <1>2, <1>3, <1>4 DEF PostInv
  <2>2. ASSUME NEW j \in Posts, NEW e \in Entries
        PROVE  <<e, j>> \in orders' <=>
                 e \in posts'[j].entries /\ posts'[j].state \in {"served", "done", "lost"}
    <3>1. <<e, j>> \in orders <=>
            e \in posts[j].entries /\ posts[j].state \in {"served", "done", "lost"}
      BY DEF PostInv
    <3>2. posts'[j].entries = posts[j].entries /\ orders' = orders
      BY <1>1, <1>2
    <3>3. posts'[j].state = posts[j].state \/ j = i
      BY <1>1
    <3>4. QED
      BY <1>1, <3>1, <3>2, <3>3
  <2>3. \A j \in Posts : posts'[j].state = "none" <=> posts[j].state = "none"
    BY <1>1
  <2>4. QED
    BY <1>1, <1>2, <2>1, <2>2, <2>3 DEF PostInv
<1>9. ResendInv'
  BY <1>1, <1>2 DEF ResendInv
<1>10. TakenInv'
  <2>1. \A j \in Posts : 0 \notin 1..posts[j].typed
    OBVIOUS
  <2>2. QED
    BY <1>1, <1>2, <1>3, <2>1 DEF TakenInv, UnderWay
<1>11. VanishedOnlyByAnotherOrder'
  <2>1. ASSUME NEW e \in Entries, Vanished(e)', ~Vanished(e)
        PROVE  NotPartOf(e, i)
    <3>1. e \in Entered /\ ~posts[i].left /\ <<e, i>> \notin orders /\ e \in Nat \ {0}
      BY <1>1, <1>3, <2>1 DEF Vanished, Entered, Entries
    <3>2. PICK p \in Products : quantities[p] = e
      BY <3>1 DEF Entered
    <3>3. productOf[e] = p /\ e \notin posts[i].entries
      BY <1>1, <2>1, <3>1, <3>2 DEF FormInv, PostInv
    <3>4. p \in posts[i].rows => e \notin 1..posts[i].typed
      BY <1>1, <3>1, <3>2, <3>3 DEF TakenInv, UnderWay
    <3>5. posts[i].typed \in Nat
      BY DEF TypeOK, PostRecords
    <3>6. QED
      BY <3>1, <3>3, <3>4, <3>5 DEF NotPartOf
  <2>2. \A e \in Entries, j \in Posts : NotPartOf(e, j) => NotPartOf(e, j)'
    BY <1>1, <1>2 DEF NotPartOf
  <2>3. QED
    BY <1>1, <2>1, <2>2 DEF VanishedOnlyByAnotherOrder
<1>12. QED
  BY <1>5, <1>7, <1>8, <1>9, <1>10, <1>11

(* Leaving the page keeps the invariant. *)
LEMMA LeaveStep ==
  ASSUME StorefrontIInv, Leave
  PROVE  StorefrontIInv'
<1> USE DEF StorefrontIInv
<1>1. /\ \A p \in Products : quantities'[p] = 0
      /\ withdrawn' = withdrawn \cup Entered
      /\ \A j \in Posts : posts'[j] = [posts[j] EXCEPT !.left = UnderWay(j) \/ @]
      /\ UNCHANGED <<typed, productOf, orders>>
  BY DEF Leave, NoQuantities
<1>2. \A j \in Posts : /\ posts'[j].entries = posts[j].entries
                       /\ posts'[j].state = posts[j].state
                       /\ posts'[j].rows = posts[j].rows
                       /\ posts'[j].typed = posts[j].typed
                       /\ posts'[j].during = posts[j].during
                       /\ posts'[j].left = (UnderWay(j) \/ posts[j].left)
  <2>1. ASSUME NEW j \in Posts
        PROVE  posts[j] \in PostRecords
    BY DEF TypeOK
  <2>2. QED
    BY <1>1, <2>1 DEF PostRecords
<1>3. \A j \in Posts : 0 \notin posts[j].entries
  BY StorefrontAssumption DEF TypeOK, PostRecords, Entries
<1>4. TypeOK'
  <2>1. posts' \in [Posts -> PostRecords]
    <3>1. ASSUME NEW j \in Posts
          PROVE  [posts[j] EXCEPT !.left = UnderWay(j) \/ @] \in PostRecords
      <4>1. (UnderWay(j) \/ posts[j].left) \in BOOLEAN
        OBVIOUS
      <4>2. posts[j] \in PostRecords
        BY DEF TypeOK
      <4>3. QED
        BY <4>1, <4>2 DEF PostRecords
    <3>2. QED
      BY <3>1 DEF Leave
  <2>2. /\ quantities' \in [Products -> 0..MaxEntries]
        /\ withdrawn' \subseteq Entries
    BY StorefrontAssumption DEF Leave, NoQuantities, TypeOK, Entered, Entries
  <2>3. /\ view' \in Queries /\ shown' \in Queries \cup {NoRows}
        /\ totalCount' = 0 /\ isLoading' \in BOOLEAN
        /\ fetches' \subseteq [id : Fetches, query : Queries]
        /\ sent' \in Fetches /\ newest' \in 0..MaxFetches
    BY StorefrontAssumption DEF Leave, Fetch, TypeOK, Fetches
  <2>4. totalCount' \in 0..Cardinality(Products)
    BY <2>3, ListingAssumption, FS_CardinalityType
  <2>5. QED
    BY <1>1, <2>1, <2>2, <2>3, <2>4 DEF TypeOK
<1>5. GridInv'
  BY StorefrontAssumption DEF Leave, Fetch, TypeOK, GridInv, Fetches
<1>6. typed \in Nat
  BY StorefrontAssumption DEF TypeOK
<1>7. FormInv'
  BY <1>1, <1>6 DEF FormInv
<1>8. PostInv'
  BY <1>1, <1>2, <1>3 DEF PostInv
<1>9. ResendInv'
  BY <1>2 DEF ResendInv
<1>10. TakenInv'
  BY <1>2 DEF TakenInv, UnderWay
<1>11. VanishedOnlyByAnotherOrder'
  BY <1>1, <1>2 DEF VanishedOnlyByAnotherOrder, Vanished, NotPartOf
<1>12. QED
  BY <1>4, <1>5, <1>7, <1>8, <1>9, <1>10, <1>11

-----------------------------------------------------------------------------
(* The theorems *)

(* The page that has just been opened satisfies the invariant. *)
LEMMA StorefrontInit == Init => StorefrontIInv
<1> SUFFICES ASSUME Init PROVE StorefrontIInv
  OBVIOUS
<1> USE DEF Init
<1>1. TypeOK
  <2>1. totalCount \in 0..Cardinality(Products)
    BY ListingAssumption, FS_CardinalityType
  <2>2. posts \in [Posts -> PostRecords]
    BY DEF PostRecords, NoPost
  <2>3. QED
    BY <2>1, <2>2, StorefrontAssumption DEF TypeOK, Fetches, Entries, NoQuantities
<1>2. GridInv /\ FormInv /\ VanishedOnlyByAnotherOrder
  BY DEF GridInv, FormInv, NoQuantities, VanishedOnlyByAnotherOrder, Vanished, Entries
<1>3. PostInv /\ ResendInv /\ TakenInv
  BY DEF PostInv, ResendInv, TakenInv, NoPost, UnderWay
<1>4. QED
  BY <1>1, <1>2, <1>3 DEF StorefrontIInv

(* Every step of page and server keeps the invariant. *)
LEMMA StorefrontStep == StorefrontIInv /\ [Next]_vars => StorefrontIInv'
<1> SUFFICES ASSUME StorefrontIInv, [Next]_vars PROVE StorefrontIInv'
  OBVIOUS
<1>1. CASE Browse
  BY <1>1, BrowseShows, ShowStep, LeaveStep DEF StorefrontIInv
<1>2. ASSUME NEW f \in fetches, Answer(f) \/ AnswerError(f)
      PROVE  StorefrontIInv'
  BY <1>2, AnswerStep
<1>3. ASSUME NEW p \in Products, Enter(p) \/ Erase(p)
      PROVE  StorefrontIInv'
  BY <1>3, FormStep
<1>4. ASSUME NEW i \in Posts,
             Submit(i) \/ Serve(i) \/ Refuse(i) \/ Succeed(i) \/ FailPost(i)
      PROVE  StorefrontIInv'
  BY <1>4, SubmitStep, SettleStep, SucceedStep
<1>5. CASE UNCHANGED vars
  <2>1. TypeOK' /\ GridInv'
    BY <1>5 DEF StorefrontIInv, vars, grid, form, TypeOK, GridInv
  <2>2. QED
    BY <1>5, <2>1, GridStep DEF StorefrontIInv, vars
<1>6. QED
  BY <1>1, <1>2, <1>3, <1>4, <1>5 DEF Next

(* The invariant holds in every reachable state. *)
LEMMA StorefrontInvariant == Spec => []StorefrontIInv
BY StorefrontInit, StorefrontStep, PTL DEF Spec

(* Every reachable state of the product page is well typed. *)
THEOREM StorefrontTypeCorrect == Spec => []TypeOK
<1>1. StorefrontIInv => TypeOK
  BY DEF StorefrontIInv
<1>2. QED
  BY <1>1, StorefrontInvariant, PTL

(* Once nothing is loading the grid shows what the page says, unless an    *)
(* older answer came last (the effect and setProducts in page.tsx).        *)
THEOREM GridFollowsView == Spec => []GridShowsViewUnlessOvertaken
<1>1. StorefrontIInv => GridShowsViewUnlessOvertaken
  BY DEF StorefrontIInv, GridInv, GridShowsViewUnlessOvertaken
<1>2. QED
  BY <1>1, StorefrontInvariant, PTL

(* A quantity is ordered twice only when it was sent again before the      *)
(* first answer or after that answer was lost (handleSubmit).              *)
THEOREM OrderedTwiceExplained == Spec => []OrderedTwiceOnlyByResending
<1>1. StorefrontIInv => OrderedTwiceOnlyByResending
  <2> SUFFICES ASSUME StorefrontIInv, NEW e \in Entries, NEW i \in Posts, NEW j \in Posts,
                      i < j, {<<e, i>>, <<e, j>>} \subseteq orders
               PROVE  i \in posts[j].during \/ posts[i].state = "lost"
    BY DEF OrderedTwiceOnlyByResending
  <2>1. /\ e \in posts[i].entries /\ e \in posts[j].entries
        /\ posts[i].state \in {"served", "done", "lost"}
    BY DEF StorefrontIInv, PostInv
  <2>2. QED
    BY <2>1 DEF StorefrontIInv, ResendInv
<1>2. QED
  BY <1>1, StorefrontInvariant, PTL

(* A quantity disappears unordered only through the success of an order it *)
(* was no part of (setQuantities({}) after the await in handleSubmit).     *)
THEOREM VanishedExplained == Spec => []VanishedOnlyByAnotherOrder
<1>1. StorefrontIInv => VanishedOnlyByAnotherOrder
  BY DEF StorefrontIInv
<1>2. QED
  BY <1>1, StorefrontInvariant, PTL

(* The pages of a listing split its hits, for every catalogue, query and    *)
(* page size: each product that matches is on exactly one page within the   *)
(* total, and no page is longer than its size (ListProducts).               *)
THEOREM EveryHitOnOnePage == Spec => []PagesSplitTheHits
<1>1. StorefrontIInv => PagesSplitTheHits
  BY PagesSplit DEF StorefrontIInv, TypeOK
<1>2. QED
  BY <1>1, StorefrontInvariant, PTL
=============================================================================
