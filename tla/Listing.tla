------------------------------- MODULE Listing -------------------------------
(***************************************************************************)
(* POST /api/v1/product: which products a page of the catalogue holds.     *)
(* ProductHandler.List computes the offset, ListProducts filters, sorts    *)
(* and cuts.  The catalogue is never written.  A page is the set of its    *)
(* products; the order within a page follows from the same comparison.     *)
(***************************************************************************)
EXTENDS Integers, FiniteSets

CONSTANTS
  Products,    \* product ids
  Searches,    \* search texts
  Hits,        \* by search text: the products it matches (LIKE)
  SortFields,  \* columns of the grid that can be sorted by
  SortOrders,  \* the orders a client names
  Key,         \* by sort field: the value a product sorts by
  PageSizes    \* the page sizes of the grid

ASSUME ListingAssumption ==
  /\ Products \subseteq Nat
  /\ IsFiniteSet(Products)
  /\ Hits \in [Searches -> SUBSET Products]
  /\ Key \in [SortFields -> [Products -> Int]]
  /\ PageSizes \subseteq Nat \ {0}

Queries == [search : Searches, field : SortFields, order : SortOrders,
            size : PageSizes, page : Nat \ {0}]

(* Any order but ASC and DESC, in capitals, counts as ASC. *)
SortOrder(order) == IF order \in {"ASC", "DESC"} THEN order ELSE "ASC"

(* ORDER BY the field, then by product_id ascending. *)
Before(p, q, query) ==
  LET key == Key[query.field]
      first == IF SortOrder(query.order) = "ASC" THEN key[p] < key[q] ELSE key[p] > key[q]
  IN  first \/ (key[p] = key[q] /\ p < q)

(* How many hits come before a product. *)
Place(p, query) == Cardinality({q \in Hits[query.search] : Before(q, p, query)})

(* Mutant: the offset of OrderHandler.List, which nothing sets. *)
OffsetUnset(query) == 0

Offset(query) == (query.page - 1) * query.size

(* LIMIT page_size OFFSET offset *)
ListProducts(query) ==
  {p \in Hits[query.search] :
     Offset(query) <= Place(p, query) /\ Place(p, query) < Offset(query) + query.size}

CountProducts(query) == Cardinality(Hits[query.search])
=============================================================================
