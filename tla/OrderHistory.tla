---------------------------- MODULE OrderHistory ----------------------------
(***************************************************************************)
(* The order history page in a browser (frontend/src/app/orders/page.tsx), *)
(* POST /api/v1/orders behind it and the user's rows of the orders table,  *)
(* which shoppers and robots go on changing.  The backend reads the rows   *)
(* of a page and the total in two statements without a transaction;        *)
(* answers arrive in any order and each overwrites the grid.               *)
(***************************************************************************)
EXTENDS Integers, FiniteSets

CONSTANTS
  Orders,      \* order ids of the user who looks at the page
  Searches,    \* search texts, with their type (partial or prefix)
  Hits,        \* by search: the orders whose product name it matches (LIKE)
  SortFields,  \* columns of the grid but created_at, which orders of a
               \* second share, and names the backend does not know
  SortOrders,  \* "asc" and "desc"
  NameRank,    \* by order: the place of its product's name in the alphabet
  PageSizes,   \* the page sizes of the grid
  FirstView,   \* what the page shows when it is opened
  NoRows,      \* no table was read: the grid is empty
  MaxFetches   \* bound: listing requests sent

Queries == [search : Searches, field : SortFields, order : SortOrders,
            size : PageSizes, page : Nat \ {0}]
Fetches == 1..MaxFetches
Stages == {"absent", "shipping", "delivering", "completed"}
Tables == [Orders -> Stages]

ASSUME OrderHistoryAssumption ==
  /\ Orders \subseteq Nat
  /\ IsFiniteSet(Orders)
  /\ Hits \in [Searches -> SUBSET Orders]
  /\ NameRank \in [Orders -> Int]
  /\ PageSizes \subseteq Nat \ {0}
  /\ FirstView \in Queries
  /\ NoRows \notin Tables
  /\ MaxFetches \in Nat \ {0}

VARIABLES
  status,     \* the shipped_status of the user's orders, committed
  undone,     \* history: completed orders that a racing plan took back
  view,       \* searchQuery, searchType, sortModel, page and pageSize
  shown,      \* what fills the grid: request, query and the table it was read from
  totalCount,
  isLoading,
  fetches,    \* requests under way
  sent        \* how many requests were sent

table == <<status, undone>>
page == <<view, shown, totalCount, isLoading>>
vars == <<table, page, fetches, sent>>

(* placed and saw are history: the orders in the table and the request     *)
(* whose answer filled the grid when the request was sent.                 *)
FetchRecords ==
  [id : Fetches, query : Queries, pc : {"rows", "count", "answer"},
   rows : Tables \cup {NoRows}, total : Nat, placed : SUBSET Orders, saw : 0..MaxFetches]

Request(id, query, saw) ==
  [id |-> id, query |-> query, pc |-> "rows", rows |-> NoRows, total |-> 0,
   placed |-> {o \in Orders : status[o] # "absent"}, saw |-> saw]

NothingShown == [id |-> 0, query |-> FirstView, rows |-> NoRows]

Init ==
  /\ status = [o \in Orders |-> "absent"]
  /\ undone = {}
  /\ view = FirstView
  /\ shown = NothingShown
  /\ totalCount = 0
  /\ isLoading = TRUE
  /\ fetches = {Request(1, FirstView, 0)}
  /\ sent = 1

-----------------------------------------------------------------------------
(* ListOrders *)

Matching(query, rows) == {o \in Hits[query.search] : rows[o] # "absent"}

(* What a row sorts by: arrived_at is NULL in every row of the backend, no *)
(* statement sets it; a field it does not know sorts by order_id.          *)
Alphabetical == [absent |-> 0, completed |-> 1, delivering |-> 2, shipping |-> 3]

SortKey(o, field, rows) == CASE field = "shipped_status" -> Alphabetical[rows[o]]
                             [] field = "product_name"   -> NameRank[o]
                             [] field = "arrived_at"     -> 0
                             [] OTHER                    -> o

(* Any order but DESC, whatever its case, counts as ASC; ties by order_id. *)
Before(p, q, query, rows) ==
  LET k == SortKey(p, query.field, rows)
      l == SortKey(q, query.field, rows)
      first == IF query.order = "desc" THEN k > l ELSE k < l
  IN  first \/ (k = l /\ p < q)

PlaceOf(o, query, rows) == Cardinality({p \in Matching(query, rows) : Before(p, o, query, rows)})

RowsFrom(offset, query, rows) ==
  {o \in Matching(query, rows) : /\ offset <= PlaceOf(o, query, rows)
                                 /\ PlaceOf(o, query, rows) < offset + query.size}

(* The handler passes the page number on, and nothing derives the offset   *)
(* from it (the mutant does, forgetting that pages are counted from 1).    *)
OffsetCountedFromOne(query) == query.page * query.size

Offset(query) == 0

ListOrders(query, rows) == RowsFrom(Offset(query), query, rows)

(* The SELECT of the rows commits by itself, then the COUNT does. *)
CountThenSelect(f) ==
  IF f.pc = "rows" THEN [f EXCEPT !.pc = "count", !.total = Cardinality(Matching(f.query, status))]
                   ELSE [f EXCEPT !.pc = "answer", !.rows = status]

SelectThenCount(f) ==
  IF f.pc = "rows" THEN [f EXCEPT !.pc = "count", !.rows = status]
                   ELSE [f EXCEPT !.pc = "answer", !.total = Cardinality(Matching(f.query, status))]

Read(f) ==
  /\ f.pc # "answer"
  /\ fetches' = (fetches \ {f}) \cup {SelectThenCount(f)}
  /\ UNCHANGED <<table, page, sent>>

-----------------------------------------------------------------------------
(* What is to be shown *)

(* fetchOrders, run by the effect after a render that changed the view. *)
Fetch(v, others, saw) ==
  /\ sent < MaxFetches
  /\ sent' = sent + 1
  /\ fetches' = others \cup {Request(sent + 1, v, saw)}
  /\ isLoading' = TRUE

(* Mutant: the effect does not depend on the sort model. *)
ShowUnlessSorted(v) ==
  /\ v # view
  /\ view' = v
  /\ IF [v EXCEPT !.field = view.field, !.order = view.order] = view
     THEN UNCHANGED <<sent, fetches, isLoading>>
     ELSE Fetch(v, fetches, shown.id)
  /\ UNCHANGED <<table, shown, totalCount>>

Show(v) ==
  /\ v # view
  /\ view' = v
  /\ Fetch(v, fetches, shown.id)
  /\ UNCHANGED <<table, shown, totalCount>>

(* handleSearch and handleReset: their buttons are disabled while loading. *)
Search(s) == ~isLoading /\ Show([view EXCEPT !.search = s, !.page = 1])

(* The grid's own controls stay enabled; it offers the pages of the total  *)
(* it was given last and counts them from 0.                               *)
TurnPageZeroBased(n) == (n - 1) * view.size < totalCount /\ Show([view EXCEPT !.page = n - 1])

TurnPage(n) == (n - 1) * view.size < totalCount /\ Show([view EXCEPT !.page = n])

Resize(size) == size # view.size /\ Show([view EXCEPT !.size = size, !.page = 1])

Sort(field, order) == Show([view EXCEPT !.field = field, !.order = order])

(* The answer, and the error that empties the grid and keeps the total. *)
Answer(f) ==
  /\ f.pc = "answer"
  /\ fetches' = fetches \ {f}
  /\ shown' = [id |-> f.id, query |-> f.query, rows |-> f.rows]
  /\ totalCount' = f.total
  /\ isLoading' = FALSE
  /\ UNCHANGED <<table, view, sent>>

(* Mutant: only an answer ends the loading. *)
ErrorKeepsLoading(f) ==
  /\ fetches' = fetches \ {f}
  /\ shown' = [id |-> f.id, query |-> f.query, rows |-> NoRows]
  /\ UNCHANGED <<table, view, totalCount, isLoading, sent>>

AnswerError(f) ==
  /\ fetches' = fetches \ {f}
  /\ shown' = [id |-> f.id, query |-> f.query, rows |-> NoRows]
  /\ isLoading' = FALSE
  /\ UNCHANGED <<table, view, totalCount, sent>>

(* To the product page and back: the page starts anew, what arrives for    *)
(* the page that was left changes nothing.                                 *)
Leave ==
  /\ view' = FirstView
  /\ shown' = NothingShown
  /\ totalCount' = 0
  /\ Fetch(FirstView, {}, 0)
  /\ UNCHANGED table

-----------------------------------------------------------------------------
(* The orders table, as Dispatch changes it *)

Table == INSTANCE OrderLifecycle WITH stage <- status

Place(S) == Table!Place(S) /\ UNCHANGED <<undone, page, fetches, sent>>

(* Mutant: a plan takes orders in whatever stage they are. *)
TakeAny(S) ==
  /\ S # {} /\ \A o \in S : status[o] # "absent"
  /\ status' = [o \in Orders |-> IF o \in S THEN "delivering" ELSE status[o]]
  /\ UNCHANGED <<undone, page, fetches, sent>>

Take(S) == Table!Take(S) /\ UNCHANGED <<undone, page, fetches, sent>>

Complete(o) == Table!Complete(o) /\ UNCHANGED <<undone, page, fetches, sent>>

(* A plan whose snapshot is older than the completion updates the row. *)
Undo(o) ==
  /\ status[o] = "completed"
  /\ status' = [status EXCEPT ![o] = "delivering"]
  /\ undone' = undone \cup {o}
  /\ UNCHANGED <<page, fetches, sent>>

-----------------------------------------------------------------------------
Browse ==
  \/ \E s \in Searches : Search(s)
  \/ \E n \in 1..totalCount : TurnPage(n)
  \/ \E size \in PageSizes : Resize(size)
  \/ \E field \in SortFields, order \in SortOrders : Sort(field, order)
  \/ Leave

Next ==
  \/ Browse
  \/ \E f \in fetches : Read(f) \/ Answer(f) \/ AnswerError(f)
  \/ \E S \in SUBSET Orders : Place(S) \/ Take(S)
  \/ \E o \in Orders : Complete(o) \/ Undo(o)

Spec == Init /\ [][Next]_vars

-----------------------------------------------------------------------------
(* Properties *)

(* Every variable has its type. *)
TypeOK ==
  /\ status \in Tables
  /\ undone \subseteq Orders
  /\ view \in Queries
  /\ shown \in [id : 0..MaxFetches, query : Queries, rows : Tables \cup {NoRows}]
  /\ totalCount \in 0..Cardinality(Orders)
  /\ isLoading \in BOOLEAN
  /\ fetches \subseteq FetchRecords
  /\ sent \in Fetches

Displayed == IF shown.rows = NoRows THEN {} ELSE ListOrders(shown.query, shown.rows)

(* Once nothing is loading, the grid answers what the page says it shows,  *)
(* unless an older answer overtook a newer one.                            *)
HistoryShowsViewUnlessOvertaken ==
  fetches = {} /\ shown.id = sent => shown.query = view

(* The page never shows more rows than the total it announces next to      *)
(* them: the rows are read before the orders are counted, and no order     *)
(* ever leaves the table.                                                  *)
RowsWithinTotal == Cardinality(Displayed) <= totalCount

(* A first page that holds the whole total shows every matching order that *)
(* was placed before the page asked, in whatever order the answers come.   *)
FullPageIsComplete ==
  \A f \in fetches :
    f.pc = "answer" /\ f.query.page = 1 /\ f.total <= f.query.size =>
      f.placed \cap Hits[f.query.search] \subseteq ListOrders(f.query, f.rows)

(* Search and reset are not disabled for good: whenever the page loads, an *)
(* answer or an error is still to come that ends it.                       *)
LoadingHasRequest == isLoading => fetches # {}

(* The status an order is shown with goes back only if the answers of two  *)
(* requests crossed or a plan took the completed order back.               *)
StatusGoesBack(o) ==
  /\ o \in Displayed \cap Displayed'
  /\ Alphabetical[shown'.rows[o]] > Alphabetical[shown.rows[o]]

BackOnlyWhenCrossed ==
  \A o \in Orders : StatusGoesBack(o) =>
    \/ o \in undone
    \/ \E f \in fetches : f.id = shown'.id /\ f.saw # shown.id

StatusGoesBackOnlyWhenCrossed == [][BackOnlyWhenCrossed]_vars

(* The rows of the grid are those of the page it names. *)
GridShowsNamedPage ==
  shown.rows # NoRows =>
    Displayed = RowsFrom((shown.query.page - 1) * shown.query.size, shown.query, shown.rows)
=============================================================================
