----------------------------- MODULE Storefront -----------------------------
(***************************************************************************)
(* The product page in a browser (frontend/src/app/product/page.tsx) and   *)
(* the backend behind it.  Every change of what is to be shown sends a     *)
(* listing request; answers arrive in any order and each overwrites the    *)
(* grid.  The shopper enters quantities into the rows on display and sends *)
(* them as an order; nothing keeps a second order from being sent while    *)
(* the first is under way.                                                 *)
(*                                                                         *)
(* An entry stands for a quantity typed into a row; entries are numbered   *)
(* in the order of typing, so that the same quantity typed anew differs.   *)
(***************************************************************************)
EXTENDS Listing

CONSTANTS
  FirstView,    \* what the page shows when it is opened
  NoRows,       \* the grid is empty
  MaxFetches,   \* bound: listing requests sent
  MaxEntries,   \* bound: quantities typed
  MaxPosts      \* bound: orders sent

Fetches == 1..MaxFetches
Entries == 1..MaxEntries
Posts == 1..MaxPosts

ASSUME StorefrontAssumption ==
  /\ FirstView \in Queries
  /\ NoRows \notin Queries
  /\ MaxFetches \in Nat \ {0}
  /\ MaxEntries \in Nat
  /\ MaxPosts \in Nat

VARIABLES
  view,       \* searchQuery, sortModel, page and pageSize
  shown,      \* the query whose answer fills the grid, or NoRows
  totalCount, \* the number of hits the grid computes its last page from
  isLoading,
  fetches,    \* listing requests under way: sets of [id, query]
  sent,       \* how many listing requests were sent
  newest,     \* history: the request whose answer the grid took last
  quantities, \* the entry in the row of every product, 0 for none
  typed,      \* how many quantities were typed
  productOf,  \* history: the product an entry was typed for
  withdrawn,  \* history: entries the shopper erased, replaced or walked away from
  posts,      \* the orders sent
  orders      \* backend: pairs of an entry and the post that ordered it

grid == <<view, shown, totalCount, isLoading, fetches, sent, newest>>
form == <<quantities, typed, productOf, withdrawn>>
vars == <<grid, form, posts, orders>>

(* rows, typed and during are history: the products on display, the        *)
(* entries typed so far and the posts under way when the order was sent.   *)
PostRecords ==
  [state   : {"none", "sent", "served", "refused", "done", "failed", "lost"},
   entries : SUBSET Entries,
   left    : BOOLEAN,
   rows    : SUBSET Products,
   typed   : Nat,
   during  : SUBSET Posts]

NoPost == [state |-> "none", entries |-> {}, left |-> FALSE,
           rows |-> {}, typed |-> 0, during |-> {}]

UnderWay(i) == posts[i].state \in {"sent", "served", "refused"}

NoQuantities == [p \in Products |-> 0]
Entered == {quantities[p] : p \in Products} \ {0}
Displayed == IF shown = NoRows THEN {} ELSE ListProducts(shown)

Init ==
  /\ view = FirstView
  /\ shown = NoRows
  /\ totalCount = 0
  /\ isLoading = TRUE
  /\ fetches = {[id |-> 1, query |-> FirstView]}
  /\ sent = 1
  /\ newest = 0
  /\ quantities = NoQuantities
  /\ typed = 0
  /\ productOf = [e \in Entries |-> 0]
  /\ withdrawn = {}
  /\ posts = [i \in Posts |-> NoPost]
  /\ orders = {}

-----------------------------------------------------------------------------
(* What is to be shown *)

(* fetchProducts, run by the effect after a render that changed the view.  *)
Fetch(v, others) ==
  /\ sent < MaxFetches
  /\ sent' = sent + 1
  /\ fetches' = others \cup {[id |-> sent + 1, query |-> v]}
  /\ isLoading' = TRUE

(* Mutant: the effect does not depend on the search text. *)
ShowUnlessSearched(v) ==
  /\ view' = v
  /\ IF [v EXCEPT !.search = view.search] = view
     THEN UNCHANGED <<sent, fetches, isLoading>>
     ELSE Fetch(v, fetches)
  /\ UNCHANGED <<shown, totalCount, newest, form, posts, orders>>

Show(v) ==
  /\ v # view
  /\ view' = v
  /\ Fetch(v, fetches)
  /\ UNCHANGED <<shown, totalCount, newest, form, posts, orders>>

(* handleSearch and handleReset: their buttons are disabled while loading. *)
Search(s) == ~isLoading /\ Show([view EXCEPT !.search = s, !.page = 1])

(* The grid's own controls stay enabled; it knows the number of pages from *)
(* the last total it was given and counts them from 0.                     *)
(* Mutant: the grid's page number is taken as it is. *)
TurnPageZeroBased(n) ==
  /\ (n - 1) * view.size < totalCount
  /\ Show([view EXCEPT !.page = n - 1])

TurnPage(n) ==
  /\ (n - 1) * view.size < totalCount
  /\ Show([view EXCEPT !.page = n])

Resize(size) == size # view.size /\ Show([view EXCEPT !.size = size, !.page = 1])

Sort(field, order) == Show([view EXCEPT !.field = field, !.order = order])

-----------------------------------------------------------------------------
(* Answers to listing requests *)

Answer(f) ==
  /\ f \in fetches
  /\ fetches' = fetches \ {f}
  /\ shown' = f.query
  /\ totalCount' = CountProducts(f.query)
  /\ isLoading' = FALSE
  /\ newest' = f.id
  /\ UNCHANGED <<view, sent, form, posts, orders>>

(* An error empties the grid and keeps the total. *)
AnswerError(f) ==
  /\ f \in fetches
  /\ fetches' = fetches \ {f}
  /\ shown' = NoRows
  /\ isLoading' = FALSE
  /\ newest' = f.id
  /\ UNCHANGED <<view, totalCount, sent, form, posts, orders>>

-----------------------------------------------------------------------------
(* Quantities and orders *)

(* handleQuantityChange, with a positive quantity or with none. *)
Enter(p) ==
  /\ ~isLoading
  /\ p \in Displayed
  /\ typed < MaxEntries
  /\ typed' = typed + 1
  /\ quantities' = [quantities EXCEPT ![p] = typed + 1]
  /\ productOf' = [productOf EXCEPT ![typed + 1] = p]
  /\ withdrawn' = withdrawn \cup ({quantities[p]} \ {0})
  /\ UNCHANGED <<grid, posts, orders>>

Erase(p) ==
  /\ ~isLoading
  /\ p \in Displayed
  /\ quantities[p] # 0
  /\ quantities' = [quantities EXCEPT ![p] = 0]
  /\ withdrawn' = withdrawn \cup {quantities[p]}
  /\ UNCHANGED <<grid, typed, productOf, posts, orders>>

(* handleSubmit sends the quantities of the rows on display, if any. *)
Selected == {quantities[p] : p \in Displayed} \ {0}

Submit(i) ==
  /\ ~isLoading
  /\ posts[i].state = "none"
  /\ \A j \in 1..(i - 1) : posts[j].state # "none"
  /\ Selected # {}
  /\ posts' = [posts EXCEPT ![i] =
       [state |-> "sent", entries |-> Selected, left |-> FALSE,
        rows |-> Displayed, typed |-> typed, during |-> {j \in Posts : UnderWay(j)}]]
  /\ UNCHANGED <<grid, form, orders>>

Settle(i, state) == posts' = [posts EXCEPT ![i] = [@ EXCEPT !.state = state]]

(* CreateOrders orders all the entries of a post or none. *)
Serve(i) ==
  /\ posts[i].state = "sent"
  /\ orders' = orders \cup {<<e, i>> : e \in posts[i].entries}
  /\ Settle(i, "served")
  /\ UNCHANGED <<grid, form>>

Refuse(i) ==
  /\ posts[i].state = "sent"
  /\ Settle(i, "refused")
  /\ UNCHANGED <<grid, form, orders>>

(* The await returns: the form is emptied, whatever it holds by now.       *)
(* Mutant: the form keeps its quantities. *)
QuantitiesKept == quantities

QuantitiesAfterOrder == NoQuantities

Succeed(i) ==
  /\ posts[i].state = "served"
  /\ Settle(i, "done")
  /\ quantities' = IF posts[i].left THEN quantities ELSE QuantitiesAfterOrder
  /\ UNCHANGED <<grid, typed, productOf, withdrawn, orders>>

(* The await throws: the post was refused, or its answer was lost on the   *)
(* way.  The form is left as it is.                                        *)
(* Mutant: the form is emptied in either case. *)
FailureEmptiesForm(i) ==
  /\ UnderWay(i)
  /\ Settle(i, IF posts[i].state = "served" THEN "lost" ELSE "failed")
  /\ quantities' = NoQuantities
  /\ UNCHANGED <<grid, typed, productOf, withdrawn, orders>>

FailPost(i) ==
  /\ posts[i].state \in {"served", "refused"}
  /\ Settle(i, IF posts[i].state = "served" THEN "lost" ELSE "failed")
  /\ UNCHANGED <<grid, form, orders>>

(* To the order history and back: the page starts anew, what arrives for   *)
(* the page that was left changes nothing.                                 *)
Leave ==
  /\ view' = FirstView
  /\ shown' = NoRows
  /\ totalCount' = 0
  /\ newest' = 0
  /\ Fetch(FirstView, {})
  /\ quantities' = NoQuantities
  /\ withdrawn' = withdrawn \cup Entered
  /\ posts' = [i \in Posts |-> [posts[i] EXCEPT !.left = UnderWay(i) \/ @]]
  /\ UNCHANGED <<typed, productOf, orders>>

-----------------------------------------------------------------------------
Browse ==
  \/ \E s \in Searches : Search(s)
  \/ \E n \in 1..totalCount : TurnPage(n)
  \/ \E size \in PageSizes : Resize(size)
  \/ \E field \in SortFields, order \in SortOrders : Sort(field, order)
  \/ Leave

Next ==
  \/ Browse
  \/ \E f \in fetches : Answer(f) \/ AnswerError(f)
  \/ \E p \in Products : Enter(p) \/ Erase(p)
  \/ \E i \in Posts : \/ Submit(i) \/ Serve(i) \/ Refuse(i)
                      \/ Succeed(i) \/ FailPost(i)

Spec == Init /\ [][Next]_vars

-----------------------------------------------------------------------------
(* Properties *)

(* Every variable has its type. *)
TypeOK ==
  /\ view \in Queries
  /\ shown \in Queries \cup {NoRows}
  /\ totalCount \in 0..Cardinality(Products)
  /\ isLoading \in BOOLEAN
  /\ fetches \subseteq [id : Fetches, query : Queries]
  /\ sent \in Fetches
  /\ newest \in 0..MaxFetches
  /\ quantities \in [Products -> 0..MaxEntries]
  /\ typed \in 0..MaxEntries
  /\ productOf \in [Entries -> Products \cup {0}]
  /\ withdrawn \subseteq Entries
  /\ posts \in [Posts -> PostRecords]
  /\ orders \subseteq Entries \X Posts

(* Once nothing is loading, the grid shows what the page says it shows (or *)
(* nothing, after an error), unless an older answer overtook a newer one:  *)
(* every change of the view leads to a request of its own.                 *)
GridShowsViewUnlessOvertaken ==
  fetches = {} /\ newest = sent => shown \in {view, NoRows}

(* The pages of a listing split its hits: every product that matches is on *)
(* exactly one page within the total, however many share their sort key,   *)
(* and no page is longer than its size.                                    *)
PagesSplitTheHits ==
  LET pages == {n \in 1..CountProducts(view) : (n - 1) * view.size < CountProducts(view)}
      rows(n) == ListProducts([view EXCEPT !.page = n])
  IN  /\ \A p \in Hits[view.search] :
           \E n \in pages : \A m \in pages : p \in rows(m) <=> m = n
      /\ \A n \in pages : Cardinality(rows(n)) <= view.size

(* A quantity that was typed once is ordered twice only when the shopper   *)
(* sent it again before the first answer, or the first answer was lost.    *)
OrderedTwiceOnlyByResending ==
  \A e \in Entries, i, j \in Posts :
    i < j /\ {<<e, i>>, <<e, j>>} \subseteq orders =>
      i \in posts[j].during \/ posts[i].state = "lost"

(* An entry that is neither in the form any more nor ordered nor withdrawn *)
(* by the shopper.                                                         *)
Vanished(e) ==
  /\ e <= typed
  /\ e \notin Entered \cup withdrawn
  /\ \A i \in Posts : <<e, i>> \notin orders

(* The entry was on a page that was not on display when order i was sent,  *)
(* or was typed after that.                                                *)
NotPartOf(e, i) == productOf[e] \notin posts[i].rows \/ e > posts[i].typed

(* What an order leaves out and still wipes from the form are the entries  *)
(* of other pages and those typed while it was under way; an order that    *)
(* fails wipes nothing.                                                    *)
VanishedOnlyByAnotherOrder ==
  \A e \in Entries : Vanished(e) =>
    \E i \in Posts : posts[i].state = "done" /\ NotPartOf(e, i)
=============================================================================
