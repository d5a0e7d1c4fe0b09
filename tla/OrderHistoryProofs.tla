------------------------- MODULE OrderHistoryProofs -------------------------
(* Theorems about OrderHistory: they hold for any number of orders,        *)
(* requests and views.                                                     *)
EXTENDS OrderHistory, FiniteSetTheorems, TLAPS

-----------------------------------------------------------------------------
(* The inductive invariant, in parts.                                      *)

(* The table has moved on since rows were read from it: no order has left  *)
(* it, and none went back unless a racing plan took it back.               *)
Past(rows) ==
  \A o \in Orders : rows[o] # "absent" =>
    /\ status[o] # "absent"
    /\ o \notin undone => Alphabetical[status[o]] <= Alphabetical[rows[o]]

(* The same of two readings. *)
NoEarlier(rows, old) ==
  \A o \in Orders : old[o] # "absent" /\ o \notin undone =>
    Alphabetical[rows[o]] <= Alphabetical[old[o]]

(* What a request has read so far, and what it will show. *)
Reading(f) ==
  /\ f.total <= Cardinality(Orders)
  /\ \A o \in f.placed : status[o] # "absent"
  /\ f.pc # "rows" =>
       /\ f.rows \in Tables
       /\ Past(f.rows)
       /\ \A o \in f.placed : f.rows[o] # "absent"
       /\ f.saw = shown.id /\ shown.rows # NoRows => NoEarlier(f.rows, shown.rows)
  /\ f.pc = "answer" => Cardinality(Matching(f.query, f.rows)) <= f.total

ReadInv == \A f \in fetches : Reading(f)

(* Numbers are given once, and a request never saw one that is under way. *)
Numbers ==
  /\ shown.id <= sent
  /\ \A f \in fetches :
       /\ f.id <= sent
       /\ f.saw <= sent
       /\ f.id # shown.id
       /\ \A g \in fetches : (f.id = g.id => f = g) /\ f.saw # g.id

(* The last request asks for the view. *)
ViewInv ==
  /\ shown.id = sent => shown.query = view
  /\ \A f \in fetches : f.id = sent => f.query = view

ShownInv == shown.rows # NoRows =>
  /\ Past(shown.rows)
  /\ Cardinality(Matching(shown.query, shown.rows)) <= totalCount

IInv == TypeOK /\ Numbers /\ ReadInv /\ ViewInv /\ ShownInv /\ LoadingHasRequest

-----------------------------------------------------------------------------
(* Facts about ListOrders *)

(* The alphabetical order of the stages is one of numbers. *)
LEMMA StageOrder == \A s \in Stages : Alphabetical[s] \in Nat
BY DEF Stages, Alphabetical

(* What a query matches is a finite set of orders. *)
LEMMA MatchingFinite ==
  ASSUME NEW query \in Queries, NEW rows
  PROVE  /\ Matching(query, rows) \subseteq Orders
         /\ IsFiniteSet(Matching(query, rows))
         /\ Cardinality(Matching(query, rows)) \in Nat
         /\ Cardinality(Matching(query, rows)) <= Cardinality(Orders)
<1>1. Matching(query, rows) \subseteq Orders
  BY OrderHistoryAssumption DEF Matching, Queries
<1>2. QED
  BY <1>1, FS_Subset, FS_CardinalityType, OrderHistoryAssumption

(* What matches in an older reading matches in a newer one. *)
LEMMA MatchingGrows ==
  ASSUME NEW query \in Queries, NEW rows, NEW later,
         \A o \in Orders : rows[o] # "absent" => later[o] # "absent"
  PROVE  Cardinality(Matching(query, rows)) <= Cardinality(Matching(query, later))
<1>1. Matching(query, rows) \subseteq Matching(query, later)
  BY MatchingFinite DEF Matching
<1>2. QED
  BY <1>1, MatchingFinite, FS_Subset

(* A page never holds more rows than match. *)
LEMMA PageWithinMatching ==
  ASSUME NEW query \in Queries, NEW rows
  PROVE  Cardinality(ListOrders(query, rows)) <= Cardinality(Matching(query, rows))
BY MatchingFinite, FS_Subset DEF ListOrders, RowsFrom

(* No order comes before itself, so the last of n rows has place n - 1. *)
LEMMA PlaceBelowCount ==
  ASSUME NEW query \in Queries, NEW rows \in Tables, NEW o \in Matching(query, rows)
  PROVE  /\ PlaceOf(o, query, rows) \in Nat
         /\ PlaceOf(o, query, rows) < Cardinality(Matching(query, rows))
<1> DEFINE M == Matching(query, rows)
           Earlier == {p \in M : Before(p, o, query, rows)}
<1>1. o \in Orders /\ o \in Nat
  BY MatchingFinite, OrderHistoryAssumption
<1>2. Alphabetical[rows[o]] \in Int /\ NameRank[o] \in Int
  BY <1>1, StageOrder, OrderHistoryAssumption DEF Tables
<1>3. SortKey(o, query.field, rows) \in Int
  BY <1>1, <1>2 DEF SortKey
<1>4. ~Before(o, o, query, rows)
  BY <1>1, <1>3 DEF Before
<1>5. Earlier \subseteq M \ {o} /\ IsFiniteSet(M) /\ Cardinality(M) \in Nat
  BY <1>4, MatchingFinite
<1>6. IsFiniteSet(M \ {o}) /\ Cardinality(M \ {o}) = Cardinality(M) - 1
  BY <1>5, FS_RemoveElement
<1>7. /\ Cardinality(Earlier) \in Nat
      /\ Cardinality(Earlier) <= Cardinality(M \ {o})
  BY <1>5, <1>6, FS_Subset, FS_CardinalityType
<1>8. QED
  BY <1>5, <1>6, <1>7 DEF PlaceOf

(* A page that is as large as the number of matching orders shows them all. *)
LEMMA WholeFits ==
  ASSUME NEW query \in Queries, NEW rows \in Tables,
         Cardinality(Matching(query, rows)) <= query.size
  PROVE  ListOrders(query, rows) = Matching(query, rows)
<1>1. /\ query.size \in Nat
      /\ Cardinality(Matching(query, rows)) \in Nat
  BY MatchingFinite, OrderHistoryAssumption DEF Queries
<1>2. ASSUME NEW o \in Matching(query, rows)
      PROVE  o \in ListOrders(query, rows)
  <2>1. /\ 0 <= PlaceOf(o, query, rows)
        /\ PlaceOf(o, query, rows) < 0 + query.size
    BY <1>1, PlaceBelowCount
  <2>2. QED
    BY <2>1 DEF ListOrders, RowsFrom, Offset
<1>3. QED
  BY <1>2 DEF ListOrders, RowsFrom

-----------------------------------------------------------------------------
(* The table moves on *)

Advances ==
  /\ status' \in Tables
  /\ undone \subseteq undone' /\ undone' \subseteq Orders
  /\ \A o \in Orders : status[o] # "absent" =>
       /\ status'[o] # "absent"
       /\ o \notin undone' => Alphabetical[status'[o]] <= Alphabetical[status[o]]

TableStep ==
  /\ \/ \E S \in SUBSET Orders : Place(S) \/ Take(S)
     \/ \E o \in Orders : Complete(o) \/ Undo(o)

(* A statement of the shop moves the table only and takes no order out of *)
(* it.                                                                    *)
LEMMA TableAdvances ==
  ASSUME TypeOK, TableStep
  PROVE  Advances /\ UNCHANGED <<view, shown, totalCount, isLoading, fetches, sent>>
<1> USE DEF TypeOK, Tables, Stages, Alphabetical, Advances
<1>1. ASSUME NEW S \in SUBSET Orders, Place(S)
      PROVE  Advances /\ UNCHANGED <<view, shown, totalCount, isLoading, fetches, sent>>
  BY <1>1 DEF Place, Table!Place, Table!Advance, page
<1>2. ASSUME NEW S \in SUBSET Orders, Take(S)
      PROVE  Advances /\ UNCHANGED <<view, shown, totalCount, isLoading, fetches, sent>>
  BY <1>2 DEF Take, Table!Take, Table!Advance, page
<1>3. ASSUME NEW o \in Orders, Complete(o)
      PROVE  Advances /\ UNCHANGED <<view, shown, totalCount, isLoading, fetches, sent>>
  BY <1>3 DEF Complete, Table!Complete, Table!Advance, page
<1>4. ASSUME NEW o \in Orders, Undo(o)
      PROVE  Advances /\ UNCHANGED <<view, shown, totalCount, isLoading, fetches, sent>>
  BY <1>4 DEF Undo, page
<1>5. QED
  BY <1>1, <1>2, <1>3, <1>4 DEF TableStep

(* What was a past of the table stays one. *)
LEMMA PastStays ==
  ASSUME TypeOK, Advances, NEW rows \in Tables, Past(rows)
  PROVE  Past(rows)'
<1>1. ASSUME NEW o \in Orders, rows[o] # "absent"
      PROVE  /\ status'[o] # "absent"
             /\ o \notin undone' => Alphabetical[status'[o]] <= Alphabetical[rows[o]]
  <2>1. /\ Alphabetical[status'[o]] \in Nat
        /\ Alphabetical[status[o]] \in Nat
        /\ Alphabetical[rows[o]] \in Nat
    BY StageOrder DEF TypeOK, Tables, Advances
  <2>2. QED
    BY <1>1, <2>1 DEF Past, Advances
<1>2. QED
  BY <1>1 DEF Past

(* The invariant does not depend on when the table changes. *)
LEMMA TableKeeps ==
  ASSUME IInv, TableStep
  PROVE  IInv'
<1>1. Advances /\ UNCHANGED <<view, shown, totalCount, isLoading, fetches, sent>>
  BY TableAdvances DEF IInv
<1>2. TypeOK'
  BY <1>1 DEF IInv, TypeOK, Advances
<1>3. Numbers' /\ ViewInv' /\ LoadingHasRequest'
  BY <1>1 DEF IInv, Numbers, ViewInv, LoadingHasRequest
<1>4. ASSUME NEW f \in fetches
      PROVE  Reading(f)'
  <2>1. Reading(f) /\ f \in FetchRecords
    BY DEF IInv, ReadInv, TypeOK
  <2>2. f.pc # "rows" => Past(f.rows)'
    BY <1>1, <2>1, PastStays DEF Reading, IInv
  <2>3. f.pc # "rows" /\ f.saw = shown.id /\ shown.rows # NoRows =>
          NoEarlier(f.rows, shown.rows)'
    BY <1>1, <2>1 DEF Reading, NoEarlier, Advances
  <2>4. \A o \in f.placed : status'[o] # "absent"
    BY <1>1, <2>1 DEF Reading, Advances, FetchRecords
  <2>5. QED
    BY <1>1, <2>1, <2>2, <2>3, <2>4 DEF Reading
<1>5. ShownInv'
  BY <1>1, PastStays DEF IInv, ShownInv, TypeOK
<1>6. QED
  BY <1>1, <1>2, <1>3, <1>4, <1>5 DEF IInv, ReadInv

-----------------------------------------------------------------------------
(* The backend reads *)

(* The SELECT and the COUNT of a listing keep the invariant. *)
LEMMA ReadKeeps ==
  ASSUME IInv, NEW f \in fetches, Read(f)
  PROVE  IInv'
<1> USE DEF IInv
<1> DEFINE g == SelectThenCount(f)
<1>1. /\ f.pc # "answer"
      /\ fetches' = (fetches \ {f}) \cup {g}
      /\ UNCHANGED <<status, undone, view, shown, totalCount, isLoading, sent>>
  BY DEF Read, table, page
<1>2. /\ f \in FetchRecords /\ Reading(f) /\ f.query \in Queries
      /\ f.pc \in {"rows", "count"} /\ status \in Tables
  BY <1>1 DEF TypeOK, ReadInv, FetchRecords
<1>3. /\ g.id = f.id /\ g.query = f.query /\ g.placed = f.placed /\ g.saw = f.saw
      /\ f.pc = "rows" => g.pc = "count" /\ g.rows = status /\ g.total = f.total
      /\ f.pc = "count" => /\ g.pc = "answer" /\ g.rows = f.rows
                           /\ g.total = Cardinality(Matching(f.query, status))
  BY <1>2 DEF SelectThenCount, FetchRecords
<1>4. g \in FetchRecords
  <2>1. Cardinality(Matching(f.query, status)) \in Nat
    BY <1>2, MatchingFinite
  <2>2. g = [id |-> g.id, query |-> g.query, pc |-> g.pc, rows |-> g.rows,
             total |-> g.total, placed |-> g.placed, saw |-> g.saw]
    BY <1>2 DEF SelectThenCount, FetchRecords
  <2>3. /\ g.id \in Fetches /\ g.query \in Queries /\ g.pc \in {"rows", "count", "answer"}
        /\ g.rows \in Tables \cup {NoRows} /\ g.total \in Nat
        /\ g.placed \in SUBSET Orders /\ g.saw \in 0..MaxFetches
    BY <1>2, <1>3, <2>1 DEF FetchRecords
  <2>4. QED
    BY <2>2, <2>3 DEF FetchRecords
<1>5. TypeOK'
  BY <1>1, <1>4 DEF TypeOK
<1>6. Numbers' /\ ViewInv' /\ LoadingHasRequest' /\ ShownInv'
  <2>1. Numbers'
    BY <1>1, <1>3 DEF Numbers
  <2>2. QED
    BY <1>1, <1>3, <2>1 DEF ViewInv, LoadingHasRequest, ShownInv, Past
<1>7. Past(status) /\ (shown.rows # NoRows => NoEarlier(status, shown.rows))
  <2>1. \A o \in Orders : Alphabetical[status[o]] \in Nat
    BY StageOrder DEF TypeOK, Tables
  <2>2. QED
    BY <2>1 DEF Past, NoEarlier, ShownInv
<1>8. Reading(g)
  <2>1. CASE f.pc = "rows"
    BY <1>2, <1>3, <1>7, <2>1 DEF Reading
  <2>2. CASE f.pc = "count"
    <3>1. /\ Cardinality(Matching(f.query, f.rows)) <= g.total
          /\ g.total <= Cardinality(Orders)
      BY <1>2, <1>3, <2>2, MatchingGrows, MatchingFinite DEF Reading, Past
    <3>2. QED
      BY <1>2, <1>3, <2>2, <3>1 DEF Reading
  <2>3. QED
    BY <1>2, <2>1, <2>2
<1>9. ReadInv'
  <2>1. ASSUME NEW h \in fetches'
        PROVE  Reading(h)'
    <3>1. Reading(h)
      BY <1>1, <1>8 DEF ReadInv
    <3>2. QED
      BY <1>1, <3>1 DEF Reading, Past, NoEarlier
  <2>2. QED
    BY <2>1 DEF ReadInv
<1>10. QED
  BY <1>5, <1>6, <1>9

-----------------------------------------------------------------------------
(* The page sends a request *)

(* A request begins before its SELECT, with what it was sent for. *)
LEMMA FirstRequest ==
  ASSUME TypeOK, NEW id \in Fetches, NEW query \in Queries, NEW saw \in 0..MaxFetches,
         NEW f, f = Request(id, query, saw)
  PROVE  /\ f \in FetchRecords
         /\ f.id = id /\ f.query = query /\ f.saw = saw /\ f.pc = "rows" /\ f.total = 0
         /\ \A o \in f.placed : status[o] # "absent"
BY DEF Request, FetchRecords

(* The orders can be counted. *)
LEMMA CardinalityOrders == Cardinality(Orders) \in Nat
BY FS_CardinalityType, OrderHistoryAssumption

(* Another page of a view is a view. *)
LEMMA OtherPage ==
  ASSUME NEW query \in Queries, NEW n \in Nat \ {0}
  PROVE  [query EXCEPT !.page = n] \in Queries
BY DEF Queries

(* Searching, paging, resizing and sorting turn a view into a view. *)
LEMMA ViewTypes ==
  ASSUME TypeOK
  PROVE  /\ \A s \in Searches : [view EXCEPT !.search = s, !.page = 1] \in Queries
         /\ \A n \in Nat \ {0} : [view EXCEPT !.page = n] \in Queries
         /\ \A size \in PageSizes : [view EXCEPT !.size = size, !.page = 1] \in Queries
         /\ \A field \in SortFields, order \in SortOrders :
              [view EXCEPT !.field = field, !.order = order] \in Queries
<1>1. ASSUME NEW s \in Searches
      PROVE  [view EXCEPT !.search = s, !.page = 1] \in Queries
  <2>1. [view EXCEPT !.search = s] \in Queries
    BY DEF TypeOK, Queries
  <2>2. [[view EXCEPT !.search = s] EXCEPT !.page = 1] \in Queries
    BY <2>1, OtherPage, 1 \in Nat \ {0}
  <2>3. QED
    BY <2>2
<1>2. ASSUME NEW n \in Nat \ {0}
      PROVE  [view EXCEPT !.page = n] \in Queries
  BY OtherPage DEF TypeOK
<1>3. ASSUME NEW size \in PageSizes
      PROVE  [view EXCEPT !.size = size, !.page = 1] \in Queries
  <2>1. [view EXCEPT !.size = size] \in Queries
    BY DEF TypeOK, Queries
  <2>2. [[view EXCEPT !.size = size] EXCEPT !.page = 1] \in Queries
    BY <2>1, OtherPage, 1 \in Nat \ {0}
  <2>3. QED
    BY <2>2
<1>4. ASSUME NEW field \in SortFields, NEW order \in SortOrders
      PROVE  [view EXCEPT !.field = field, !.order = order] \in Queries
  <2>1. [view EXCEPT !.field = field] \in Queries
    BY DEF TypeOK, Queries
  <2>2. [[view EXCEPT !.field = field] EXCEPT !.order = order] \in Queries
    BY <2>1 DEF Queries
  <2>3. QED
    BY <2>2
<1>5. QED
  BY <1>1, <1>2, <1>3, <1>4

(* A change of the view, with the request it sends, keeps the invariant. *)
LEMMA ShowKeeps ==
  ASSUME IInv, NEW v \in Queries, Show(v)
  PROVE  IInv'
<1> USE DEF IInv
<1> DEFINE f == Request(sent + 1, v, shown.id)
<1>1. /\ view' = v /\ sent' = sent + 1 /\ sent' \in Fetches /\ isLoading' = TRUE
      /\ fetches' = fetches \cup {f}
      /\ UNCHANGED <<status, undone, shown, totalCount>>
      /\ sent \in Nat /\ shown.id \in 0..MaxFetches
  BY OrderHistoryAssumption DEF Show, Fetch, table, TypeOK, Fetches
<1>2. /\ f \in FetchRecords
      /\ f.id = sent' /\ f.query = v /\ f.saw = shown.id /\ f.pc = "rows" /\ f.total = 0
      /\ \A o \in f.placed : status[o] # "absent"
  <2>1. \A g : g = Request(sent', v, shown.id) =>
          /\ g \in FetchRecords
          /\ g.id = sent' /\ g.query = v /\ g.saw = shown.id /\ g.pc = "rows" /\ g.total = 0
          /\ \A o \in g.placed : status[o] # "absent"
    BY <1>1, FirstRequest
  <2>2. QED
    BY <1>1, <2>1
<1>3. TypeOK'
  BY <1>1, <1>2 DEF TypeOK
<1>4. \A g \in fetches : g.id \in Nat /\ g.saw \in Nat
  BY DEF TypeOK, FetchRecords, Fetches
<1>5. Numbers'
  BY <1>1, <1>2, <1>4 DEF Numbers
<1>6. ViewInv' /\ LoadingHasRequest'
  BY <1>1, <1>2, <1>4 DEF ViewInv, LoadingHasRequest, Numbers
<1>7. ShownInv'
  BY <1>1 DEF ShownInv, Past
<1>8. ASSUME NEW g \in fetches'
      PROVE  Reading(g)'
  <2>1. Reading(g)
    BY <1>1, <1>2, CardinalityOrders DEF ReadInv, Reading
  <2>2. QED
    BY <1>1, <2>1 DEF Reading, Past, NoEarlier
<1>9. QED
  BY <1>3, <1>5, <1>6, <1>7, <1>8 DEF ReadInv

(* Leaving the page and coming back keeps the invariant. *)
LEMMA LeaveKeeps ==
  ASSUME IInv, Leave
  PROVE  IInv'
<1> USE DEF IInv
<1> DEFINE f == Request(sent + 1, FirstView, 0)
<1>1. /\ view' = FirstView /\ sent' = sent + 1 /\ sent' \in Fetches /\ isLoading' = TRUE
      /\ fetches' = {f}
      /\ shown' = NothingShown /\ totalCount' = 0
      /\ UNCHANGED <<status, undone>>
      /\ sent \in Nat /\ FirstView \in Queries /\ 0 \in 0..MaxFetches
  BY OrderHistoryAssumption DEF Leave, Fetch, table, TypeOK, Fetches
<1>2. /\ f \in FetchRecords
      /\ f.id = sent' /\ f.query = FirstView /\ f.saw = 0 /\ f.pc = "rows" /\ f.total = 0
      /\ \A o \in f.placed : status[o] # "absent"
  <2>1. \A g : g = Request(sent', FirstView, 0) =>
          /\ g \in FetchRecords
          /\ g.id = sent' /\ g.query = FirstView /\ g.saw = 0 /\ g.pc = "rows" /\ g.total = 0
          /\ \A o \in g.placed : status[o] # "absent"
    BY <1>1, FirstRequest
  <2>2. QED
    BY <1>1, <2>1
<1>3. /\ shown'.id = 0 /\ shown'.rows = NoRows /\ shown'.query = FirstView
      /\ shown' \in [id : 0..MaxFetches, query : Queries, rows : Tables \cup {NoRows}]
  BY <1>1 DEF NothingShown
<1>4. TypeOK'
  BY <1>1, <1>2, <1>3, CardinalityOrders DEF TypeOK
<1>5. Numbers' /\ ViewInv' /\ LoadingHasRequest' /\ ShownInv'
  BY <1>1, <1>2, <1>3 DEF Numbers, ViewInv, LoadingHasRequest, ShownInv
<1>6. ASSUME NEW g \in fetches'
      PROVE  Reading(g)'
  <2>1. g.total = 0 /\ g.pc = "rows" /\ \A o \in g.placed : status[o] # "absent"
    BY <1>1, <1>2
  <2>2. QED
    BY <1>1, <2>1, CardinalityOrders DEF Reading
<1>7. QED
  BY <1>4, <1>5, <1>6 DEF ReadInv

-----------------------------------------------------------------------------
(* Answers *)

(* When a request ends, the others stand to the grid as they did, or have *)
(* been overtaken.                                                        *)
LEMMA OthersOvertaken ==
  ASSUME IInv, NEW f \in fetches, fetches' = fetches \ {f},
         shown'.id = f.id, UNCHANGED <<status, undone, sent, view>>
  PROVE  Numbers' /\ ReadInv' /\ (\A g \in fetches' : g.id = sent => g.query = view)
<1> USE DEF IInv
<1>1. \A g \in fetches' : g \in fetches /\ g.id # f.id /\ g.saw # f.id
  BY DEF Numbers
<1>2. Numbers'
  BY <1>1 DEF Numbers
<1>3. ASSUME NEW g \in fetches'
      PROVE  Reading(g)'
  BY <1>1 DEF ReadInv, Reading, Past
<1>4. QED
  BY <1>1, <1>2, <1>3 DEF ReadInv, ViewInv

(* An answer that arrives, in or out of order, keeps the invariant. *)
LEMMA AnswerKeeps ==
  ASSUME IInv, NEW f \in fetches, Answer(f)
  PROVE  IInv'
<1> USE DEF IInv
<1>1. /\ f.pc = "answer" /\ fetches' = fetches \ {f}
      /\ shown' = [id |-> f.id, query |-> f.query, rows |-> f.rows]
      /\ totalCount' = f.total /\ isLoading' = FALSE
      /\ UNCHANGED <<status, undone, sent, view>>
  BY DEF Answer, table
<1>2. shown'.id = f.id /\ shown'.query = f.query /\ shown'.rows = f.rows
  BY <1>1
<1>3. /\ f \in FetchRecords /\ Reading(f)
      /\ f.id \in Fetches /\ f.query \in Queries /\ f.total \in Nat /\ f.rows \in Tables
  BY <1>1 DEF TypeOK, ReadInv, FetchRecords, Reading
<1>4. shown' \in [id : 0..MaxFetches, query : Queries, rows : Tables \cup {NoRows}]
  BY <1>1, <1>3 DEF Fetches
<1>5. f.total \in 0..Cardinality(Orders)
  BY <1>3, CardinalityOrders DEF Reading
<1>6. TypeOK'
  BY <1>1, <1>4, <1>5 DEF TypeOK
<1>7. Numbers' /\ ReadInv' /\ (\A g \in fetches' : g.id = sent => g.query = view)
  BY <1>1, <1>2, OthersOvertaken
<1>8. ViewInv' /\ LoadingHasRequest'
  BY <1>1, <1>2, <1>7 DEF ViewInv, LoadingHasRequest
<1>9. ShownInv'
  BY <1>1, <1>2, <1>3 DEF ShownInv, Reading, Past
<1>10. QED
  BY <1>6, <1>7, <1>8, <1>9

(* So does a request that fails. *)
LEMMA ErrorKeeps ==
  ASSUME IInv, NEW f \in fetches, AnswerError(f)
  PROVE  IInv'
<1> USE DEF IInv
<1>1. /\ fetches' = fetches \ {f}
      /\ shown' = [id |-> f.id, query |-> f.query, rows |-> NoRows]
      /\ isLoading' = FALSE
      /\ UNCHANGED <<status, undone, sent, view, totalCount>>
  BY DEF AnswerError, table
<1>2. shown'.id = f.id /\ shown'.query = f.query /\ shown'.rows = NoRows
  BY <1>1
<1>3. f \in FetchRecords /\ f.id \in Fetches /\ f.query \in Queries
  BY DEF TypeOK, FetchRecords
<1>4. shown' \in [id : 0..MaxFetches, query : Queries, rows : Tables \cup {NoRows}]
  BY <1>1, <1>3 DEF Fetches
<1>5. TypeOK'
  BY <1>1, <1>4 DEF TypeOK
<1>6. Numbers' /\ ReadInv' /\ (\A g \in fetches' : g.id = sent => g.query = view)
  BY <1>1, <1>2, OthersOvertaken
<1>7. ViewInv' /\ LoadingHasRequest' /\ ShownInv'
  BY <1>1, <1>2, <1>6 DEF ViewInv, LoadingHasRequest, ShownInv
<1>8. QED
  BY <1>5, <1>6, <1>7
-----------------------------------------------------------------------------
(* The page that has just been opened satisfies the invariant. *)
LEMMA InitIInv == ASSUME Init PROVE IInv
<1> DEFINE f == Request(1, FirstView, 0)
<1>1. /\ status = [o \in Orders |-> "absent"] /\ undone = {} /\ view = FirstView
      /\ shown = NothingShown /\ totalCount = 0 /\ isLoading = TRUE
      /\ fetches = {f} /\ sent = 1
      /\ FirstView \in Queries /\ 0 \in 0..MaxFetches /\ 1 \in Fetches
      /\ status \in Tables
  BY OrderHistoryAssumption DEF Init, Fetches, Tables, Stages
<1>2. /\ f \in FetchRecords
      /\ f.id = 1 /\ f.query = FirstView /\ f.saw = 0 /\ f.pc = "rows" /\ f.total = 0
      /\ \A o \in f.placed : status[o] # "absent"
  BY <1>1 DEF Request, FetchRecords
<1>3. /\ shown.id = 0 /\ shown.rows = NoRows /\ shown.query = FirstView
      /\ shown \in [id : 0..MaxFetches, query : Queries, rows : Tables \cup {NoRows}]
  BY <1>1 DEF NothingShown
<1>4. TypeOK
  BY <1>1, <1>2, <1>3, CardinalityOrders DEF TypeOK
<1>5. Numbers /\ ViewInv /\ LoadingHasRequest /\ ShownInv
  BY <1>1, <1>2, <1>3 DEF Numbers, ViewInv, LoadingHasRequest, ShownInv
<1>6. ASSUME NEW g \in fetches
      PROVE  Reading(g)
  <2>1. g.total = 0 /\ g.pc = "rows" /\ \A o \in g.placed : status[o] # "absent"
    BY <1>1, <1>2
  <2>2. QED
    BY <2>1, CardinalityOrders DEF Reading
<1>7. QED
  BY <1>4, <1>5, <1>6 DEF IInv, ReadInv

(* Every step of page, requests and table keeps the invariant. *)
LEMMA NextKeeps == ASSUME IInv, [Next]_vars PROVE IInv'
<1>1. ASSUME Browse PROVE IInv'
  <2>1. CASE Leave
    BY <2>1, LeaveKeeps
  <2>2. ASSUME NEW s \in Searches, Search(s) PROVE IInv'
    BY <2>2, ViewTypes, ShowKeeps DEF Search, IInv
  <2>3. ASSUME NEW n \in 1..totalCount, TurnPage(n) PROVE IInv'
    <3>1. n \in Nat \ {0}
      BY CardinalityOrders DEF IInv, TypeOK
    <3>2. QED
      BY <2>3, <3>1, ViewTypes, ShowKeeps DEF TurnPage, IInv
  <2>4. ASSUME NEW size \in PageSizes, Resize(size) PROVE IInv'
    BY <2>4, ViewTypes, ShowKeeps DEF Resize, IInv
  <2>5. ASSUME NEW field \in SortFields, NEW order \in SortOrders, Sort(field, order)
        PROVE  IInv'
    BY <2>5, ViewTypes, ShowKeeps DEF Sort, IInv
  <2>6. QED
    BY <1>1, <2>1, <2>2, <2>3, <2>4, <2>5 DEF Browse
<1>2. ASSUME NEW f \in fetches, Read(f) \/ Answer(f) \/ AnswerError(f)
      PROVE  IInv'
  BY <1>2, ReadKeeps, AnswerKeeps, ErrorKeeps
<1>3. CASE TableStep
  BY <1>3, TableKeeps
<1>4. CASE UNCHANGED vars
  <2>1. /\ UNCHANGED <<status, undone, view, shown, totalCount, isLoading, fetches, sent>>
    BY <1>4 DEF vars, table, page
  <2>2. TypeOK' /\ Numbers' /\ ViewInv' /\ ShownInv' /\ LoadingHasRequest'
    BY <2>1 DEF IInv, TypeOK, Numbers, ViewInv, ShownInv, LoadingHasRequest, Past
  <2>3. ReadInv'
    BY <2>1 DEF IInv, ReadInv, Reading, Past, NoEarlier
  <2>4. QED
    BY <2>2, <2>3 DEF IInv
<1>5. QED
  BY <1>1, <1>2, <1>3, <1>4 DEF Next, TableStep

(* The invariant holds in every reachable state. *)
LEMMA AlwaysIInv == Spec => []IInv
<1>1. Init => IInv
  BY InitIInv
<1>2. IInv /\ [Next]_vars => IInv'
  BY NextKeeps
<1>3. QED
  BY <1>1, <1>2, PTL DEF Spec

-----------------------------------------------------------------------------
(* Every variable of the page, of its requests and of the orders table     *)
(* keeps its type, whatever the number of orders and requests.             *)
THEOREM TypeCorrect == Spec => []TypeOK
<1>1. IInv => TypeOK
  BY DEF IInv
<1>2. QED
  BY <1>1, AlwaysIInv, PTL

(* fetchOrders sends the view it was called with, and a new request goes   *)
(* out with every change of the view: with nothing under way the grid      *)
(* answers the view if the newest request was the last to answer.          *)
THEOREM HistoryShowsView == Spec => []HistoryShowsViewUnlessOvertaken
<1>1. IInv => HistoryShowsViewUnlessOvertaken
  BY DEF IInv, ViewInv, HistoryShowsViewUnlessOvertaken
<1>2. QED
  BY <1>1, AlwaysIInv, PTL

(* ListOrders reads the rows before it counts, and rows only get added:    *)
(* the grid never has more rows than the total says.                       *)
THEOREM RowsNeverExceedTotal == Spec => []RowsWithinTotal
<1>1. ASSUME IInv PROVE RowsWithinTotal
  <2>1. CASE shown.rows = NoRows
    <3>1. Displayed = {} /\ totalCount \in Nat
      BY <1>1, <2>1, CardinalityOrders DEF Displayed, IInv, TypeOK
    <3>2. QED
      BY <3>1, FS_EmptySet DEF RowsWithinTotal
  <2>2. CASE shown.rows # NoRows
    <3>1. /\ shown.query \in Queries /\ totalCount \in Nat
          /\ Displayed = ListOrders(shown.query, shown.rows)
      BY <1>1, <2>2, CardinalityOrders DEF Displayed, IInv, TypeOK
    <3>2. /\ Cardinality(Displayed) <= Cardinality(Matching(shown.query, shown.rows))
          /\ Cardinality(Matching(shown.query, shown.rows)) <= totalCount
          /\ Cardinality(Matching(shown.query, shown.rows)) \in Nat
      BY <1>1, <2>2, <3>1, PageWithinMatching, MatchingFinite DEF IInv, ShownInv
    <3>3. Displayed \subseteq Orders
      BY <3>1, MatchingFinite DEF ListOrders, RowsFrom
    <3>4. Cardinality(Displayed) \in Nat
      BY <3>3, FS_Subset, FS_CardinalityType, OrderHistoryAssumption
    <3>5. QED
      BY <3>1, <3>2, <3>4 DEF RowsWithinTotal
  <2>3. QED
    BY <2>1, <2>2
<1>2. QED
  BY <1>1, AlwaysIInv, PTL

(* The order of the rows is total, so a page as large as the total holds   *)
(* every matching order: also those placed before the request was sent.    *)
THEOREM FullPagesAreComplete == Spec => []FullPageIsComplete
<1>1. ASSUME IInv, NEW f \in fetches,
             f.pc = "answer", f.total <= f.query.size
      PROVE  f.placed \cap Hits[f.query.search] \subseteq ListOrders(f.query, f.rows)
  <2>1. /\ f.query \in Queries /\ f.total \in Nat /\ f.placed \subseteq Orders
        /\ Reading(f)
    BY <1>1 DEF IInv, TypeOK, ReadInv, FetchRecords
  <2>2. /\ f.rows \in Tables
        /\ Cardinality(Matching(f.query, f.rows)) <= f.total
        /\ \A o \in f.placed : f.rows[o] # "absent"
    BY <1>1, <2>1 DEF Reading
  <2>3. /\ f.query.size \in Nat
        /\ Cardinality(Matching(f.query, f.rows)) \in Nat
    BY <2>1, MatchingFinite, OrderHistoryAssumption DEF Queries
  <2>4. ListOrders(f.query, f.rows) = Matching(f.query, f.rows)
    BY <1>1, <2>1, <2>2, <2>3, WholeFits
  <2>5. Hits[f.query.search] \subseteq Orders
    BY <2>1, OrderHistoryAssumption DEF Queries
  <2>6. QED
    BY <2>1, <2>2, <2>4, <2>5 DEF Matching
<1>2. IInv => FullPageIsComplete
  BY <1>1 DEF FullPageIsComplete
<1>3. QED
  BY <1>2, AlwaysIInv, PTL

(* fetchOrders ends the loading in every outcome, and a new view starts it *)
(* only together with a request: search and reset come back.               *)
THEOREM LoadingEnds == Spec => []LoadingHasRequest
<1>1. IInv => LoadingHasRequest
  BY DEF IInv
<1>2. QED
  BY <1>1, AlwaysIInv, PTL

(* Between two answers that did not cross, an order is never shown with an *)
(* earlier status, unless a plan took the completed order back.            *)
THEOREM StatusMovesForward == Spec => StatusGoesBackOnlyWhenCrossed
<1>1. ASSUME IInv, Next, NEW o \in Orders, StatusGoesBack(o), o \notin undone
      PROVE  \E f \in fetches : f.id = shown'.id /\ f.saw # shown.id
  <2>1. /\ o \in Displayed /\ o \in Displayed'
        /\ Alphabetical[shown'.rows[o]] > Alphabetical[shown.rows[o]]
        /\ shown.rows # NoRows /\ shown'.rows # NoRows
    BY <1>1 DEF StatusGoesBack, Displayed
  <2>2. /\ shown.query \in Queries /\ shown.rows \in Tables
        /\ shown.rows[o] # "absent"
    BY <1>1, <2>1 DEF Displayed, ListOrders, RowsFrom, Matching, IInv, TypeOK
  <2>3. Alphabetical[shown.rows[o]] \in Nat
    BY <2>2, StageOrder DEF Tables
  <2>4. shown' # shown
    BY <2>1, <2>3
  <2>5. PICK f \in fetches : Answer(f)
    <3>1. ~TableStep
      BY <1>1, <2>4, TableAdvances DEF IInv
    <3>2. ~Leave
      BY <2>1 DEF Leave, NothingShown
    <3>3. ASSUME NEW f \in fetches, Read(f) PROVE FALSE
      BY <2>4, <3>3 DEF Read, page
    <3>4. ASSUME NEW f \in fetches, AnswerError(f) PROVE FALSE
      BY <2>1, <3>4 DEF AnswerError
    <3>5. ASSUME NEW v, Show(v) PROVE FALSE
      BY <2>4, <3>5 DEF Show
    <3>6. ~Browse
      BY <3>2, <3>5 DEF Browse, Search, TurnPage, Resize, Sort
    <3>7. QED
      BY <1>1, <3>1, <3>3, <3>4, <3>6 DEF Next, TableStep
  <2>6. shown'.id = f.id /\ shown'.rows = f.rows /\ f.pc = "answer"
    BY <2>5 DEF Answer
  <2>7. f.rows \in Tables
    BY <1>1, <2>6 DEF IInv, ReadInv, Reading
  <2>8. Alphabetical[f.rows[o]] \in Nat
    BY <2>7, StageOrder DEF Tables
  <2>9. CASE f.saw = shown.id
    <3>1. NoEarlier(f.rows, shown.rows)
      BY <1>1, <2>1, <2>6, <2>9 DEF IInv, ReadInv, Reading
    <3>2. Alphabetical[f.rows[o]] <= Alphabetical[shown.rows[o]]
      BY <1>1, <2>2, <3>1 DEF NoEarlier
    <3>3. QED
      BY <2>1, <2>3, <2>6, <2>8, <3>2
  <2>10. QED
    BY <2>6, <2>9
<1>2. IInv /\ [Next]_vars => [BackOnlyWhenCrossed]_vars
  BY <1>1 DEF BackOnlyWhenCrossed
<1>3. QED
  BY <1>2, AlwaysIInv, PTL DEF Spec, StatusGoesBackOnlyWhenCrossed
=============================================================================
