# StoreLink: a verification project

StoreLink is a web shop with delivery robots. Shoppers place orders in a
browser, robots ask the backend for delivery plans and report deliveries, and
a load-test worker measures the whole. This directory holds TLA+ models of the
parts of the repository whose behaviour is hard to test, TLC configurations
that check them on small instances, and TLAPS proofs of properties that hold
for instances of any size. Paths below are relative to `src/`.

## 1. Inventory

### Components

| component | code | state it keeps | operations |
|---|---|---|---|
| Order dispatch | `webapp/backend/internal/service/{robot,product}.go`, `repository/{order,store}.go`, `service/utils/timeout.go`, `handler/{robot,product}.go` | the `orders` table (status, product, AUTO_INCREMENT id); the in-memory plan cache, one entry per capacity, 30 s | `CreateOrders`, `GenerateDeliveryPlan`, `UpdateOrderStatus` |
| Plan selection | `selectOrdersForDelivery` in `service/robot.go` | none (local tables) | bundling into chunks, 0/1 knapsack, reading the plan back |
| Load-test worker | `benchmarker/worker/{main,queue,lock,worker,postScore,dlq}.go` | rows of a status table, a message queue and a dead letter queue (Azure), scores (score server) | `processMessage`: mark, check, acquire, test, post, release, put aside, delete |
| Product page | `webapp/frontend/src/app/product/page.tsx` | search, sort, page, rows, total, loading flag, quantities | search, reset, turn page, resize, sort, enter quantity, order |
| Product listing | `handler/product.go`, `repository/product.go` | none (the catalogue is never written) | `List`, `ListProducts`, `CountProducts` |
| Order history | `handler/order.go`, `service/order.go`, `ListOrders` in `repository/order.go`, `app/orders/page.tsx` | search, sort, page, rows, total, loading flag | list, search, reset, turn page, resize, sort |
| Authentication | `service/auth.go`, `repository/session.go`, `middleware/auth.go`, `actions/auth.ts`, login, logout and root page | `user_sessions` (24 h), a cookie in the browser | login, check, logout |
| Database access | `db/db.go`, `repository/store.go`, `proxysql`, `mysql` | a pool of 20 connections | query, pair of queries, transaction |
| Edge proxy | `webapp/nginx/nginx.conf` | a 5 s cache of delivery plans, a rate limit | forward, serve from cache |
| Load-test scenarios | `benchmarker/worker/scenarios/*.js` | what a virtual robot or shopper has still to do | poll, complete, order, browse |
| Score, runner, scripts | `score/calcScore.go`, `cmd/runner`, `run.sh`, `get_test_status.sh` | files | compute, submit, ask |
| Telemetry, image endpoint | `telemetry/`, `middleware/{tracing,jaeger}.go`, `GetImage` | none | observe, read a file |

### How they interact

    browser ── product page ──► List / CreateOrders ─┐
                                                     ├─► orders table (MySQL)
    robot ──► [nginx cache] ──► GetDeliveryPlan ─────┤
      └─────► UpdateOrderStatus ─────────────────────┴─► plan cache (in memory)

    run.sh ──► request server ──► queue + status table ──► workers ──► k6 ──► the shop
                                                             └─► score server

Every request of the backend is a goroutine. Requests share nothing but the
database and the plan cache; the cache is filled after a plan's transaction
and flushed after each creation and each status update. The workers share
nothing but the tables and queues they call over the network.

### What is hard, and what makes each part correct

| component | hard behaviour | correct when |
|---|---|---|
| Order dispatch | a plan reads a snapshot, waits for locks, commits and fills the cache while other requests commit and flush; timeouts leave goroutines running; restarts lose the cache | cached plans hold claimed orders only; what they miss or repeat is bounded; a completed order stays completed but for a plan older than its completion; a claimed order is known to somebody until a fault at that very hand; every order is delivered |
| Plan selection | chunk sizes, loop bounds, the order of the cells | the plan is feasible and no choice is worth more |
| Load-test worker | several workers, redelivery during handling, every call may fail or lose its answer, crashes | no two tests on one machine, no request lost, no more rows left unsettled than calls failed, a finished request has a score, every request gets a result |
| Product page | answers out of order, a form that is changed while an order is under way, an order button that stays enabled | the grid shows what it says; each quantity is ordered once and none is wiped |
| Product listing | ties, offsets, page numbers from 0 and from 1 | the pages split the hits |
| Order history | answers out of order; rows and total from two statements while the table changes | the grid shows what it says, rows and total agree as far as they can, a shown status goes forward, the page stays usable |
| Authentication | logins that overlap, fail half-way or lose their answers; a session row and a cookie that expire by two clocks, between check and use too; a root page that trusts the cookie | a cookie opens a session of its own user or none |
| Database access | listings that need two connections, transactions that keep one while they wait for locks, errors at every step | no connection lost, no circular wait at the limit, every request ends |
| Edge proxy | a second cache that no Flush reaches, stale answers while the backend is down | what it repeats is claimed, and neither hides an order nor repeats one for ever |

The single hazards, each at its line, are listed in `PROJECT.json`.

## 2. Plan

Order of work; *done* is what this directory holds.

1. `OrderLifecycle`, `PlanSelection`, `Dispatch`: the core. *Done*, with
   `PlanSelectionProofs` and `DispatchProofs`.
2. `Knapsack`: the algorithm `Dispatch` takes as a definition. *Done*, with
   `KnapsackProofs`.
3. `LoadTestWorker`. *Done*, with `LoadTestWorkerProofs`.
4. `Listing`, `Storefront`. *Done*, with `StorefrontProofs`.
5. `OrderHistory`: the page, `ListOrders` and the table behind it. *Done*, with
   `OrderHistoryProofs`.
6. `Requests`: login, session check, expiry and logout, and what every request
   asks of the connection pool; sessions and pool in one module because the
   check of a session is itself a statement. *Done*, with `RequestsProofs`.
7. `EdgeDispatch`: nginx's cache in front of `Dispatch`. *Done*, with
   `EdgeDispatchProofs`.
8. Proofs left: that `LoadTestWorker` implements an abstract service in which
   a request is taken, tested and settled; that with any number of robots
   `Dispatch` implements a life of an order in which nothing goes back but the
   orders of a plan with an older snapshot.

Abstract specifications: `OrderLifecycle` (what happens to an order) for
`Dispatch`, `EdgeDispatch` and the table of `OrderHistory`;
`PlanSelection!BestPlans` (what a plan promises) for `Knapsack`.

Composition: `EdgeDispatch` extends `Dispatch`, which uses `PlanSelection` and
`OrderLifecycle`; `OrderHistory` drives its table with the actions of
`OrderLifecycle` and the one step by which `Dispatch` departs from it;
`Storefront` extends `Listing`. `Requests` takes a transaction of `Dispatch` as
one stage on one connection.

## 3. Modules

| module | role |
|---|---|
| `PlanSelection`, `PlanSelectionProofs` | `BestPlans`, the promise of plan selection; totals over sets of orders, and that a best plan exists |
| `OrderLifecycle` | abstract specification of an order's stages |
| `Dispatch` | the backend's three order operations over table and cache |
| `MCDispatch` | instances for TLC |
| `DispatchProofs` | theorems about the table, the cache, the robots and the life of an order in `Dispatch` |
| `Knapsack`, `MCKnapsack`, `KnapsackProofs` | `selectOrdersForDelivery`, chunk by chunk and cell by cell |
| `LoadTestWorker`, `MCLoadTestWorker`, `LoadTestWorkerProofs` | the worker |
| `Listing` | which products a page of the listing holds |
| `Storefront`, `MCStorefront`, `StorefrontProofs` | the product page and the order it sends |
| `OrderHistory`, `MCOrderHistory`, `OrderHistoryProofs` | the order history page, its requests and the table |
| `Requests`, `MCRequests`, `RequestsProofs` | sessions, and every request on the connection pool |
| `EdgeDispatch`, `MCEdgeDispatch`, `EdgeDispatchProofs` | `Dispatch` behind nginx |

Some modules hold, next to a definition, a second version of it marked
*Mutant*, or named after the mistake (`CreateSkipsFlush`, `CountThenSelect`,
`OffsetUnset`). Nothing refers to them: each is a plausible mistake in
the code the definition stands for, and `PROJECT.json` says which property
refutes it when it takes the definition's place.

### Dispatch

| model | code |
|---|---|
| `status`, `item`, `nextId` | the `orders` table: committed status, product of a row (also of one not yet committed), next AUTO_INCREMENT id |
| `cache` | `RobotService.planCache`; one `cache.Cache` shared with `ProductService` (`server/server.go`) |
| `call` | goroutines, with the rows each reads for, writes or locks |
| `todo` | the client side of `scenarios/robot.js`: orders of the plan still to complete |
| `accepted`, `delivered`, `seen`, `raced`, `faults` | history read by properties (and the fault bound) only |

A call's steps are the points at which it touches shared state: `StartPlan`
(cache lookup), `Select` (snapshot read and selection), `Update` (waits for row
locks), `Commit`, `CachePlan`, `Flush`, `Reply`; `StartCreate` covers the
transaction up to the bulk INSERT, because what it reads is never written;
`Exec` is the autocommitted status UPDATE. Faults are `Leave` (the client
disconnects and the goroutine lives on), `Fail` (an error return at any step,
including `WithTimeout` preferring `ctx.Done` over a committed result) and
`Crash` (restart). The database runs at REPEATABLE READ: a snapshot read takes
no locks, an UPDATE locks and writes whatever it finds.

`BestPlans` keeps every optimal plan as an outcome. `Knapsack` justifies it:
there the plan of the dynamic programme is always one of them (theorem
`PlanIsOptimal`).

### Knapsack

The inputs (catalogue, counts, capacity) are chosen by `Init` and constant.
`Bundle` is one turn of the chunking loop, `FillCell` one cell, `NextItem` one
row, `Restore` the read-back, `Cancel` the context check. An order is a pair of
product and rank, as the code sorts a product's orders by id.

### LoadTestWorker

| model | code |
|---|---|
| `message`, `receipt` | the request queue with its visibility timeout; a pop receipt is valid while no later delivery replaced it |
| `row`, `fresh` | the status table: `Status`, and whether `UpdatedAt` is within the hour `isDuplicateOrSkip` looks back |
| `posted`, `dlq` | score server, dead letter queue |
| `pc`, `request`, `unchecked` | where a worker is, with which request, and the rows its query has still to read |
| `overrun`, `unmarked`, `tested`, `retested` | history |

Each network call is a step of its own, and each may fail, with or without its
effect. Redelivery may happen at any time after a message was received: the
300 s of the visibility timeout are not longer than a handling can last.

### Listing and Storefront

`Listing` translates the offset of `ProductHandler.List` and the WHERE, ORDER
BY and LIMIT of `ListProducts` into a set of products per query, by counting
how many hits come before a product; `SortOrder` keeps the code's habit of
honouring only capital letters. `Storefront` is one browser: `view` is what the
controls say, `shown` the query whose answer fills the grid, `fetches` the
requests under way. Each change of the view is one render and one effect, so
one request. `posts` are the orders sent; `Serve` and `Refuse` are
`CreateOrders` as a whole (its inside is `Dispatch`), `Succeed` and `FailPost`
the two ways the await ends, where `FailPost` of a served order is a lost
answer. Search, reset, quantities and the order button are disabled while
loading, the grid's own paging and sorting are not.

### OrderHistory

| model | code |
|---|---|
| `view`, `totalCount`, `isLoading` | the state of `app/orders/page.tsx` that search, sort and paging change; what is typed and not yet searched is left out |
| `shown` | `ordersRow`, kept as the request, the query and the table it was read from; the rows are computed from them (`Displayed`) |
| `fetches` | requests under way; `pc` is where `ListOrders` is: before the SELECT, before the COUNT, answered |
| `status` | the committed `shipped_status` of the user's orders |
| `undone`, `sent`, and `placed`, `saw` of a request | history and bound |

A query carries search text and type together. `SortKey` has the whitelist of
`ListOrders`, with `arrived_at` constant because no statement of the backend
sets it (seeded rows may have one, `mysql/init/init.sql:50`; it would sort like
`created_at`, which orders of one second share and which is not among the run's
columns either), `Before` its ORDER BY. The table changes between the two
statements by `OrderLifecycle`'s actions and by `Undo`, the plan that takes a
completed order back (run `two_robots`).

### Requests

| model | code |
|---|---|
| `owner`, `locked` | connections of the pool (`SetMaxOpenConns`), the row locks UPDATEs compete for |
| `call` | a request: its route, its user once known, its session, and how far it is in `Program`, the stages of its route |
| `sessions`, `created` | `user_sessions` |
| `jar` | the `session_id` cookie of each browser |

`Program` is read off `setupRoutes` and the handlers: the middleware's check,
then single statements, the listing's parallel pair, or a transaction. `Fail`
may happen at every stage, also while waiting for a connection or a lock, and
stands for each way a request ends early: refused credentials, an error, a
timeout, a client that left, an answer that is lost. Which rows are locked is
left to `Dispatch`; here one lock stands for the rows two UPDATEs share.

A session ends in two ways that know nothing of each other: `Expire` drops the
row (`expires_at` by the clock of the database, or a restored dump),
`DropCookie` the cookie (its Max-Age by the clock of the browser, or logout). So
a cookie may outlive its row, and the root page sends its owner to `/product`,
where every request is refused; the TODO in `app/page.tsx` says as much, and no
property claims otherwise. Each user has one browser: that two users sign in on
one browser with logins that overlap is left out.

### EdgeDispatch

`edge` is the response cache (one entry per capacity: the URL is the key),
`up` whether the backend takes connections. Robots come through `Hit` and
`Miss`, reports and orders through `/api/`. An entry is fresh for five seconds
(`Age`) and is dropped after ten without use (`Drop`); an answer without orders
is an answer with status 200 and is kept like any other. That nginx keeps the
answer of a request whose client has gone is its own behaviour and assumed. A
stale answer while the same key is being fetched needs two robots, or a call
its robot has left. The run has one robot that never leaves a call, so there
`Updating` lets no `Hit` through and stale answers come from a backend that is
down; the case is in the model and in the theorems. nginx also gives the
fetching request a stale answer when the backend takes longer than 60 s: to the
robot that is a call left behind and a hit at the stale entry (`Leave`, then
`Hit`), which again only the theorems cover.

## 4. Runs

| run | instance | shows |
|---|---|---|
| `cache` | 2 robots, 1 shopper, 3 calls, 2 orders, 1 fault of any kind | bounds on the cache's staleness, no order taken back by a plan that started later, none dropped but by a fault at its last hand, no robot or cached plan heavier than the capacity asked for |
| `edge` | 1 robot and 1 shopper behind nginx, 2 calls, 2 orders, 2 errors or restarts, fairness | refinement of `OrderLifecycle`; every order is delivered; an answer that repeats a reported order is not taken in; repeats end |
| `two_robots` (violation) | 2 robots, 1 order | a completed order is set to delivering again |
| `knapsack_plans` | 5 catalogues of 2 products, up to 4 orders of each, capacities 0 to 6 | chunks, table and plan are right |
| `worker_team` | 2 workers, 2 requests of a team, 2 failed calls or crashes | tests kept apart, nothing lost, nothing reported too early, one row left unsettled per failure at most |
| `worker_results` | 2 workers, 2 requests of 2 teams, one malformed, 1 failed call or crash, fairness | a request without competition gets its result |
| `worker_overrun` (violation) | 2 workers, 1 request | a redelivery starts the same test twice |
| `worker_skips` (violation) | 1 worker, 2 requests of a team, fairness | the two block each other and neither is tested |
| `storefront_page` | 2 products of equal price, pages of 1 and 2, 3 listing requests, 2 quantities, 2 orders | the page and the form, in any order of answers |
| `history` | 2 orders of a user, 2 searches, 3 sort columns, pages of 1 and 2, 2 listing requests | the history page, its total and the shown status, in any order of answers |
| `history_pages` (violation) | as above, one sort column | page 2 shows page 1 |
| `requests` | 2 requests, 2 connections, 2 users, 2 sessions, fairness | nothing leaks, nobody waits in circles, every request ends, cookies open sessions of their own user or none |

### Bounds and why they are enough

* *Calls.* Three: two that race and one that flushes or commits between their
  steps. A fourth call could only repeat what one of the three did before.
* *Orders.* Two, so that a plan can take one and miss the other, and a basket
  of two is atomic. Ids are never reused, hence `MaxOrders` bounds creations.
* *Faults.* One next to two robots (any kind), two behind nginx: enough for an
  error during the recovery from another.
* *Edge.* One robot whose requests do not overlap, because the refinement fails
  with two (`two_robots`), and one capacity, since neither cache relates the
  entries of two; that a Flush reaches every capacity, and that a plan fits the
  capacity it is kept for, are the theorems `EdgeCacheMissesBounded` and
  `NobodyOverloadedBehindEdge`. Baskets of no, one and two orders.
* *Knapsack.* Chunk sizes double, so the first remainder that is no power of
  two appears at three orders and four show both ends; the catalogues have a
  weightless product, a worthless one, one as heavy as the robot's capacity
  and pairs of weights without common divisor.
* *Worker.* Two workers and two requests of a team are the smallest instance
  in which tests can overlap; two failures can leave both rows unsettled, which
  is what the bound allows; redeliveries are not bounded.
* *Storefront.* Three listing requests let two overtake each other after a
  first; two quantities and two orders let one order wipe what it did not send.
* *OrderHistory.* Two requests cross; two orders make a page of one differ from
  the next, and tell every sort column from the others. More of either is
  covered by the theorems.
* *Requests.* Two connections are what one listing needs at once: two requests
  reach every way of waiting at the limit (pair against pair, pair against
  transaction, connection against lock). Two sessions for two browsers let the
  logins of one or of both overlap.

Deadlock is checked in the runs of `Dispatch`, `EdgeDispatch` and `Requests`. It
is not in the others: a knapsack ends, a worker system without messages has
nothing to do, and the two pages stop at their bounds.

### Fairness

`EdgeDispatch`: each call goes on (goroutines are scheduled, the database
answers), each robot polls (`scenarios/robot.js` loops), the entries of both
caches age (go-cache, nginx) and the backend comes back after a restart.
Nothing forces a shopper to order or a fault to happen.
`Requests`: each request works when it can (weak fairness) and, strong
fairness, gets a connection or the row locks if it could again and again:
`database/sql` hands a connection that is given back to a waiter picked at
random, InnoDB grants a lock in turn. Nobody has to log in, out or fail.
`LoadTestWorker`: each worker goes on, hidden messages reappear, and a message
that keeps reappearing is received at some time (strong fairness: several
workers poll, and one may be busy whenever the message shows). Nothing makes an
hour pass for a row that keeps being refreshed; that is the point of
`worker_skips`.

### Disagreements found

* `UpdateStatuses` writes without looking at the old status: two plans of one
  snapshot take a completed order back (`two_robots`).
* The visibility timeout is shorter than a handling (`worker_overrun`).
* Two queued requests of a team are skipped for each other (`worker_skips`).
* `OrderHandler.List` checks the page number and never uses it: every page of
  the history is the first (`history_pages`).

Met on the way and not checked by a run of their own: a client that gives up
after its plan was committed leaves the orders delivering with no robot
(`OrdersDroppedOnlyByFault` lists the ways); the error of a `releaseLock` is
dropped and the row blocks its team for an hour (bounded by
`FailureLeavesOneBlocking`); the rows of a plan carry
product id 0; `desc` is not honoured by the product listing; a plan that
predates an acknowledged order is cached after its Flush (bounded by
`CacheMissesOnlyRacedOrders`); a successful order empties the form of what it
did not send (bounded by `VanishedOnlyByAnotherOrder`); the arrival time on the
history page is never set, its search box offers a search by status that
`ListOrders` does not make (`app/orders/page.tsx:232`); logout leaves the
session row valid, and a cookie that outlives its row still leads past the
login page; behind nginx a robot is sent to orders it has completed for
up to five seconds without any race (bounded by `RepeatsEnd`).

## 5. What is proved

### Plan selection (`PlanSelectionProofs`, `KnapsackProofs`)

`BestPlanExists`: whatever finite set of orders is waiting, with any weights
and values in `Nat` and any capacity, some choice fits and no other that fits
is worth more; to carry nothing always fits, so the service is never without an
answer. It rests on facts about `TotalOf`, the sum over a set: that it is a
number, does not depend on the order of the elements, adds up over disjoint
sets, and does not fall when a set grows. These are inductions over finite
sets. The library's induction rules take an operator and cannot be used; here
the rule (`SubsetInduction`) takes the set of the good subsets instead and
follows from the well-foundedness of `<` on `Nat`.

For any catalogues, counts and capacities (`KnapsackAssumption`: weights, values,
counts and capacities in `Nat`), at every step of the loops:

* `TypeCorrect`: `TypeOK`, which holds the bounds of every index and cell.
* `ChunksLeaveNoGap`: `EveryCountCanBeChosen`, any number of orders of a
  product that the robot can carry is the sum of some of its chunks.
* `TableIsRight`: `CellsAreBest`, each cell has the best value of the chunks
  visited so far, and its list of chunks attains it.
* `PlanIsOptimal`: `PlanIsBest`, the plan read back is in `BestPlans`.

The inductive invariant is `KnapsackIInv`. Its bundling half says that chunks
are disjoint, hold one product each and only orders the loops have passed
(`ChunksAreApart`, `BundledInOrder`), and that of the product at hand every
number up to `index` can be selected while the next chunk is at most one larger
than `index` (`BundlesSelectable`): that is why doubling leaves no gap. Its
table half adds to `CellsAreBest` that no cell takes a chunk without value and
that the last row is complete when the loop ends (`CellsTakeValue`).
`FillCell` compares two cells of which the lighter has not been touched in this
row, so taking a chunk adds it once; the order of `w` is what the argument
needs. At the end a best plan over orders is turned into chunks, product by
product: replacing its orders of a product by as many that chunks add up to
changes neither weight nor value.

### Dispatch (`DispatchProofs`)

For any sets of calls, clients, products, capacities and orders and any number
and kind of faults:

* `TypeCorrect`: `TypeOK`.
* `CachedPlansClaimed`: every order of a cached plan is delivering or completed.
* `CacheMissesBounded`: what a cached plan misses of the acknowledged orders
  that fit was flushed between its snapshot and its Set.
* `CacheRepeatsBounded`: what it repeats of the completed orders was reported
  in the same window.
* `CompletionUndone`: an acknowledged completion is undone only by the COMMIT
  of a plan whose snapshot predates it.

None of these is inductive. The invariant behind them follows an order through
the calls. `CallShape` ties a call's operation to its program counter and its
rows; `FreshIds` says that ids from `nextId` on belong to no row, so that calls
in progress never share new rows; `ClaimInv` says that a plan waiting to be
cached has its orders delivering or completed, and that nothing returns to
shipping. `FreshnessInv` states the miss bound also for plans on their way to
the cache (their snapshot, plus what was flushed since, covers every
acknowledged order that still waits) and, to carry it over a creation's Flush,
that a creation answered is one flushed. `RepeatInv` is the same for
completions, followed from the cache entry or the COMMIT to the answer. The
assumption on the constants (`ConstantsAssumption`) asks only
for types and for the disjointness of clients.

The same module proves what takes robots and calls together:

* `DropsNeedFault`: `OrdersDroppedOnlyByFault`.
* `SelectionHasOutcome`: the selection of a plan call always has an outcome,
  from `BestPlanExists`. Without it `Select` could block in the model and every
  safety property would be the weaker for it.
* `NobodyOverloaded`: `PlansFitCapacity`. The cache key and the capacity of a
  call agree, and a plan keeps fitting because no step changes the product of a
  row that has been placed, also when a later transaction rolls back.
* `OneRobotKeepsLifecycle`: with one robot (`OneRobot`) whose client waits for
  its answers (`NobodyLeaves`), `Dispatch` implements `OrderLifecycle`: every
  step is one of its steps or a stutter, with errors and restarts, and with any
  number of shoppers.

On top of the invariants above, `OwnerInv` says who sent each call, that a
client has one call at a time and that a robot asks for a plan only when it has
nothing left to do, so the answer overwrites nothing. With that, each step is
followed for one order (`DropStep`): a robot that has not yet completed it keeps
it, and a plan call on its way to the cache or its client passes it on, so only
a fault can take it from them. For the refinement, `PlansAreOfShipping` says that the orders of a plan are
still shipping when it commits, and `ReportsOfOne` that a report is about one
order. Both assumptions are needed: with two robots the refinement fails (run
`two_robots`), and a robot that leaves its call can send another beside it,
which is the same. The code justifies neither in general, which is why the
theorem states them; the scenario's robot is one that waits.

### LoadTestWorker (`LoadTestWorkerProofs`)

For any workers, requests, teams and number of faults:

* `WorkerTypeCorrect`: `TypeOK`.
* `TestsKeptApart`: `OverlapOnlyAfterOverrunOrLostMark`.
* `RetestsExplained`: `RetestedOnlyAfterFaultOrOverrun`.
* `ScoreBeforeFinished`: `FinishedHasScore`.
* `NothingLost`: `GoneIsTraced`.
* `BlockedByFailedCalls`: `FailureLeavesOneBlocking`.

`QueueInv` relates messages, receipts and workers: a request in two hands is
marked overrun. `FlagInv` is the argument of mark-then-check, as in a mutual
exclusion with flags: a worker past its mark has its row running and fresh
unless the mark was lost, so of two siblings the one that looked last would
have seen the other. `PassInv` keeps what a worker has looked at
and found free against a sibling that starts later. `TestInv` connects
`tested` with the steps after the test; the trace invariants follow a request
from its score or dead letter to the deletion, counting the one failed call
that may have hidden a trace. `DebtInv` counts: the requests whose row will not
be settled any more, the message gone or about to go, are no more than the
failed calls; it holds step by step because no row is reopened then, and only a
failed `Release` or `MarkFailed` adds one (`DebtGrowth`).

### Storefront (`StorefrontProofs`)

For any finite catalogue, any search texts and sort keys, and any number of
listing requests, quantities and orders:

* `StorefrontTypeCorrect`: `TypeOK`.
* `GridFollowsView`: `GridShowsViewUnlessOvertaken`.
* `OrderedTwiceExplained`: `OrderedTwiceOnlyByResending`.
* `VanishedExplained`: `VanishedOnlyByAnotherOrder`.
* `EveryHitOnOnePage`: `PagesSplitTheHits`.

ORDER BY the sort key and then the product id is a strict total order
(`HitsAreOrdered`), so two hits never have the same place (`PlacesDiffer`) and
pages of one size divide the places (`OnePageEach`); without the id, products
of equal price would share a place. `GridInv` says that the newest request asks for what the page says it shows.
`PostInv` says that what an order took is out of the form once it has succeeded
or the page was left, and `ResendInv` what it means that two orders share an
entry. `TakenInv` is the reason why a success wipes only what was no part of
it: whatever stood in a row on display at the click and still does is in the
order.

### OrderHistory (`OrderHistoryProofs`)

For any finite set of orders, any searches, views and page sizes, and any
number of requests: `TypeCorrect`, `HistoryShowsView`
(`HistoryShowsViewUnlessOvertaken`), `RowsNeverExceedTotal`
(`RowsWithinTotal`), `FullPagesAreComplete` (`FullPageIsComplete`),
`LoadingEnds` (`LoadingHasRequest`) and the action property
`StatusMovesForward` (`StatusGoesBackOnlyWhenCrossed`).

What a request has read is a past of the table (`Past`): no order has left it
since, none went back but those in `undone`; `Reading` carries this with the
count, and compares it with what the grid showed when the request was sent.
`Numbers` says that no two requests share a number and that none saw one that
is still under way, `ViewInv` that the newest request asks for the view. The
lemmas about `ListOrders` (`PlaceBelowCount`, `WholeFits`) say that a row's
place is less than the number of matching rows, so that a page as large as
their number holds them all. The assumption asks for ids in `Nat`, positive
page sizes and that `Hits` and `NameRank` are functions on the orders.

### Requests (`RequestsProofs`)

For any number of requests, connections, users and sessions: `TypeCorrect`,
`ConnectionsReturn` (`NoConnectionLeaks`), `NoCircularWait`
(`NobodyWaitsInCircles`) and `CookiesAreOwn` (`CookieOpensOwnSession`).

The circular wait is excluded by counting: a statement needs one connection,
so whoever holds one is ready, and a call that waits for locks waits for one
that holds them and is ready too. The proof rests on the invariant that a call
never holds more than its stage has statements left, and that the holder of
the locks is at an update and holds a connection. For the cookies the
invariant follows a session from the INSERT through the login that carries it
to the jar: the row, while there is one, belongs to the login's user. That
the cookie outlives the row, or the row the cookie, needs no case of its own.

### EdgeDispatch (`EdgeDispatchProofs`)

For the constants of `Dispatch`:

* `EdgePlansClaimed`: `EdgePlansAreClaimed`.
* `EdgeTakesInOnlyRaced`: `TakesInOnlyRacedRepeats`. In the run, with one robot,
  no report races its own next plan, so nothing an answer holds was reported;
  the races the property allows for are the theorem's.
* `EdgeDropsNeedFault`: while the backend takes connections, a step behind nginx
  that drops an order is a fault (`DropsOnlyByFault`).
* `EdgeCacheMissesBounded`, `EdgeCompletionUndone`,
  `NobodyOverloadedBehindEdge`: what `DispatchProofs` shows of
  `CacheMissesOnlyRacedOrders`, `CompletionUndoneOnlyByRacingPlan` and
  `PlansFitCapacity`, with nginx between the
  robots and the backend; the last also for the answers nginx keeps.
* `OneRobotKeepsLifecycleBehindEdge`: `ImplementsLifecycle`, under the
  assumptions of `OneRobotKeepsLifecycle`, with stale answers.

Every step behind nginx is a step of `Dispatch`, a stutter of its variables, or
a robot that takes an answer from nginx or gives up; the last two change only
what a robot has to do, and leave it with claimed orders. So the invariants of
`DispatchProofs` carry over, and what the entries hold (`EdgeClaim`) follows
from `ClaimInv`: a plan on its way to a client is claimed, and what is claimed
stays so. A robot gives up an order only when the backend is down, and one that
is served by nginx had none left (`HitDropsNothing`). A robot served by nginx reports orders a second
time; the report finds them completed and changes nothing, which is the stutter
the refinement needs.

### Only model-checked

Liveness under fairness and everything about ENABLED is beyond the prover, so
`DeliveredBehindEdge`, `RepeatsEnd`, `EveryRequestEnds` and
`EveryRequestGetsResult` rest on TLC. Every invariant and every other action
property of the passing runs has a theorem, and so has the refinement. No
module declares a RECURSIVE operator.

## 6. Not modelled

* The k6 scenarios appear as the clients of `Dispatch`; their browsing part
  only reads.
* Score computation, runner and shell scripts are sequential programs around
  files; telemetry observes; the image endpoint reads a file once the session
  is checked (`Requests`).
* Idle and worn-out connections of the pool, ProxySQL's multiplexing and the
  indexes change performance only.
* Capacities are numbers from 0 on; the handler lets a negative one through
  (`handler/robot.go:29`, listed as a hazard).
* Restoring the database between load tests drops all sessions and orders; of
  that only the loss of session rows is modelled (`Expire` of `Requests`).
* nginx's rate limit, TLS and routing; the local configuration has no cache.
* Time: timeouts, expiry and ageing are steps that may come at any moment their
  guard allows; the retry pauses are left out.
* Database deadlocks between two bulk UPDATEs that lock rows in different
  orders end as an error of one of them, which is `Fail`.
