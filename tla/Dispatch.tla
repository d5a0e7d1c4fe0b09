------------------------------ MODULE Dispatch ------------------------------
(***************************************************************************)
(* The part of the backend that moves an order from the shopper to the     *)
(* robot: ProductService.CreateOrders, RobotService.GenerateDeliveryPlan   *)
(* and RobotService.UpdateOrderStatus run concurrently over one orders     *)
(* table (MySQL, REPEATABLE READ) and one in-memory plan cache.            *)
(*                                                                         *)
(* A request is a call: a goroutine with a program counter.  Its steps are *)
(* the points at which it touches shared state: the cache lookup, the      *)
(* snapshot read, the UPDATE or INSERT (which takes row locks), COMMIT,    *)
(* the cache Set or Flush and the HTTP answer.  Clients behave like the    *)
(* load test's scenarios: a robot asks for a plan, completes the orders of *)
(* the answer one by one and asks again; a shopper places orders.          *)
(***************************************************************************)
EXTENDS Integers, Sequences, FiniteSets, PlanSelection

CONSTANTS
  Calls,        \* slots for the requests the backend is working on
  Robots,       \* clients of the robot API
  Shoppers,     \* clients that place orders
  Nobody,       \* the client of a call whose client has gone
  Products,     \* the catalogue
  NoProduct,    \* the product of an order id that holds no row
  Weight,       \* product weights, a function on Products
  Value,        \* product values, a function on Products
  Requests,     \* shopping baskets, as sequences of products
  Capacities,   \* robot capacities, one cache key each
  NoPlan,       \* the cache holds nothing under the key
  MaxOrders,    \* bound: order ids used
  MaxFaults,    \* bound: faults in a behaviour
  FaultKinds    \* the kinds of fault that may happen: "leave", "fail", "crash"

Clients == Robots \cup Shoppers
Orders == 1..MaxOrders

ASSUME ConstantsAssumption ==
  /\ MaxOrders \in Nat
  /\ MaxFaults \in Nat
  /\ Capacities \subseteq Nat
  /\ Weight \in [Products -> Nat]
  /\ Value \in [Products -> Nat]
  /\ Requests \subseteq Seq(Products)
  /\ NoProduct \notin Products
  /\ Nobody \notin Robots \cup Shoppers
  /\ Robots \cap Shoppers = {}
  /\ FaultKinds \subseteq {"leave", "fail", "crash"}

VARIABLES
  status,     \* the committed shipped_status of every order id
  item,       \* the product of every inserted row, committed or not
  nextId,     \* AUTO_INCREMENT of the orders table, never rolled back
  cache,      \* RobotService.planCache: capacity -> entry or NoPlan
  call,       \* the goroutine in every slot
  todo,       \* the orders of the plan a robot still has to complete
  accepted,   \* history: orders whose creation a shopper was told of
  delivered,  \* history: orders whose completion a robot was told of
  faults      \* faults so far

vars == <<status, item, nextId, cache, call, todo, accepted, delivered, faults>>
database == <<status, item, nextId>>
history == <<accepted, delivered>>

Stages == {"absent", "shipping", "delivering", "completed"}

(* A cached plan.  Only orders is in the code: seen is the snapshot the    *)
(* plan was computed from, raced the orders whose Flush came after that    *)
(* snapshot and before the Set, or the answer.                             *)
Entries == [orders : SUBSET Orders, seen : SUBSET Orders, raced : SUBSET Orders]

(* work is the set of rows the call reads for, locks, writes or answers    *)
(* with; seen and raced are history, as in Entries.                        *)
CallRecords ==
  [op    : {"none", "plan", "create", "status"},
   pc    : {"idle", "select", "update", "exec", "commit", "set", "flush", "reply"},
   by    : Clients \cup {Nobody},
   cap   : Capacities \cup {0},
   work  : SUBSET Orders,
   seen  : SUBSET Orders,
   raced : SUBSET Orders]

Idle == [op |-> "none", pc |-> "idle", by |-> Nobody, cap |-> 0,
         work |-> {}, seen |-> {}, raced |-> {}]

TypeOK ==
  /\ status \in [Orders -> Stages]
  /\ item \in [Orders -> Products \cup {NoProduct}]
  /\ nextId \in 1..(MaxOrders + 1)
  /\ cache \in [Capacities -> Entries \cup {NoPlan}]
  /\ call \in [Calls -> CallRecords]
  /\ todo \in [Robots -> SUBSET Orders]
  /\ accepted \subseteq Orders
  /\ delivered \subseteq Orders
  /\ faults \in 0..MaxFaults

Init ==
  /\ status = [o \in Orders |-> "absent"]
  /\ item = [o \in Orders |-> NoProduct]
  /\ nextId = 1
  /\ cache = [k \in Capacities |-> NoPlan]
  /\ call = [c \in Calls |-> Idle]
  /\ todo = [r \in Robots |-> {}]
  /\ accepted = {}
  /\ delivered = {}
  /\ faults = 0

-----------------------------------------------------------------------------
(* Helpers *)

Busy(client) == \E c \in Calls : call[c].by = client

(* A client sends a request: a free slot takes it up. *)
Start(c, client, fields) ==
  /\ call[c].pc = "idle"
  /\ ~Busy(client)
  /\ call' = [call EXCEPT ![c] = fields]

Goto(c, pc) == call' = [call EXCEPT ![c] = [@ EXCEPT !.pc = pc]]

At(c, op, pc) == call[c].op = op /\ call[c].pc = pc

(* What COMMIT (or the autocommitted UPDATE) makes of the rows it wrote. *)
OutcomeOfApiDoc(op) == CASE op = "create" -> "shipping"
                         [] op = "plan"   -> "delivering"
                         [] OTHER         -> "complete"

Outcome(op) == CASE op = "create" -> "shipping"
                 [] op = "plan"   -> "delivering"
                 [] OTHER         -> "completed"

PublishSnapshot(c) ==
  status' = [o \in Orders |->
               IF o \in call[c].work \cup call[c].seen THEN Outcome(call[c].op)
                                                       ELSE status[o]]

Publish(c) ==
  status' = [o \in Orders |->
               IF o \in call[c].work THEN Outcome(call[c].op) ELSE status[o]]

(* A create and a status update flush the cache once the rows are          *)
(* committed; a plan is cached.                                            *)
CreateSkipsFlush(op) == CASE op = "plan" -> "set" [] op = "create" -> "reply" [] OTHER -> "flush"
StatusSkipsFlush(op) == CASE op = "plan" -> "set" [] op = "status" -> "reply" [] OTHER -> "flush"

AfterCommit(op) == IF op = "plan" THEN "set" ELSE "flush"

(* Rows written by a transaction that has not committed are locked. *)
Unlocked(c) ==
  \A d \in Calls \ {c} :
    call[d].pc = "commit" => call[d].work \cap call[c].work = {}

WeightOf == [o \in Orders |-> IF item[o] = NoProduct THEN 0 ELSE Weight[item[o]]]
ValueOf  == [o \in Orders |-> IF item[o] = NoProduct THEN 0 ELSE Value[item[o]]]

OrdersThatFit(k) == {o \in Orders : status[o] # "absent" /\ WeightOf[o] <= k}

(* GetShippingOrders: the committed rows a robot of capacity k could carry. *)
ShippingOrders(k) == {o \in Orders : status[o] = "shipping" /\ WeightOf[o] <= k}

-----------------------------------------------------------------------------
(* POST /api/v1/product/post: CreateOrders.                                *)

(* CreateBulk derives the ids of a bulk INSERT from LastInsertId; an empty *)
(* basket skips the INSERT.                                                *)
BulkIds(basket) == nextId .. (nextId + Len(basket) - 1)

(* The transaction up to and including the bulk INSERT.  It reads only the *)
(* product table, which nothing writes.                                    *)
StartCreate(c, s, basket) ==
  LET ids == BulkIds(basket)
  IN  /\ ids \subseteq Orders
      /\ Start(c, s, [Idle EXCEPT !.op = "create", !.pc = "commit", !.by = s,
                                  !.work = ids])
      /\ item' = [o \in Orders |-> IF o \in ids THEN basket[o - nextId + 1]
                                                ELSE item[o]]
      /\ nextId' = nextId + Len(basket)
      /\ UNCHANGED <<status, cache, todo, history, faults>>

-----------------------------------------------------------------------------
(* GET /api/robot/delivery-plan: GenerateDeliveryPlan.                     *)

(* planCache.Get: a hit is the answer, a miss opens a transaction. *)
StartPlan(c, r, k) ==
  /\ todo[r] = {}
  /\ Start(c, r,
       IF cache[k] # NoPlan
       THEN [Idle EXCEPT !.op = "plan", !.pc = "reply", !.by = r, !.cap = k,
                         !.work = cache[k].orders, !.raced = cache[k].raced]
       ELSE [Idle EXCEPT !.op = "plan", !.pc = "select", !.by = r, !.cap = k])
  /\ UNCHANGED <<database, cache, todo, history, faults>>

(* The snapshot read and the selection; an empty plan updates no row. *)
Select(c) ==
  /\ At(c, "plan", "select")
  /\ LET seen == ShippingOrders(call[c].cap)
     IN  \E P \in BestPlans(seen, WeightOf, ValueOf, call[c].cap) :
           call' = [call EXCEPT ![c] =
                      [@ EXCEPT !.work = P, !.seen = seen,
                                !.pc = IF P = {} THEN "commit" ELSE "update"]]
  /\ UNCHANGED <<database, cache, todo, history, faults>>

(* UpdateStatuses inside the transaction waits for the row locks it needs. *)
Update(c) ==
  /\ At(c, "plan", "update")
  /\ Unlocked(c)
  /\ Goto(c, "commit")
  /\ UNCHANGED <<database, cache, todo, history, faults>>

(* The caller takes the result and caches it. *)
HasAnyPlan(c) == call[c].op = "plan" /\ call[c].pc \in {"commit", "set"}

HasResult(c) == At(c, "plan", "set")

CachePlan(c) ==
  /\ HasResult(c)
  /\ cache' = [cache EXCEPT ![call[c].cap] =
                 [orders |-> call[c].work, seen |-> call[c].seen,
                  raced |-> call[c].raced]]
  /\ Goto(c, "reply")
  /\ UNCHANGED <<database, todo, history, faults>>

-----------------------------------------------------------------------------
(* PATCH /api/robot/orders/status: UpdateOrderStatus(o, "completed").      *)

StartStatus(c, r, o) ==
  /\ o \in todo[r]
  /\ Start(c, r, [Idle EXCEPT !.op = "status", !.pc = "exec", !.by = r,
                              !.work = {o}])
  /\ UNCHANGED <<database, cache, todo, history, faults>>

(* A statement outside a transaction commits by itself. *)
Exec(c) ==
  /\ At(c, "status", "exec")
  /\ Unlocked(c)
  /\ Publish(c)
  /\ Goto(c, AfterCommit("status"))
  /\ UNCHANGED <<item, nextId, cache, todo, history, faults>>

-----------------------------------------------------------------------------
(* Steps shared by the operations *)

(* ExecTx: COMMIT publishes the rows and releases their locks. *)
Commit(c) ==
  /\ call[c].pc = "commit"
  /\ Publish(c)
  /\ Goto(c, AfterCommit(call[c].op))
  /\ UNCHANGED <<item, nextId, cache, todo, history, faults>>

(* planCache.Flush after a create or a status update has committed. *)
DropEveryEntry(c) == cache' = [k \in Capacities |-> NoPlan]

Flush(c) ==
  /\ call[c].pc = "flush"
  /\ DropEveryEntry(c)
  /\ call' = [d \in Calls |->
       IF d = c THEN [call[d] EXCEPT !.pc = "reply"]
       ELSE IF call[d].op = "plan" /\ call[d].pc # "select"
       THEN [call[d] EXCEPT !.raced = @ \cup call[c].work]
       ELSE call[d]]
  /\ UNCHANGED <<database, todo, history, faults>>

(* The answer reaches the client, if it is still there. *)
Reply(c) ==
  LET done == call[c].work
      client == call[c].by
  IN  /\ call[c].pc = "reply"
      /\ call' = [call EXCEPT ![c] = Idle]
      /\ todo' = [r \in Robots |->
                    IF r # client THEN todo[r]
                    ELSE IF call[c].op = "plan" THEN done
                    ELSE todo[r] \ done]
      /\ accepted' = IF call[c].op = "create" /\ client # Nobody
                     THEN accepted \cup done ELSE accepted
      /\ delivered' = IF call[c].op = "status" /\ client # Nobody
                      THEN delivered \cup done ELSE delivered
      /\ UNCHANGED <<database, cache, faults>>

(* The cache drops an entry 30 seconds after its Set. *)
Expire(k) ==
  /\ cache[k] # NoPlan
  /\ cache' = [cache EXCEPT ![k] = NoPlan]
  /\ UNCHANGED <<database, call, todo, history, faults>>

-----------------------------------------------------------------------------
(* Faults *)

Fault(kind) ==
  /\ kind \in FaultKinds
  /\ faults < MaxFaults
  /\ faults' = faults + 1

(* A robot that gets an error gives the iteration up. *)
TodoAfterLosing(clients) == [r \in Robots |-> IF r \in clients THEN {} ELSE todo[r]]

(* An INSERT that is rolled back leaves a gap in the ids. *)
ItemWithout(S) ==
  [o \in Orders |->
     IF \E c \in S : At(c, "create", "commit") /\ o \in call[c].work
     THEN NoProduct ELSE item[o]]

(* The client disconnects or times out; the goroutine lives on until it    *)
(* notices the cancelled context, if it does before its last check.        *)
Leave(c) ==
  /\ call[c].by # Nobody
  /\ Fault("leave")
  /\ call' = [call EXCEPT ![c] = [@ EXCEPT !.by = Nobody]]
  /\ todo' = TodoAfterLosing({call[c].by})
  /\ UNCHANGED <<database, cache, history>>

(* An error return (database error, cancelled context, timeout): an open   *)
(* transaction is rolled back.  At "set" and "flush" the rows are already  *)
(* committed: WithTimeout preferred ctx.Done over the result, or the       *)
(* answer to COMMIT was lost, and the cache is left as it is.              *)
Fail(c) ==
  /\ call[c].pc \notin {"idle", "reply"}
  /\ IF call[c].by = Nobody THEN UNCHANGED faults ELSE Fault("fail")
  /\ item' = ItemWithout({c})
  /\ call' = [call EXCEPT ![c] = Idle]
  /\ todo' = TodoAfterLosing({call[c].by})
  /\ UNCHANGED <<status, nextId, cache, history>>

(* The backend restarts: the cache and every call are gone, the database   *)
(* rolls open transactions back.                                           *)
Crash ==
  /\ Fault("crash")
  /\ \E c \in Calls : call[c].pc # "idle"
  /\ item' = ItemWithout(Calls)
  /\ call' = [c \in Calls |-> Idle]
  /\ cache' = [k \in Capacities |-> NoPlan]
  /\ todo' = TodoAfterLosing({call[c].by : c \in Calls})
  /\ UNCHANGED <<status, nextId, history>>

-----------------------------------------------------------------------------
CallStep(c) ==
  Select(c) \/ Update(c) \/ CachePlan(c) \/ Exec(c) \/ Commit(c) \/ Flush(c) \/ Reply(c)

RobotMove(r) ==
  \E c \in Calls : \/ \E k \in Capacities : StartPlan(c, r, k)
                   \/ \E o \in Orders : StartStatus(c, r, o)

ShopperMove(s) == \E c \in Calls, basket \in Requests : StartCreate(c, s, basket)

Next ==
  \/ \E c \in Calls : CallStep(c)
  \/ \E r \in Robots : RobotMove(r)
  \/ \E s \in Shoppers : ShopperMove(s)
  \/ \E k \in Capacities : Expire(k)
  \/ \E c \in Calls : Leave(c) \/ Fail(c)
  \/ Crash

Spec == Init /\ [][Next]_vars

-----------------------------------------------------------------------------
(* Properties *)

(* An order in a cached plan has been claimed in the database: CachePlan   *)
(* runs after COMMIT, and no later step, fault or restart takes the order  *)
(* back to shipping, so no plan computed meanwhile can be handed it anew.  *)
CachedPlansAreClaimed ==
  \A k \in Capacities : cache[k] # NoPlan =>
    \A o \in cache[k].orders : status[o] \in {"delivering", "completed"}

(* How stale a cached plan can be.  An order that was acknowledged to its  *)
(* shopper, is still to be shipped and fits the robot was either weighed   *)
(* by the plan in the cache or committed while that plan was in progress:  *)
(* the Flush of CreateOrders leaves no other way to miss it.               *)
CacheMissesOnlyRacedOrders ==
  \A k \in Capacities : cache[k] # NoPlan =>
    accepted \cap ShippingOrders(k) \subseteq cache[k].seen \cup cache[k].raced

(* The same for the other end: a cached plan sends a robot to an order it  *)
(* already reported as completed only if the report overtook the plan.     *)
CacheRepeatsOnlyRacedOrders ==
  \A k \in Capacities : cache[k] # NoPlan =>
    cache[k].orders \cap delivered \subseteq cache[k].raced

(* No robot is sent out with more than it can carry.  What a plan weighs   *)
(* is weighed once, in its transaction; it is then kept under its          *)
(* capacity, handed to later callers and worked off, while orders are      *)
(* rolled back and inserted.  It fits all the way.                         *)
Fits(S, k) == TotalOf(WeightOf, S) <= k

PlansFitCapacity ==
  /\ \A c \in Calls : call[c].op = "plan" => Fits(call[c].work, call[c].cap)
  /\ \A k \in Capacities : cache[k] # NoPlan => Fits(cache[k].orders, k)
  /\ \A r \in Robots : todo[r] # {} => \E k \in Capacities : Fits(todo[r], k)

UndoneByRacingPlan ==
  \A o \in delivered : status[o] = "completed" /\ status'[o] # "completed" =>
    \E c \in Calls : At(c, "plan", "commit") /\ o \in call[c].work \cap call[c].raced

(* The unguarded UPDATE of a plan can take a completed order back to       *)
(* delivering.  It does so to an order whose completion was acknowledged   *)
(* only when the plan's snapshot is older than that completion; later      *)
(* plans never touch the order again.                                      *)
CompletionUndoneOnlyByRacingPlan == [][UndoneByRacingPlan]_vars

(* An order is in good hands while a robot has it and will still complete  *)
(* it (no completion of it is on its way back to that robot), or while a   *)
(* committed plan with it is on its way to a robot.                        *)
Completes(c, o) ==
  call[c].op = "status" /\ call[c].pc \in {"flush", "reply"} /\ o \in call[c].work

Keeps(r, o) ==
  o \in todo[r] /\ \A c \in Calls : call[c].by = r => ~Completes(c, o)

Carries(c, o) ==
  /\ call[c].op = "plan" /\ call[c].pc \in {"set", "reply"}
  /\ call[c].by \in Robots /\ o \in call[c].work

InGoodHands(o) == (\E r \in Robots : Keeps(r, o)) \/ (\E c \in Calls : Carries(c, o))

UnderWay(o) == status[o] = "delivering"

ClaimedForNobody(o) ==
  \E c \in Calls : At(c, "plan", "commit") /\ call[c].by = Nobody /\ o \in call[c].work

(* An order in delivering that nobody has is lost: no plan ever lists it   *)
(* again.  The only ways to get there are the fault that takes the last    *)
(* hands off the order, and a plan that commits after its robot has gone.  *)
(* No answer, completion, flush or later plan drops an order, before or    *)
(* after any number of faults elsewhere.                                   *)
DropsOnlyByFault ==
  \A o \in Orders :
    (UnderWay(o) /\ ~InGoodHands(o))' =>
      \/ UnderWay(o) /\ ~InGoodHands(o)
      \/ faults' > faults
      \/ ClaimedForNobody(o)

OrdersDroppedOnlyByFault == [][DropsOnlyByFault]_vars

(* With one robot whose requests never overlap, orders only move forward,  *)
(* whatever fails and whatever the cache answers.                          *)
Lifecycle == INSTANCE OrderLifecycle WITH stage <- status
ImplementsLifecycle == Lifecycle!Spec

(* A status update is final: a completed order stays completed. *)
CompletedIsFinal ==
  [][\A o \in Orders : status[o] = "completed" => status'[o] = "completed"]_vars
=============================================================================
