--------------------------- MODULE DispatchProofs ---------------------------
(* Theorems about Dispatch: they hold for any number of calls, robots,      *)
(* shoppers, products, capacities, orders and faults.                       *)
EXTENDS Dispatch, PlanSelectionProofs

-----------------------------------------------------------------------------
(* The inductive invariant, in parts.                                       *)

(* The points of the code at which each operation can be. *)
CallShape ==
  \A c \in Calls :
    /\ call[c].op = "none" <=> call[c].pc = "idle"
    /\ call[c].op = "plan" =>
         /\ call[c].pc \in {"select", "update", "commit", "set", "reply"}
         /\ call[c].cap \in Capacities
    /\ call[c].op = "create" => call[c].pc \in {"commit", "flush", "reply"}
    /\ call[c].op = "status" => call[c].pc \in {"exec", "flush", "reply"}

Placed == {o \in Orders : status[o] # "absent"}
Claimed == {o \in Orders : status[o] \in {"delivering", "completed"}}

(* Ids are handed out once: what an open INSERT wrote belongs to no one else. *)
FreshIds ==
  /\ \A o \in Orders : o >= nextId => status[o] = "absent"
  /\ \A c \in Calls : At(c, "create", "commit") =>
       /\ call[c].work \cap Placed = {}
       /\ \A o \in call[c].work : o < nextId
       /\ \A d \in Calls \ {c} :
            At(d, "create", "commit") => call[c].work \cap call[d].work = {}

(* Calls, robots and cached plans name only orders that have got that far. *)
ClaimInv ==
  /\ \A c \in Calls :
       /\ call[c].op = "plan" => call[c].work \subseteq Placed
       /\ call[c].op = "plan" /\ call[c].pc \in {"set", "reply"} =>
            call[c].work \subseteq Claimed
       /\ call[c].op = "create" /\ call[c].pc \in {"flush", "reply"} =>
            call[c].work \subseteq Placed
       /\ call[c].op = "status" => call[c].work \subseteq Claimed
  /\ \A r \in Robots : todo[r] \subseteq Claimed
  /\ \A k \in Capacities : cache[k] # NoPlan => cache[k].orders \subseteq Claimed

(* The orders whose Flush has happened: acknowledged or about to be. *)
Announced ==
  accepted \cup {o \in Orders : \E c \in Calls : At(c, "create", "reply") /\ o \in call[c].work}
Reported ==
  delivered \cup {o \in Orders : \E c \in Calls : At(c, "status", "reply") /\ o \in call[c].work}

(* A call with a snapshot: its plan is on the way to the cache. *)
Planning(c) == call[c].op = "plan" /\ call[c].pc \in {"update", "commit", "set"}

(* A call with a plan, its own or one from the cache: it will answer it. *)
HasPlan(c) == Planning(c) \/ At(c, "plan", "reply")

(* A plan knows every announced order, from the call to the cache. *)
FreshnessInv ==
  /\ Announced \subseteq Placed
  /\ \A c \in Calls : Planning(c) =>
       Announced \cap ShippingOrders(call[c].cap) \subseteq call[c].seen \cup call[c].raced
  /\ \A k \in Capacities : cache[k] # NoPlan =>
       Announced \cap ShippingOrders(k) \subseteq cache[k].seen \cup cache[k].raced

(* A plan repeats a reported order only if the report came during it, and  *)
(* that holds until it is answered.                                        *)
RepeatInv ==
  /\ Reported \subseteq Claimed
  /\ \A c \in Calls : HasPlan(c) => call[c].work \cap Reported \subseteq call[c].raced
  /\ \A k \in Capacities : cache[k] # NoPlan =>
       cache[k].orders \cap Reported \subseteq cache[k].raced

ClaimIInv == TypeOK /\ CallShape /\ FreshIds /\ ClaimInv
IInv == ClaimIInv /\ FreshnessInv /\ RepeatInv

-----------------------------------------------------------------------------
(* Types *)

(* A plan is drawn from the orders it was selected from. *)
LEMMA BestPlansAreSubsets ==
  ASSUME NEW S, NEW weight, NEW value, NEW capacity,
         NEW P \in BestPlans(S, weight, value, capacity)
  PROVE  P \subseteq S
BY DEF BestPlans, FeasiblePlans

(* An idle call is a well-typed call. *)
LEMMA IdleType == Idle \in CallRecords
BY DEF Idle, CallRecords, Clients

(* A call's fields after a step that moves it on. *)
LEMMA GotoType ==
  ASSUME TypeOK, NEW c \in Calls,
         NEW pc \in {"idle", "select", "update", "exec", "commit", "set", "flush", "reply"},
         Goto(c, pc)
  PROVE  call' \in [Calls -> CallRecords]
BY DEF Goto, TypeOK, CallRecords

(* A COMMIT leaves every row in one of the stages. *)
LEMMA PublishType ==
  ASSUME TypeOK, NEW c \in Calls, Publish(c)
  PROVE  status' \in [Orders -> Stages]
BY DEF Publish, TypeOK, Outcome, Stages

(* The bulk INSERT of an order keeps the types. *)
LEMMA StartCreateType ==
  ASSUME TypeOK, NEW c \in Calls, NEW s \in Shoppers, NEW basket \in Requests,
         StartCreate(c, s, basket)
  PROVE  TypeOK'
<1> DEFINE ids == nextId .. (nextId + Len(basket) - 1)
<1>1. basket \in Seq(Products) /\ Len(basket) \in Nat /\ MaxOrders \in Nat
  BY ConstantsAssumption
<1>2. ids \subseteq Orders /\ nextId \in 1..(MaxOrders + 1)
  BY DEF StartCreate, BulkIds, TypeOK
<1>3. call' \in [Calls -> CallRecords]
  BY <1>2 DEF StartCreate, BulkIds, Start, TypeOK, CallRecords, Idle, Clients
<1>4. item' \in [Orders -> Products \cup {NoProduct}]
  <2>1. ASSUME NEW o \in ids
        PROVE  basket[o - nextId + 1] \in Products
    <3>1. o - nextId + 1 \in 1..Len(basket)
      BY <1>1, <1>2
    <3>2. QED
      BY <1>1, <3>1
  <2>2. item' = [o \in Orders |-> IF o \in ids THEN basket[o - nextId + 1] ELSE item[o]]
    BY DEF StartCreate, BulkIds
  <2>3. QED
    BY <2>1, <2>2 DEF TypeOK
<1>5. nextId' \in 1..(MaxOrders + 1)
  <2>1. nextId' = nextId + Len(basket)
    BY DEF StartCreate
  <2>2. CASE Len(basket) = 0
    BY <1>2, <2>1, <2>2
  <2>3. CASE Len(basket) > 0
    <3>1. nextId + Len(basket) - 1 \in ids
      BY <1>1, <1>2, <2>3
    <3>2. nextId + Len(basket) - 1 \in 1..MaxOrders
      BY <1>2, <3>1 DEF Orders
    <3>3. QED
      BY <1>1, <1>2, <2>1, <3>2
  <2>4. QED
    BY <1>1, <2>2, <2>3
<1>6. QED
  BY <1>3, <1>4, <1>5 DEF StartCreate, TypeOK, history

(* The cache lookup keeps the types, hit or miss. *)
LEMMA StartPlanType ==
  ASSUME TypeOK, NEW c \in Calls, NEW r \in Robots, NEW k \in Capacities,
         StartPlan(c, r, k)
  PROVE  TypeOK'
<1>1. cache[k] # NoPlan => cache[k].orders \subseteq Orders
  BY DEF TypeOK, Entries
<1>2. cache[k] # NoPlan => cache[k].raced \subseteq Orders
  BY DEF TypeOK, Entries
<1>3. call' \in [Calls -> CallRecords]
  BY <1>1, <1>2 DEF StartPlan, Start, TypeOK, CallRecords, Idle, Clients
<1>4. QED
  BY <1>3 DEF StartPlan, TypeOK, database, history

(* Snapshot read and selection keep the types: a plan is a set of orders. *)
LEMMA SelectType ==
  ASSUME TypeOK, NEW c \in Calls, Select(c)
  PROVE  TypeOK'
<1> DEFINE seen == ShippingOrders(call[c].cap)
<1>1. PICK P \in BestPlans(seen, WeightOf, ValueOf, call[c].cap) :
        call' = [call EXCEPT ![c] =
                   [@ EXCEPT !.work = P, !.seen = seen,
                             !.pc = IF P = {} THEN "commit" ELSE "update"]]
  BY DEF Select
<1>2. seen \subseteq Orders /\ P \subseteq seen
  BY <1>1, BestPlansAreSubsets DEF ShippingOrders
<1> HIDE DEF seen
<1>3. ASSUME NEW pc \in {"commit", "update"}
      PROVE  [call[c] EXCEPT !.work = P, !.seen = seen, !.pc = pc] \in CallRecords
  <2>1. /\ call[c] \in CallRecords
        /\ P \in SUBSET Orders
        /\ seen \in SUBSET Orders
    BY <1>2 DEF TypeOK
  <2>2. QED
    BY <2>1 DEF CallRecords
<1>4. call' \in [Calls -> CallRecords]
  BY <1>1, <1>3 DEF TypeOK
<1>5. QED
  BY <1>4 DEF Select, TypeOK, database, history

(* What Select leaves behind, whichever best plan it takes. *)
LEMMA SelectEffect ==
  ASSUME TypeOK, NEW c \in Calls, Select(c)
  PROVE  /\ call'[c].op = "plan"
         /\ call'[c].pc \in {"commit", "update"}
         /\ call'[c].cap = call[c].cap
         /\ call'[c].seen = ShippingOrders(call[c].cap)
         /\ call'[c].work \subseteq ShippingOrders(call[c].cap)
         /\ \A d \in Calls \ {c} : call'[d] = call[d]
<1> DEFINE seen == ShippingOrders(call[c].cap)
<1>1. PICK P \in BestPlans(seen, WeightOf, ValueOf, call[c].cap) :
        call' = [call EXCEPT ![c] =
                   [@ EXCEPT !.work = P, !.seen = seen,
                             !.pc = IF P = {} THEN "commit" ELSE "update"]]
  BY DEF Select
<1>2. P \subseteq seen
  BY <1>1, BestPlansAreSubsets
<1> HIDE DEF seen
<1>3. call[c] \in CallRecords /\ call[c].op = "plan"
  BY DEF TypeOK, Select, At
<1>4. /\ call'[c] = [call[c] EXCEPT !.work = P, !.seen = seen,
                                    !.pc = IF P = {} THEN "commit" ELSE "update"]
      /\ \A d \in Calls \ {c} : call'[d] = call[d]
  BY <1>1 DEF TypeOK
<1>5. QED
  BY <1>2, <1>3, <1>4 DEF CallRecords, seen

(* Whatever a call does next keeps the types. *)
LEMMA CallStepType ==
  ASSUME TypeOK, NEW c \in Calls, CallStep(c)
  PROVE  TypeOK'
<1>1. CASE Select(c)
  BY <1>1, SelectType
<1>2. CASE Update(c)
  BY <1>2, GotoType DEF Update, TypeOK, database, history
<1>3. CASE CachePlan(c)
  <2>1. call[c].cap \in Capacities \cup {0} /\ call[c] \in CallRecords
    BY DEF TypeOK, CallRecords
  <2>2. [orders |-> call[c].work, seen |-> call[c].seen, raced |-> call[c].raced]
          \in Entries
    BY <2>1 DEF CallRecords, Entries
  <2>3. cache' \in [Capacities -> Entries \cup {NoPlan}]
    BY <1>3, <2>2 DEF CachePlan, TypeOK
  <2>4. QED
    BY <1>3, <2>3, GotoType DEF CachePlan, TypeOK, database, history
<1>4. CASE Exec(c)
  BY <1>4, GotoType, PublishType DEF Exec, AfterCommit, TypeOK, history
<1>5. CASE Commit(c)
  BY <1>5, GotoType, PublishType DEF Commit, AfterCommit, TypeOK, history
<1>6. CASE Flush(c)
  <2>1. ASSUME NEW d \in Calls
        PROVE  /\ [call[d] EXCEPT !.pc = "reply"] \in CallRecords
               /\ [call[d] EXCEPT !.raced = @ \cup call[c].work] \in CallRecords
               /\ call[d] \in CallRecords
    <3>1. call[d] \in CallRecords /\ call[c] \in CallRecords
      BY DEF TypeOK
    <3>2. [call[d] EXCEPT !.pc = "reply"] \in CallRecords
      BY <3>1 DEF CallRecords
    <3>3. [call[d] EXCEPT !.raced = @ \cup call[c].work] \in CallRecords
      BY <3>1 DEF CallRecords
    <3> QED
      BY <3>1, <3>2, <3>3
  <2>2. call' \in [Calls -> CallRecords]
    BY <1>6, <2>1 DEF Flush
  <2>3. cache' \in [Capacities -> Entries \cup {NoPlan}]
    BY <1>6 DEF Flush, DropEveryEntry
  <2>4. QED
    BY <1>6, <2>2, <2>3 DEF Flush, TypeOK, database, history
<1>7. CASE Reply(c)
  <2>1. call[c].work \subseteq Orders
    BY DEF TypeOK, CallRecords
  <2>2. call' \in [Calls -> CallRecords]
    BY <1>7, IdleType DEF Reply, TypeOK
  <2>3. todo' \in [Robots -> SUBSET Orders]
    BY <1>7, <2>1 DEF Reply, TypeOK
  <2>4. accepted' \subseteq Orders /\ delivered' \subseteq Orders
    BY <1>7, <2>1 DEF Reply, TypeOK
  <2>5. QED
    BY <1>7, <2>2, <2>3, <2>4 DEF Reply, TypeOK, database
<1>8. QED
  BY <1>1, <1>2, <1>3, <1>4, <1>5, <1>6, <1>7 DEF CallStep

(* What robots have to do stays a set of orders when clients lose their *)
(* calls.                                                               *)
LEMMA TodoType ==
  ASSUME TypeOK, NEW clients
  PROVE  TodoAfterLosing(clients) \in [Robots -> SUBSET Orders]
BY DEF TypeOK, TodoAfterLosing

(* Rows that are rolled back leave a well-typed table. *)
LEMMA ItemType ==
  ASSUME TypeOK, NEW S
  PROVE  ItemWithout(S) \in [Orders -> Products \cup {NoProduct}]
BY DEF TypeOK, ItemWithout

(* Faults are counted within their bound. *)
LEMMA FaultType ==
  ASSUME TypeOK, NEW kind, Fault(kind)
  PROVE  faults' \in 0..MaxFaults
BY ConstantsAssumption DEF TypeOK, Fault

(* Disconnections, errors and restarts keep the types. *)
LEMMA FaultsType ==
  ASSUME TypeOK, (\E c \in Calls : Leave(c) \/ Fail(c)) \/ Crash
  PROVE  TypeOK'
<1>1. ASSUME NEW c \in Calls, Leave(c)
      PROVE  TypeOK'
  <2>1. [call[c] EXCEPT !.by = Nobody] \in CallRecords
    BY DEF TypeOK, CallRecords
  <2>2. call' \in [Calls -> CallRecords]
    BY <1>1, <2>1 DEF Leave, TypeOK
  <2>3. QED
    BY <1>1, <2>2, TodoType, FaultType DEF Leave, TypeOK, database, history
<1>2. ASSUME NEW c \in Calls, Fail(c)
      PROVE  TypeOK'
  <2>1. call' \in [Calls -> CallRecords]
    BY <1>2, IdleType DEF Fail, TypeOK
  <2>2. faults' \in 0..MaxFaults
    BY <1>2, FaultType DEF Fail, TypeOK
  <2>3. QED
    BY <1>2, <2>1, <2>2, TodoType, ItemType DEF Fail, TypeOK, history
<1>3. CASE Crash
  BY <1>3, TodoType, ItemType, IdleType, FaultType DEF Crash, TypeOK, history
<1>4. QED
  BY <1>1, <1>2, <1>3

(* Every step keeps the types. *)
LEMMA NextType ==
  ASSUME TypeOK, [Next]_vars
  PROVE  TypeOK'
<1>1. ASSUME NEW c \in Calls, CallStep(c)
      PROVE  TypeOK'
  BY <1>1, CallStepType
<1>2. ASSUME NEW r \in Robots, RobotMove(r)
      PROVE  TypeOK'
  <2>1. ASSUME NEW c \in Calls, NEW o \in Orders, StartStatus(c, r, o)
        PROVE  TypeOK'
    BY <2>1 DEF StartStatus, Start, TypeOK, CallRecords, Idle, Clients, database, history
  <2>2. QED
    BY <1>2, <2>1, StartPlanType DEF RobotMove
<1>3. ASSUME NEW s \in Shoppers, ShopperMove(s)
      PROVE  TypeOK'
  BY <1>3, StartCreateType DEF ShopperMove
<1>4. ASSUME NEW k \in Capacities, Expire(k)
      PROVE  TypeOK'
  BY <1>4 DEF Expire, TypeOK, database, history
<1>5. CASE UNCHANGED vars
  BY <1>5 DEF vars, TypeOK
<1>6. QED
  BY <1>1, <1>2, <1>3, <1>4, <1>5, FaultsType DEF Next

(* The empty shop is well typed. *)
LEMMA InitType == Init => TypeOK
BY ConstantsAssumption, IdleType DEF Init, TypeOK, Stages, Orders

(* Every reachable state is well typed: in particular the ids that          *)
(* CreateBulk derives never leave the table, and every call is at a point   *)
(* of its code where it can be.                                             *)
THEOREM TypeCorrect == Spec => []TypeOK
BY InitType, NextType, PTL DEF Spec

-----------------------------------------------------------------------------
(* Control points and fresh ids *)

(* Every step keeps what a call's operation says of its program counter *)
(* and rows.                                                            *)
LEMMA CallShapeStep ==
  ASSUME TypeOK, CallShape, [Next]_vars
  PROVE  CallShape'
<1> USE DEF TypeOK, CallShape
<1>1. ASSUME NEW c \in Calls, Select(c)
      PROVE  CallShape'
  BY <1>1 DEF Select, At, CallRecords
<1>2. ASSUME NEW c \in Calls, Update(c)
      PROVE  CallShape'
  BY <1>2 DEF Update, Goto, At, CallRecords
<1>3. ASSUME NEW c \in Calls, CachePlan(c)
      PROVE  CallShape'
  BY <1>3 DEF CachePlan, HasResult, Goto, At, CallRecords
<1>4. ASSUME NEW c \in Calls, Exec(c)
      PROVE  CallShape'
  BY <1>4 DEF Exec, Goto, At, AfterCommit, CallRecords
<1>5. ASSUME NEW c \in Calls, Commit(c)
      PROVE  CallShape'
  BY <1>5 DEF Commit, Goto, At, AfterCommit, CallRecords
<1>6. ASSUME NEW c \in Calls, Flush(c)
      PROVE  CallShape'
  BY <1>6 DEF Flush, CallRecords
<1>7. ASSUME NEW c \in Calls, Reply(c) \/ Fail(c)
      PROVE  CallShape'
  BY <1>7 DEF Reply, Fail, Idle, CallRecords
<1>8. ASSUME NEW c \in Calls, Leave(c)
      PROVE  CallShape'
  BY <1>8 DEF Leave, CallRecords
<1>9. CASE Crash
  BY <1>9 DEF Crash, Idle
<1>10. ASSUME NEW r \in Robots, RobotMove(r)
       PROVE  CallShape'
  <2>1. ASSUME NEW c \in Calls, NEW k \in Capacities, StartPlan(c, r, k)
        PROVE  CallShape'
    BY <2>1 DEF StartPlan, Start, Idle, CallRecords
  <2>2. ASSUME NEW c \in Calls, NEW o \in Orders, StartStatus(c, r, o)
        PROVE  CallShape'
    BY <2>2 DEF StartStatus, Start, Idle, CallRecords
  <2>3. QED
    BY <1>10, <2>1, <2>2 DEF RobotMove
<1>11. ASSUME NEW s \in Shoppers, ShopperMove(s)
       PROVE  CallShape'
  BY <1>11 DEF ShopperMove, StartCreate, Start, Idle, CallRecords
<1>12. ASSUME NEW k \in Capacities, Expire(k)
       PROVE  CallShape'
  BY <1>12 DEF Expire
<1>13. CASE UNCHANGED vars
  BY <1>13 DEF vars
<1>14. QED
  BY <1>1, <1>2, <1>3, <1>4, <1>5, <1>6, <1>7, <1>8, <1>9, <1>10, <1>11, <1>12, <1>13
     DEF Next, CallStep

(* What a step can do to rows that exist already: they never disappear,     *)
(* never fall back to shipping, never lose a claim and keep their product.  *)
RowsAdvance ==
  /\ Placed \subseteq Placed'
  /\ Claimed \subseteq Claimed'
  /\ \A o \in Placed : /\ item'[o] = item[o]
                       /\ status'[o] = "shipping" => status[o] = "shipping"

(* Every step leaves placed rows placed and claimed rows claimed. *)
LEMMA RowsAdvanceStep ==
  ASSUME TypeOK, CallShape, FreshIds, ClaimInv, [Next]_vars
  PROVE  RowsAdvance
<1> USE DEF TypeOK, RowsAdvance, Placed, Claimed
<1>1. ASSUME NEW c \in Calls, Exec(c)
      PROVE  RowsAdvance
  <2>1. call[c].work \subseteq Claimed
    BY <1>1 DEF Exec, At, ClaimInv
  <2>2. /\ status' = [o \in Orders |-> IF o \in call[c].work THEN "completed" ELSE status[o]]
        /\ UNCHANGED item
    BY <1>1 DEF Exec, At, Publish, Outcome
  <2>3. QED
    BY <2>1, <2>2
<1>2. ASSUME NEW c \in Calls, Commit(c)
      PROVE  RowsAdvance
  <2>1. CASE call[c].op = "create"
    <3>1. call[c].work \cap Placed = {}
      BY <1>2, <2>1 DEF Commit, At, FreshIds
    <3>2. /\ status' = [o \in Orders |-> IF o \in call[c].work THEN "shipping" ELSE status[o]]
          /\ UNCHANGED item
      BY <1>2, <2>1 DEF Commit, Publish, Outcome
    <3>3. QED
      BY <3>1, <3>2
  <2>2. CASE call[c].op = "plan"
    <3>1. call[c].work \subseteq Placed
      BY <2>2 DEF ClaimInv
    <3>2. /\ status' = [o \in Orders |-> IF o \in call[c].work THEN "delivering" ELSE status[o]]
          /\ UNCHANGED item
      BY <1>2, <2>2 DEF Commit, Publish, Outcome
    <3>3. QED
      BY <3>1, <3>2
  <2>3. call[c].op \in {"create", "plan"}
    BY <1>2 DEF Commit, CallShape, CallRecords
  <2>4. QED
    BY <2>1, <2>2, <2>3
<1>3. ASSUME NEW c \in Calls, NEW s \in Shoppers, NEW basket \in Requests,
             StartCreate(c, s, basket)
      PROVE  RowsAdvance
  <2>1. UNCHANGED status
    BY <1>3 DEF StartCreate
  <2>2. ASSUME NEW o \in Placed
        PROVE  item'[o] = item[o]
    <3>1. o \notin nextId .. (nextId + Len(basket) - 1)
      BY DEF FreshIds, Orders
    <3>2. QED
      BY <1>3, <3>1 DEF StartCreate, BulkIds
  <2>3. QED
    BY <2>1, <2>2
<1>4. ASSUME NEW S \in SUBSET Calls, item' = ItemWithout(S), UNCHANGED status
      PROVE  RowsAdvance
  BY <1>4 DEF ItemWithout, FreshIds
<1>5. ASSUME NEW c \in Calls, Fail(c)
      PROVE  RowsAdvance
  BY <1>4, <1>5 DEF Fail
<1>6. CASE Crash
  BY <1>4, <1>6 DEF Crash
<1>7. CASE UNCHANGED <<status, item>>
  BY <1>7
<1>8. QED
  BY <1>1, <1>2, <1>3, <1>5, <1>6, <1>7
     DEF Next, vars, CallStep, RobotMove, ShopperMove, Select, Update, CachePlan, Flush,
         Reply, Leave, Expire, StartPlan, StartStatus, database

(* Ids not yet given out stay without rows, and no two creations share *)
(* one.                                                                *)
LEMMA FreshIdsStep ==
  ASSUME TypeOK, TypeOK', CallShape, FreshIds, ClaimInv, [Next]_vars
  PROVE  FreshIds'
<1> USE DEF TypeOK
<1> DEFINE Open(c) == At(c, "create", "commit")
(* A step that opens no INSERT and publishes no row it did not insert.      *)
<1>1. ASSUME UNCHANGED nextId,
             \A o \in Orders : status'[o] # "absent" =>
               \/ status[o] # "absent"
               \/ \E d \in Calls : Open(d) /\ ~Open(d)' /\ o \in call[d].work,
             \A d \in Calls : Open(d)' => Open(d) /\ call'[d].work = call[d].work
      PROVE  FreshIds'
  <2>1. \A o \in Orders : o >= nextId => \A d \in Calls : Open(d) => o \notin call[d].work
    BY DEF FreshIds, CallRecords, Orders
  <2>2. \A o \in Orders : o >= nextId' => status'[o] = "absent"
    BY <1>1, <2>1 DEF FreshIds
  <2>3. ASSUME NEW c \in Calls, Open(c)'
        PROVE  /\ call'[c].work \cap Placed' = {}
               /\ \A o \in call'[c].work : o < nextId'
               /\ \A d \in Calls \ {c} : Open(d)' => call'[c].work \cap call'[d].work = {}
    <3>1. Open(c) /\ call'[c].work = call[c].work
      BY <1>1, <2>3
    <3>2. ASSUME NEW o \in call[c].work, o \in Orders, status'[o] # "absent"
          PROVE  FALSE
      <4>1. PICK d \in Calls : Open(d) /\ ~Open(d)' /\ o \in call[d].work
        BY <1>1, <3>1, <3>2 DEF FreshIds, Placed
      <4>2. d # c
        BY <2>3, <4>1
      <4>3. QED
        BY <3>1, <3>2, <4>1, <4>2 DEF FreshIds
    <3>3. QED
      BY <1>1, <3>1, <3>2 DEF FreshIds, Placed
  <2>4. QED
    BY <2>2, <2>3 DEF FreshIds
<1>2. ASSUME NEW c \in Calls, CallStep(c)
      PROVE  FreshIds'
  <2>1. UNCHANGED nextId
    BY <1>2 DEF CallStep, Select, Update, CachePlan, Exec, Commit, Flush, Reply, database
  <2>2. CASE Exec(c)
    <3>1. call[c].work \subseteq Claimed /\ ~Open(c)
      BY <2>2 DEF Exec, At, ClaimInv
    <3>2. \A d \in Calls : Open(d)' => Open(d) /\ call'[d].work = call[d].work
      BY <2>2 DEF Exec, At, Goto, AfterCommit, CallRecords
    <3>3. \A o \in Orders : status'[o] # "absent" => status[o] # "absent"
      BY <2>2, <3>1 DEF Exec, Publish, Claimed
    <3>4. QED
      BY <1>1, <2>1, <3>2, <3>3
  <2>3. CASE Commit(c)
    <3>1. \A d \in Calls : Open(d)' => Open(d) /\ call'[d].work = call[d].work
      BY <2>3 DEF Commit, At, Goto, AfterCommit, CallRecords
    <3>2. \A o \in Orders : status'[o] # "absent" => status[o] # "absent" \/ o \in call[c].work
      BY <2>3 DEF Commit, Publish
    <3>3. CASE call[c].op = "create"
      <4>1. Open(c) /\ ~Open(c)'
        BY <2>3, <3>3 DEF Commit, At, Goto, AfterCommit, CallRecords
      <4>2. QED
        BY <1>1, <2>1, <3>1, <3>2, <4>1
    <3>4. CASE call[c].op # "create"
      <4>1. call[c].work \subseteq Placed
        BY <2>3, <3>4 DEF Commit, CallShape, ClaimInv, CallRecords
      <4>2. QED
        BY <1>1, <2>1, <3>1, <3>2, <4>1 DEF Placed
    <3>5. QED
      BY <3>3, <3>4
  <2>4. CASE Select(c) \/ Update(c) \/ CachePlan(c) \/ Flush(c) \/ Reply(c)
    <3>1. UNCHANGED status
      BY <2>4 DEF Select, Update, CachePlan, Flush, Reply, database
    <3>2. ASSUME Select(c)
          PROVE  \A d \in Calls : Open(d)' => Open(d) /\ call'[d].work = call[d].work
      BY <3>2, SelectEffect DEF Select, At
    <3>3. ASSUME Update(c) \/ CachePlan(c)
          PROVE  \A d \in Calls : Open(d)' => Open(d) /\ call'[d].work = call[d].work
      BY <3>3 DEF Update, CachePlan, HasResult, At, Goto, CallRecords
    <3>4. ASSUME Flush(c)
          PROVE  \A d \in Calls : Open(d)' => Open(d) /\ call'[d].work = call[d].work
      BY <3>4 DEF Flush, At, CallRecords
    <3>5. ASSUME Reply(c)
          PROVE  \A d \in Calls : Open(d)' => Open(d) /\ call'[d].work = call[d].work
      BY <3>5 DEF Reply, At, Idle
    <3>6. QED
      BY <1>1, <2>1, <2>4, <3>1, <3>2, <3>3, <3>4, <3>5
  <2>5. QED
    BY <1>2, <2>2, <2>3, <2>4 DEF CallStep
<1>3. ASSUME NEW c \in Calls, NEW s \in Shoppers, NEW basket \in Requests,
             StartCreate(c, s, basket)
      PROVE  FreshIds'
  <2> DEFINE ids == nextId .. (nextId + Len(basket) - 1)
  <2>1. /\ UNCHANGED status
        /\ nextId' = nextId + Len(basket)
        /\ Len(basket) \in Nat
        /\ nextId \in Nat
    BY <1>3, ConstantsAssumption DEF StartCreate
  <2>2. /\ call'[c].work = ids
        /\ call[c].pc = "idle"
        /\ \A d \in Calls \ {c} : call'[d] = call[d]
    BY <1>3 DEF StartCreate, BulkIds, Start, Idle
  <2>3. \A o \in Orders : o >= nextId' => o >= nextId
    BY <2>1 DEF Orders
  <2>4. \A o \in ids : o >= nextId /\ o < nextId'
    BY <2>1
  <2>5. ids \subseteq Orders
    BY <1>3 DEF StartCreate, BulkIds
  <2>6. ids \cap Placed = {}
    BY <2>4, <2>5 DEF FreshIds, Placed
  <2> HIDE DEF ids
  <2>7. ASSUME NEW d \in Calls \ {c}, Open(d)'
        PROVE  /\ call'[d].work \cap Placed' = {}
               /\ \A o \in call'[d].work : o < nextId'
               /\ call'[d].work \cap ids = {}
               /\ \A e \in Calls \ {c, d} : Open(e)' => call'[d].work \cap call'[e].work = {}
    <3>1. Open(d) /\ call'[d].work = call[d].work
      BY <2>2, <2>7 DEF At
    <3>2. \A o \in call[d].work : o \in Nat /\ o < nextId
      BY <3>1 DEF FreshIds, CallRecords, Orders
    <3>3. QED
      BY <2>1, <2>2, <2>4, <3>1, <3>2 DEF FreshIds, Placed, At
  <2>8. \A o \in Orders : o >= nextId' => status'[o] = "absent"
    BY <2>1, <2>3 DEF FreshIds
  <2>9. ids \cap Placed' = {}
    BY <2>1, <2>6 DEF Placed
  <2>10. QED
    BY <2>2, <2>4, <2>7, <2>8, <2>9 DEF FreshIds
<1>4. ASSUME NEW r \in Robots, RobotMove(r)
      PROVE  FreshIds'
  <2>1. ASSUME NEW c \in Calls, NEW k \in Capacities, StartPlan(c, r, k)
        PROVE  FreshIds'
    BY <1>1, <2>1 DEF StartPlan, Start, Idle, At, CallRecords, database
  <2>2. ASSUME NEW c \in Calls, NEW o \in Orders, StartStatus(c, r, o)
        PROVE  FreshIds'
    BY <1>1, <2>2 DEF StartStatus, Start, Idle, At, CallRecords, database
  <2>3. QED
    BY <1>4, <2>1, <2>2 DEF RobotMove
<1>5. ASSUME NEW c \in Calls, Leave(c) \/ Fail(c)
      PROVE  FreshIds'
  BY <1>1, <1>5 DEF Leave, Fail, Idle, At, CallRecords, database
<1>6. CASE Crash
  BY <1>1, <1>6 DEF Crash, Idle, At
<1>7. ASSUME NEW k \in Capacities, Expire(k)
      PROVE  FreshIds'
  BY <1>1, <1>7 DEF Expire, At, database
<1>8. CASE UNCHANGED vars
  BY <1>1, <1>8 DEF vars, At
<1>9. QED
  BY <1>2, <1>3, <1>4, <1>5, <1>6, <1>7, <1>8 DEF Next, ShopperMove

-----------------------------------------------------------------------------
(* Claims *)

(* Plans that are cached or about to be cached keep to claimed orders. *)
LEMMA ClaimStep ==
  ASSUME TypeOK, TypeOK', CallShape, ClaimInv, RowsAdvance, [Next]_vars
  PROVE  ClaimInv'
<1> USE DEF TypeOK
<1> DEFINE ClaimOf(c) ==
      /\ call[c].op = "plan" => call[c].work \subseteq Placed
      /\ call[c].op = "plan" /\ call[c].pc \in {"set", "reply"} =>
           call[c].work \subseteq Claimed
      /\ call[c].op = "create" /\ call[c].pc \in {"flush", "reply"} =>
           call[c].work \subseteq Placed
      /\ call[c].op = "status" => call[c].work \subseteq Claimed
<1>1. \A c \in Calls : ClaimOf(c)
  BY DEF ClaimInv
<1>2. /\ Placed \subseteq Placed'
      /\ Claimed \subseteq Claimed'
      /\ Claimed \subseteq Placed
  BY DEF RowsAdvance, Claimed, Placed
<1>3. \A c \in Calls : call'[c] = call[c] => ClaimOf(c)'
  BY <1>1, <1>2
<1>5. UNCHANGED todo => \A r \in Robots : todo'[r] \subseteq Claimed'
  BY <1>2 DEF ClaimInv
<1>6. UNCHANGED cache =>
        \A k \in Capacities : cache'[k] # NoPlan => cache'[k].orders \subseteq Claimed'
  BY <1>2 DEF ClaimInv
<1>7. ASSUME NEW c \in Calls, CallStep(c)
      PROVE  ClaimInv'
  <2>1. CASE Select(c)
    <3>1. ClaimOf(c)'
      BY <1>2, <2>1, SelectEffect DEF ShippingOrders, Placed
    <3>2. QED
      BY <1>3, <1>5, <1>6, <2>1, <3>1, SelectEffect DEF Select, ClaimInv
  <2>2. CASE Update(c)
    <3>1. ClaimOf(c)' /\ \A d \in Calls \ {c} : call'[d] = call[d]
      BY <1>1, <1>2, <2>2 DEF Update, Goto, At, CallRecords
    <3>2. QED
      BY <1>3, <1>5, <1>6, <2>2, <3>1 DEF Update, ClaimInv
  <2>3. CASE CachePlan(c)
    <3>1. ClaimOf(c)' /\ \A d \in Calls \ {c} : call'[d] = call[d]
      BY <1>1, <1>2, <2>3 DEF CachePlan, HasResult, Goto, At, CallRecords
    <3>2. call[c].work \subseteq Claimed
      BY <1>1, <2>3 DEF CachePlan, HasResult, At
    <3>3. \A k \in Capacities : cache'[k] # NoPlan => cache'[k].orders \subseteq Claimed'
      BY <1>2, <2>3, <3>2 DEF CachePlan, ClaimInv
    <3>4. QED
      BY <1>3, <1>5, <2>3, <3>1, <3>3 DEF CachePlan, ClaimInv
  <2>4. CASE Exec(c)
    <3>1. ClaimOf(c)' /\ \A d \in Calls \ {c} : call'[d] = call[d]
      BY <1>1, <1>2, <2>4 DEF Exec, Goto, At, AfterCommit, CallRecords
    <3>2. QED
      BY <1>3, <1>5, <1>6, <2>4, <3>1 DEF Exec, ClaimInv
  <2>5. CASE Commit(c)
    <3>1. /\ call'[c].op = call[c].op
          /\ call'[c].work = call[c].work
          /\ \A d \in Calls \ {c} : call'[d] = call[d]
      BY <2>5 DEF Commit, Goto, CallRecords
    <3>2. call[c].op \in {"plan", "create"} /\ call[c].work \subseteq Orders
      BY <2>5 DEF Commit, CallShape, CallRecords
    <3>3. call[c].op = "plan" => call[c].work \subseteq Claimed'
      BY <2>5, <3>2 DEF Commit, Publish, Outcome, Claimed
    <3>4. call[c].op = "create" => call[c].work \subseteq Placed'
      BY <2>5, <3>2 DEF Commit, Publish, Outcome, Placed
    <3>5. ClaimOf(c)'
      BY <1>1, <1>2, <3>1, <3>2, <3>3, <3>4
    <3>6. QED
      BY <1>3, <1>5, <1>6, <2>5, <3>1, <3>5 DEF Commit, ClaimInv
  <2>6. CASE Flush(c)
    <3>1. ASSUME NEW d \in Calls
          PROVE  /\ call'[d].op = call[d].op
                 /\ call'[d].work = call[d].work
                 /\ call'[d].pc = IF d = c THEN "reply" ELSE call[d].pc
      BY <2>6 DEF Flush, CallRecords
    <3>2. call[c].op # "plan"
      BY <2>6 DEF Flush, CallShape
    <3>3. \A d \in Calls : ClaimOf(d)'
      BY <1>1, <1>2, <2>6, <3>1, <3>2 DEF Flush
    <3>4. \A k \in Capacities : cache'[k] = NoPlan
      BY <2>6 DEF Flush, DropEveryEntry
    <3>5. QED
      BY <1>5, <2>6, <3>3, <3>4 DEF Flush, ClaimInv
  <2>7. CASE Reply(c)
    <3>1. ClaimOf(c)' /\ \A d \in Calls \ {c} : call'[d] = call[d]
      BY <2>7 DEF Reply, Idle
    <3>2. call[c].op = "plan" => call[c].work \subseteq Claimed
      BY <1>1, <2>7 DEF Reply
    <3>3. \A r \in Robots : todo'[r] \subseteq Claimed'
      BY <1>2, <2>7, <3>2 DEF Reply, ClaimInv
    <3>4. QED
      BY <1>3, <1>6, <2>7, <3>1, <3>3 DEF Reply, ClaimInv
  <2>8. QED
    BY <1>7, <2>1, <2>2, <2>3, <2>4, <2>5, <2>6, <2>7 DEF CallStep
<1>8. ASSUME NEW r \in Robots, RobotMove(r)
      PROVE  ClaimInv'
  <2>1. ASSUME NEW c \in Calls, NEW k \in Capacities, StartPlan(c, r, k)
        PROVE  ClaimInv'
    <3>1. cache[k] # NoPlan => cache[k].orders \subseteq Claimed
      BY DEF ClaimInv
    <3>2. ClaimOf(c)' /\ \A d \in Calls \ {c} : call'[d] = call[d]
      BY <1>2, <2>1, <3>1 DEF StartPlan, Start, Idle
    <3>3. QED
      BY <1>3, <1>5, <1>6, <2>1, <3>2 DEF StartPlan, ClaimInv
  <2>2. ASSUME NEW c \in Calls, NEW o \in Orders, StartStatus(c, r, o)
        PROVE  ClaimInv'
    <3>1. o \in Claimed
      BY <2>2 DEF StartStatus, ClaimInv
    <3>2. ClaimOf(c)' /\ \A d \in Calls \ {c} : call'[d] = call[d]
      BY <1>2, <2>2, <3>1 DEF StartStatus, Start, Idle
    <3>3. QED
      BY <1>3, <1>5, <1>6, <2>2, <3>2 DEF StartStatus, ClaimInv
  <2>3. QED
    BY <1>8, <2>1, <2>2 DEF RobotMove
<1>9. ASSUME NEW s \in Shoppers, ShopperMove(s)
      PROVE  ClaimInv'
  <2>1. PICK c \in Calls, basket \in Requests : StartCreate(c, s, basket)
    BY <1>9 DEF ShopperMove
  <2>2. ClaimOf(c)' /\ \A d \in Calls \ {c} : call'[d] = call[d]
    BY <2>1 DEF StartCreate, Start, Idle
  <2>3. QED
    BY <1>3, <1>5, <1>6, <2>1, <2>2 DEF StartCreate, ClaimInv
<1>10. ASSUME NEW clients, todo' = TodoAfterLosing(clients)
       PROVE  \A r \in Robots : todo'[r] \subseteq Claimed'
  BY <1>2, <1>10 DEF TodoAfterLosing, ClaimInv
<1>11. ASSUME NEW c \in Calls, Leave(c)
       PROVE  ClaimInv'
  <2>1. ClaimOf(c)' /\ \A d \in Calls \ {c} : call'[d] = call[d]
    BY <1>1, <1>2, <1>11 DEF Leave, CallRecords
  <2>2. QED
    BY <1>3, <1>6, <1>10, <1>11, <2>1 DEF Leave, ClaimInv
<1>12. ASSUME NEW c \in Calls, Fail(c)
       PROVE  ClaimInv'
  <2>1. ClaimOf(c)' /\ \A d \in Calls \ {c} : call'[d] = call[d]
    BY <1>12 DEF Fail, Idle
  <2>2. QED
    BY <1>3, <1>6, <1>10, <1>12, <2>1 DEF Fail, ClaimInv
<1>13. CASE Crash
  <2>1. \A d \in Calls : ClaimOf(d)'
    BY <1>13 DEF Crash, Idle
  <2>2. QED
    BY <1>10, <1>13, <2>1 DEF Crash, ClaimInv
<1>14. ASSUME NEW k \in Capacities, Expire(k)
       PROVE  ClaimInv'
  <2>1. \A l \in Capacities : cache'[l] = cache[l] \/ cache'[l] = NoPlan
    BY <1>14 DEF Expire
  <2>2. \A l \in Capacities : cache'[l] # NoPlan => cache'[l].orders \subseteq Claimed'
    BY <1>2, <2>1 DEF ClaimInv
  <2>3. QED
    BY <1>3, <1>5, <1>14, <2>2 DEF Expire, ClaimInv
<1>15. CASE UNCHANGED vars
  BY <1>3, <1>5, <1>6, <1>15 DEF vars, ClaimInv
<1>16. QED
  BY <1>7, <1>8, <1>9, <1>11, <1>12, <1>13, <1>14, <1>15 DEF Next

(* The claim invariant holds at first and is kept by every step. *)
LEMMA ClaimIInvInductive ==
  /\ Init => ClaimIInv
  /\ ClaimIInv /\ [Next]_vars => ClaimIInv'
<1>1. ASSUME Init
      PROVE  ClaimIInv
  BY <1>1, InitType
     DEF Init, ClaimIInv, CallShape, FreshIds, ClaimInv, At, Idle
<1>2. ASSUME ClaimIInv, [Next]_vars
      PROVE  ClaimIInv'
  BY <1>2, NextType, CallShapeStep, FreshIdsStep, RowsAdvanceStep, ClaimStep DEF ClaimIInv
<1>3. QED
  BY <1>1, <1>2

(* The orders of every cached plan have been claimed in the database: the   *)
(* cache never offers an order that a new plan could be given as well.      *)
THEOREM CachedPlansClaimed == Spec => []CachedPlansAreClaimed
<1>1. ClaimIInv => CachedPlansAreClaimed
  BY DEF ClaimIInv, ClaimInv, Claimed, CachedPlansAreClaimed
<1>2. QED
  BY <1>1, ClaimIInvInductive, PTL DEF Spec

-----------------------------------------------------------------------------
(* Staleness *)

EntryOf(d) == [orders |-> call[d].work, seen |-> call[d].seen, raced |-> call[d].raced]

(* Most steps announce nothing, start no plan from a snapshot and at most   *)
(* move a plan from its call to the cache or from there into an answer.     *)
AnswersFromCache(d) ==
  \E k \in Capacities :
    cache[k] # NoPlan /\ call'[d].work = cache[k].orders /\ call'[d].raced = cache[k].raced

QuietStep ==
  /\ Announced' \subseteq Announced
  /\ Reported' \subseteq Reported
  /\ \A d \in Calls : Planning(d)' =>
       /\ Planning(d)
       /\ call'[d].cap = call[d].cap
       /\ EntryOf(d)' = EntryOf(d)
  /\ \A d \in Calls : HasPlan(d)' =>
       (HasPlan(d) /\ EntryOf(d)' = EntryOf(d)) \/ AnswersFromCache(d)
  /\ \A k \in Capacities :
       \/ cache'[k] = NoPlan
       \/ cache'[k] = cache[k]
       \/ \E d \in Calls : Planning(d) /\ call[d].cap = k /\ cache'[k] = EntryOf(d)

(* A step that is neither a snapshot read nor a Flush is quiet. *)
LEMMA QuietSteps ==
  ASSUME TypeOK, CallShape, [Next]_vars,
         \A c \in Calls : ~Select(c) /\ ~Flush(c)
  PROVE  QuietStep
<1> USE DEF TypeOK, CallShape
<1> DEFINE Answering(d, op) == At(d, op, "reply")
           Kept(d) ==
             /\ Answering(d, "create")' => Answering(d, "create") /\ call'[d].work = call[d].work
             /\ Answering(d, "status")' => Answering(d, "status") /\ call'[d].work = call[d].work
             /\ Planning(d)' => /\ Planning(d)
                               /\ call'[d].cap = call[d].cap
                               /\ EntryOf(d)' = EntryOf(d)
             /\ HasPlan(d)' => (HasPlan(d) /\ EntryOf(d)' = EntryOf(d)) \/ AnswersFromCache(d)
           CacheKept == \A k \in Capacities : cache'[k] = NoPlan \/ cache'[k] = cache[k]
<1>1. ASSUME \A d \in Calls : Kept(d), CacheKept, UNCHANGED history
      PROVE  QuietStep
  BY <1>1 DEF QuietStep, Announced, Reported, history
<1>2. \A d \in Calls : call'[d] = call[d] \/ call'[d] = Idle => Kept(d)
  BY DEF Planning, HasPlan, EntryOf, At, Idle
<1>3. ASSUME NEW c \in Calls, Update(c) \/ Exec(c) \/ Commit(c)
      PROVE  QuietStep
  <2>1. /\ \A d \in Calls \ {c} : call'[d] = call[d]
        /\ call'[c].pc \notin {"reply"}
        /\ EntryOf(c)' = EntryOf(c)
        /\ call'[c].op = call[c].op
        /\ call'[c].cap = call[c].cap
    BY <1>3 DEF Update, Exec, Commit, Goto, AfterCommit, At, EntryOf, CallRecords
  <2>2. Planning(c)' => Planning(c)
    BY <1>3, <2>1 DEF Update, Exec, Commit, At, Planning
  <2>3. Kept(c)
    BY <2>1, <2>2 DEF HasPlan, At
  <2>4. UNCHANGED <<cache, history>>
    BY <1>3 DEF Update, Exec, Commit
  <2>5. QED
    BY <1>1, <1>2, <2>1, <2>3, <2>4
<1>4. ASSUME NEW c \in Calls, CachePlan(c)
      PROVE  QuietStep
  <2>1. /\ \A d \in Calls \ {c} : call'[d] = call[d]
        /\ call'[c].op = "plan"
        /\ call'[c].pc = "reply"
        /\ EntryOf(c)' = EntryOf(c) /\ Planning(c)
    BY <1>4 DEF CachePlan, HasResult, Goto, At, CallRecords, EntryOf, Planning
  <2>2. Kept(c)
    BY <2>1 DEF At, Planning, HasPlan
  <2>3. Announced' \subseteq Announced /\ Reported' \subseteq Reported
    BY <1>2, <1>4, <2>1, <2>2 DEF CachePlan, Announced, Reported, history
  <2>4. /\ Planning(c) /\ call[c].cap \in Capacities
        /\ cache' = [cache EXCEPT ![call[c].cap] = EntryOf(c)]
    BY <1>4 DEF CachePlan, HasResult, At, Planning, EntryOf
  <2>5. QED
    BY <1>2, <2>1, <2>2, <2>3, <2>4 DEF QuietStep
<1>5. ASSUME NEW c \in Calls, Reply(c)
      PROVE  QuietStep
  <2>1. \A d \in Calls : Kept(d)
    BY <1>2, <1>5 DEF Reply
  <2>2. ~Answering(c, "create")' /\ ~Answering(c, "status")'
    BY <1>5 DEF Reply, At, Idle
  <2>3. call[c].work \subseteq Orders
    BY DEF CallRecords
  <2>4. accepted' \subseteq Announced
    BY <1>5, <2>3 DEF Reply, Announced, At
  <2>5. delivered' \subseteq Reported
    BY <1>5, <2>3 DEF Reply, Reported, At
  <2>6. Announced' \subseteq Announced /\ Reported' \subseteq Reported
    BY <2>1, <2>4, <2>5 DEF Announced, Reported
  <2>7. QED
    BY <1>5, <2>1, <2>6 DEF QuietStep, Reply
<1>6. ASSUME NEW r \in Robots, RobotMove(r)
      PROVE  QuietStep
  <2>1. ASSUME NEW c \in Calls, NEW k \in Capacities, StartPlan(c, r, k)
        PROVE  QuietStep
    <3>1. Kept(c) /\ \A d \in Calls \ {c} : call'[d] = call[d]
      BY <2>1 DEF StartPlan, Start, Idle, At, Planning, HasPlan, AnswersFromCache
    <3>2. QED
      BY <1>1, <1>2, <2>1, <3>1 DEF StartPlan
  <2>2. ASSUME NEW c \in Calls, NEW o \in Orders, StartStatus(c, r, o)
        PROVE  QuietStep
    <3>1. Kept(c) /\ \A d \in Calls \ {c} : call'[d] = call[d]
      BY <2>2 DEF StartStatus, Start, Idle, At, Planning, HasPlan
    <3>2. QED
      BY <1>1, <1>2, <2>2, <3>1 DEF StartStatus
  <2>3. QED
    BY <1>6, <2>1, <2>2 DEF RobotMove
<1>7. ASSUME NEW s \in Shoppers, ShopperMove(s)
      PROVE  QuietStep
  <2>1. PICK c \in Calls, basket \in Requests : StartCreate(c, s, basket)
    BY <1>7 DEF ShopperMove
  <2>2. Kept(c) /\ \A d \in Calls \ {c} : call'[d] = call[d]
    BY <2>1 DEF StartCreate, Start, Idle, At, Planning, HasPlan
  <2>3. QED
    BY <1>1, <1>2, <2>1, <2>2 DEF StartCreate
<1>8. ASSUME NEW c \in Calls, Leave(c)
      PROVE  QuietStep
  <2>1. Kept(c) /\ \A d \in Calls \ {c} : call'[d] = call[d]
    BY <1>8 DEF Leave, At, Planning, HasPlan, EntryOf, CallRecords
  <2>2. QED
    BY <1>1, <1>2, <1>8, <2>1 DEF Leave
<1>9. ASSUME NEW c \in Calls, Fail(c)
      PROVE  QuietStep
  BY <1>1, <1>2, <1>9 DEF Fail
<1>10. CASE Crash
  BY <1>1, <1>2, <1>10 DEF Crash
<1>11. ASSUME NEW k \in Capacities, Expire(k)
       PROVE  QuietStep
  BY <1>1, <1>2, <1>11 DEF Expire
<1>12. CASE UNCHANGED vars
  BY <1>1, <1>2, <1>12 DEF vars, history
<1>13. QED
  BY <1>3, <1>4, <1>5, <1>6, <1>7, <1>8, <1>9, <1>10, <1>11, <1>12 DEF Next, CallStep

(* An order that exists can leave the orders to be shipped, not join them.  *)
LEMMA ShippingShrinks ==
  ASSUME TypeOK, RowsAdvance, NEW k \in Capacities
  PROVE  Placed \cap ShippingOrders(k)' \subseteq ShippingOrders(k)
BY DEF RowsAdvance, ShippingOrders, WeightOf, Placed, TypeOK

(* Every step keeps the bound on what cached and future plans miss. *)
LEMMA FreshnessStep ==
  ASSUME TypeOK, CallShape, FreshIds, ClaimInv, FreshnessInv, RowsAdvance, [Next]_vars
  PROVE  FreshnessInv'
<1> USE DEF TypeOK, CallShape
<1>1. \A k \in Capacities : Announced \cap ShippingOrders(k)' \subseteq ShippingOrders(k)
  BY ShippingShrinks DEF FreshnessInv
<1>2. Placed \subseteq Placed'
  BY DEF RowsAdvance
<1>3. \A c \in Calls : Planning(c) => call[c].cap \in Capacities
  BY DEF Planning
<1>4. CASE QuietStep
  <2>1. Announced' \subseteq Announced
    BY <1>4 DEF QuietStep
  <2>2. ASSUME NEW c \in Calls, Planning(c)'
        PROVE  (Announced \cap ShippingOrders(call[c].cap) \subseteq call[c].seen \cup call[c].raced)'
    <3>1. /\ Planning(c)
          /\ call'[c].cap = call[c].cap
          /\ call'[c].seen = call[c].seen
          /\ call'[c].raced = call[c].raced
      BY <1>4, <2>2 DEF QuietStep, EntryOf
    <3>2. Announced \cap ShippingOrders(call[c].cap) \subseteq call[c].seen \cup call[c].raced
      BY <3>1 DEF FreshnessInv
    <3>3. Announced' \cap ShippingOrders(call[c].cap)' \subseteq ShippingOrders(call[c].cap)
      BY <1>1, <1>3, <2>1, <3>1 DEF ShippingOrders
    <3>4. QED
      BY <2>1, <3>1, <3>2, <3>3
  <2>3. ASSUME NEW k \in Capacities, cache'[k] # NoPlan
        PROVE  Announced' \cap ShippingOrders(k)' \subseteq cache'[k].seen \cup cache'[k].raced
    <3>1. CASE cache'[k] = cache[k]
      <4>1. Announced \cap ShippingOrders(k) \subseteq cache[k].seen \cup cache[k].raced
        BY <2>3, <3>1 DEF FreshnessInv
      <4>2. QED
        BY <1>1, <2>1, <3>1, <4>1
    <3>2. CASE \E d \in Calls : Planning(d) /\ call[d].cap = k /\ cache'[k] = EntryOf(d)
      <4>1. PICK d \in Calls : Planning(d) /\ call[d].cap = k /\ cache'[k] = EntryOf(d)
        BY <3>2
      <4>2. Announced \cap ShippingOrders(k) \subseteq call[d].seen \cup call[d].raced
        BY <4>1 DEF FreshnessInv
      <4>3. QED
        BY <1>1, <2>1, <4>1, <4>2 DEF EntryOf
    <3>3. QED
      BY <1>4, <2>3, <3>1, <3>2 DEF QuietStep
  <2>4. QED
    BY <1>2, <2>1, <2>2, <2>3 DEF FreshnessInv
<1>5. ASSUME NEW c \in Calls, Select(c)
      PROVE  FreshnessInv'
  <2>1. /\ UNCHANGED <<status, item, cache, accepted>>
        /\ call[c].pc = "select"
        /\ \A d \in Calls \ {c} : call'[d] = call[d]
        /\ call'[c].pc # "reply"
        /\ call'[c].cap = call[c].cap
        /\ call'[c].seen = ShippingOrders(call[c].cap)
    BY <1>5, SelectEffect DEF Select, At, database, history
  <2>2. Announced' \subseteq Announced
    BY <2>1 DEF Announced, At
  <2>3. \A k \in Capacities : ShippingOrders(k)' = ShippingOrders(k)
    BY <2>1 DEF ShippingOrders, WeightOf
  <2>4. ASSUME NEW d \in Calls, Planning(d)'
        PROVE  (Announced \cap ShippingOrders(call[d].cap) \subseteq call[d].seen \cup call[d].raced)'
    <3>1. CASE d = c
      BY <2>1, <3>1 DEF ShippingOrders, WeightOf
    <3>2. CASE d # c
      <4>1. Planning(d) /\ call'[d] = call[d]
        BY <2>1, <2>4, <3>2 DEF Planning
      <4>2. ShippingOrders(call[d].cap)' = ShippingOrders(call[d].cap)
        BY <2>1, <4>1 DEF ShippingOrders, WeightOf
      <4>3. QED
        BY <2>2, <4>1, <4>2 DEF FreshnessInv
    <3>3. QED
      BY <3>1, <3>2
  <2>5. \A k \in Capacities : cache'[k] # NoPlan =>
          Announced' \cap ShippingOrders(k)' \subseteq cache'[k].seen \cup cache'[k].raced
    BY <2>1, <2>2, <2>3 DEF FreshnessInv
  <2>6. QED
    BY <1>2, <2>2, <2>4, <2>5 DEF FreshnessInv
<1>6. ASSUME NEW c \in Calls, Flush(c)
      PROVE  FreshnessInv'
  <2>1. /\ UNCHANGED <<status, item, accepted>>
        /\ call[c].pc = "flush"
        /\ call[c].op \in {"create", "status"}
    BY <1>6 DEF Flush, database, history, CallRecords
  <2>2. ASSUME NEW d \in Calls
        PROVE  /\ call'[d].op = call[d].op
               /\ call'[d].work = call[d].work
               /\ call'[d].cap = call[d].cap
               /\ call'[d].seen = call[d].seen
               /\ call'[d].pc = IF d = c THEN "reply" ELSE call[d].pc
               /\ Planning(d) => call'[d].raced = call[d].raced \cup call[c].work
    BY <1>6, <2>1 DEF Flush, Planning, CallRecords
  <2>3. Announced' \subseteq Announced \cup call[c].work
    BY <2>1, <2>2 DEF Announced, At
  <2>4. call[c].work \subseteq Placed
    BY <2>1 DEF ClaimInv, Claimed, Placed
  <2>5. ASSUME NEW d \in Calls, Planning(d)'
        PROVE  (Announced \cap ShippingOrders(call[d].cap) \subseteq call[d].seen \cup call[d].raced)'
    <3>1. Planning(d)
      BY <2>1, <2>2, <2>5 DEF Planning
    <3>2. ShippingOrders(call[d].cap)' = ShippingOrders(call[d].cap)
      BY <2>1, <2>2 DEF ShippingOrders, WeightOf
    <3>3. QED
      BY <2>2, <2>3, <3>1, <3>2 DEF FreshnessInv
  <2>6. \A k \in Capacities : cache'[k] = NoPlan
    BY <1>6 DEF Flush, DropEveryEntry
  <2>7. Announced' \subseteq Placed'
    BY <1>2, <2>3, <2>4 DEF FreshnessInv
  <2>8. QED
    BY <2>5, <2>6, <2>7 DEF FreshnessInv
<1>7. QED
  BY <1>4, <1>5, <1>6, QuietSteps

(* Every step keeps the bound on what cached and future plans repeat. *)
LEMMA RepeatStep ==
  ASSUME TypeOK, CallShape, ClaimInv, RepeatInv, RowsAdvance, [Next]_vars
  PROVE  RepeatInv'
<1> USE DEF TypeOK, CallShape
<1>1. Claimed \subseteq Claimed'
  BY DEF RowsAdvance
<1>2. CASE QuietStep
  <2>1. Reported' \subseteq Reported
    BY <1>2 DEF QuietStep
  <2>2. ASSUME NEW c \in Calls, HasPlan(c)'
        PROVE  (call[c].work \cap Reported \subseteq call[c].raced)'
    <3>1. CASE HasPlan(c) /\ EntryOf(c)' = EntryOf(c)
      BY <2>1, <3>1 DEF RepeatInv, EntryOf
    <3>2. CASE AnswersFromCache(c)
      BY <2>1, <3>2 DEF RepeatInv, AnswersFromCache
    <3>3. QED
      BY <1>2, <2>2, <3>1, <3>2 DEF QuietStep
  <2>3. ASSUME NEW k \in Capacities, cache'[k] # NoPlan
        PROVE  cache'[k].orders \cap Reported' \subseteq cache'[k].raced
    <3>1. CASE cache'[k] = cache[k]
      BY <2>1, <2>3, <3>1 DEF RepeatInv
    <3>2. CASE \E d \in Calls : Planning(d) /\ call[d].cap = k /\ cache'[k] = EntryOf(d)
      BY <2>1, <3>2 DEF RepeatInv, EntryOf, HasPlan
    <3>3. QED
      BY <1>2, <2>3, <3>1, <3>2 DEF QuietStep
  <2>4. QED
    BY <1>1, <2>1, <2>2, <2>3 DEF RepeatInv
<1>3. ASSUME NEW c \in Calls, Select(c)
      PROVE  RepeatInv'
  <2>1. /\ UNCHANGED <<status, cache, delivered>>
        /\ \A d \in Calls \ {c} : call'[d] = call[d]
        /\ call'[c].pc # "reply"
        /\ call'[c].work \subseteq ShippingOrders(call[c].cap)
    BY <1>3, SelectEffect DEF Select, database, history
  <2>2. Reported' \subseteq Reported
    BY <2>1 DEF Reported, At
  <2>3. call'[c].work \cap Reported = {}
    BY <2>1 DEF RepeatInv, ShippingOrders, Claimed
  <2>4. ASSUME NEW d \in Calls, HasPlan(d)'
        PROVE  (call[d].work \cap Reported \subseteq call[d].raced)'
    <3>1. CASE d = c
      BY <2>2, <2>3, <3>1
    <3>2. CASE d # c
      BY <2>1, <2>2, <2>4, <3>2 DEF HasPlan, Planning, At, RepeatInv
    <3>3. QED
      BY <3>1, <3>2
  <2>5. QED
    BY <1>1, <2>1, <2>2, <2>4 DEF RepeatInv
<1>4. ASSUME NEW c \in Calls, Flush(c)
      PROVE  RepeatInv'
  <2>1. UNCHANGED delivered /\ call[c].pc = "flush" /\ call[c].op # "plan"
    BY <1>4 DEF Flush, history
  <2>2. ASSUME NEW d \in Calls
        PROVE  /\ call'[d].op = call[d].op
               /\ call'[d].work = call[d].work
               /\ call'[d].pc = IF d = c THEN "reply" ELSE call[d].pc
               /\ HasPlan(d) => call'[d].raced = call[d].raced \cup call[c].work
    BY <1>4, <2>1 DEF Flush, HasPlan, Planning, At, CallRecords
  <2>3. /\ Reported' \subseteq Reported \cup call[c].work
        /\ call[c].op # "status" => Reported' \subseteq Reported
    BY <2>1, <2>2 DEF Reported, At
  <2>4. Reported' \subseteq Claimed'
    BY <1>1, <2>3 DEF RepeatInv, ClaimInv
  <2>5. ASSUME NEW d \in Calls, HasPlan(d)'
        PROVE  (call[d].work \cap Reported \subseteq call[d].raced)'
    <3>1. HasPlan(d)
      BY <2>1, <2>2, <2>5 DEF HasPlan, Planning, At
    <3>2. QED
      BY <2>2, <2>3, <3>1 DEF RepeatInv
  <2>6. \A k \in Capacities : cache'[k] = NoPlan
    BY <1>4 DEF Flush, DropEveryEntry
  <2>7. QED
    BY <2>4, <2>5, <2>6 DEF RepeatInv
<1>5. QED
  BY <1>2, <1>3, <1>4, QuietSteps

(* The whole invariant holds at first and is kept by every step. *)
LEMMA IInvInductive ==
  /\ Init => IInv
  /\ IInv /\ [Next]_vars => IInv'
<1>1. ASSUME Init
      PROVE  IInv
  <2>1. Announced = {} /\ Reported = {} /\ \A c \in Calls : ~Planning(c) /\ ~HasPlan(c)
    BY <1>1 DEF Init, Announced, Reported, Planning, HasPlan, At, Idle
  <2>2. QED
    BY <1>1, <2>1, ClaimIInvInductive DEF Init, IInv, FreshnessInv, RepeatInv
<1>2. ASSUME IInv, [Next]_vars
      PROVE  IInv'
  <2>1. ClaimIInv'
    BY <1>2, ClaimIInvInductive DEF IInv
  <2>2. RowsAdvance
    BY <1>2, RowsAdvanceStep DEF IInv, ClaimIInv
  <2>3. QED
    BY <1>2, <2>1, <2>2, FreshnessStep, RepeatStep DEF IInv, ClaimIInv
<1>3. QED
  BY <1>1, <1>2

(* A cached plan is stale only by orders whose Flush came between its       *)
(* snapshot and its Set: CreateOrders invalidates every other one.          *)
THEOREM CacheMissesBounded == Spec => []CacheMissesOnlyRacedOrders
<1>1. IInv => CacheMissesOnlyRacedOrders
  BY DEF IInv, FreshnessInv, Announced, CacheMissesOnlyRacedOrders
<1>2. QED
  BY <1>1, IInvInductive, PTL DEF Spec

(* A cached plan repeats an order that a robot has reported as completed    *)
(* only when the report came between the plan's snapshot and its Set.       *)
THEOREM CacheRepeatsBounded == Spec => []CacheRepeatsOnlyRacedOrders
<1>1. IInv => CacheRepeatsOnlyRacedOrders
  BY DEF IInv, RepeatInv, Reported, CacheRepeatsOnlyRacedOrders
<1>2. QED
  BY <1>1, IInvInductive, PTL DEF Spec

(* Only the COMMIT of a plan takes a completed order back, and that plan    *)
(* has been told of the completion's Flush.                                 *)
LEMMA UndoneStep ==
  ASSUME IInv, [Next]_vars
  PROVE  UndoneByRacingPlan
<1> SUFFICES ASSUME NEW o \in delivered,
                    status[o] = "completed", status'[o] # "completed"
             PROVE  \E c \in Calls : /\ At(c, "plan", "commit")
                                     /\ o \in call[c].work \cap call[c].raced
  BY DEF UndoneByRacingPlan
<1>1. TypeOK /\ CallShape /\ o \in Reported /\ o \in Orders
  BY DEF IInv, ClaimIInv, TypeOK, Reported
<1>2. ~UNCHANGED status
  OBVIOUS
<1>3. PICK c \in Calls : Exec(c) \/ Commit(c)
  BY <1>2
     DEF Next, vars, CallStep, RobotMove, ShopperMove, Select, Update, CachePlan, Flush,
         Reply, Leave, Fail, Crash, Expire, StartPlan, StartStatus, StartCreate, database
<1>4. /\ o \in call[c].work
      /\ call[c].op # "status"
  BY <1>1, <1>3 DEF Exec, Commit, Publish, Outcome, At
<1>5. Commit(c) /\ call[c].op \in {"plan", "create"} /\ call[c].pc = "commit"
  BY <1>1, <1>3, <1>4 DEF Exec, Commit, At, CallShape, CallRecords, TypeOK
<1>6. call[c].op # "create"
  BY <1>1, <1>4, <1>5 DEF IInv, ClaimIInv, FreshIds, Placed, At
<1>7. Planning(c) /\ At(c, "plan", "commit")
  BY <1>5, <1>6 DEF Planning, At
<1>8. o \in call[c].raced
  BY <1>1, <1>4, <1>7 DEF IInv, RepeatInv, HasPlan
<1>9. QED
  BY <1>4, <1>7, <1>8

(* An acknowledged completion is undone only by a plan whose snapshot is    *)
(* older than the completion, never by a plan computed later.               *)
THEOREM CompletionUndone == Spec => CompletionUndoneOnlyByRacingPlan
BY UndoneStep, IInvInductive, PTL DEF Spec, CompletionUndoneOnlyByRacingPlan

-----------------------------------------------------------------------------
(* Robots: no step but a fault drops an order.  Whatever was claimed for    *)
(* delivery is passed on from the plan's call to a robot and kept until it  *)
(* is completed.  What this rests on is who sent a call: no client has two  *)
(* calls, and a robot that asks for a plan has nothing left to do.          *)
OwnerInv ==
  /\ \A c \in Calls :
       /\ call[c].op = "none" => call[c].by = Nobody
       /\ call[c].op \in {"plan", "status"} => call[c].by \in Robots \cup {Nobody}
       /\ call[c].op = "create" => call[c].by \in Shoppers \cup {Nobody}
       /\ \A r \in Robots : call[c].op = "plan" /\ call[c].by = r => todo[r] = {}
  /\ \A c, d \in Calls : c # d /\ call[c].by = call[d].by => call[c].by = Nobody

HandoverIInv == TypeOK /\ CallShape /\ OwnerInv

-----------------------------------------------------------------------------
(* Ownership *)

(* A step at which calls keep their operation and their client. *)
LEMMA SameOwners ==
  ASSUME OwnerInv, UNCHANGED todo,
         \A d \in Calls : call'[d].op = call[d].op /\ call'[d].by = call[d].by
  PROVE  OwnerInv'
BY DEF OwnerInv

(* What a request that starts leaves of the other calls. *)
LEMMA StartEffect ==
  ASSUME TypeOK, NEW c \in Calls, NEW client, NEW fields, Start(c, client, fields)
  PROVE  /\ call'[c] = fields
         /\ \A d \in Calls \ {c} : call'[d] = call[d]
         /\ \A d \in Calls : call[d].by # client
         /\ call[c].pc = "idle"
BY DEF Start, Busy, TypeOK

(* The requests of a robot. *)
LEMMA PlanStarts ==
  ASSUME NEW c \in Calls, NEW r \in Robots, NEW k \in Capacities, StartPlan(c, r, k)
  PROVE  \E fields : Start(c, r, fields) /\ fields.by = r /\ fields.op = "plan"
<1>1. CASE cache[k] # NoPlan
  <2> DEFINE fields == [Idle EXCEPT !.op = "plan", !.pc = "reply", !.by = r, !.cap = k,
                                    !.work = cache[k].orders, !.raced = cache[k].raced]
  <2>1. Start(c, r, fields)
    BY <1>1 DEF StartPlan
  <2>2. fields.by = r /\ fields.op = "plan"
    BY DEF Idle
  <2> HIDE DEF fields
  <2>3. QED
    BY <2>1, <2>2
<1>2. CASE cache[k] = NoPlan
  <2> DEFINE fields == [Idle EXCEPT !.op = "plan", !.pc = "select", !.by = r, !.cap = k]
  <2>1. Start(c, r, fields)
    BY <1>2 DEF StartPlan
  <2>2. fields.by = r /\ fields.op = "plan"
    BY DEF Idle
  <2> HIDE DEF fields
  <2>3. QED
    BY <2>1, <2>2
<1>3. QED
  BY <1>1, <1>2

(* A report begins as a status call of its robot. *)
LEMMA StatusStarts ==
  ASSUME NEW c \in Calls, NEW r \in Robots, NEW o \in Orders, StartStatus(c, r, o)
  PROVE  \E fields : /\ Start(c, r, fields) /\ fields.by = r
                     /\ fields.op = "status" /\ fields.pc = "exec"
<1> DEFINE fields == [Idle EXCEPT !.op = "status", !.pc = "exec", !.by = r, !.work = {o}]
<1>1. Start(c, r, fields)
  BY DEF StartStatus
<1>2. fields.by = r /\ fields.op = "status" /\ fields.pc = "exec"
  BY DEF Idle
<1> HIDE DEF fields
<1>3. QED
  BY <1>1, <1>2

(* What an answer does to a robot's orders. *)
LEMMA ReplyTodo ==
  ASSUME NEW c \in Calls, NEW r \in Robots, Reply(c)
  PROVE  /\ r # call[c].by => todo'[r] = todo[r]
         /\ r = call[c].by /\ call[c].op = "plan" => todo'[r] = call[c].work
         /\ r = call[c].by /\ call[c].op # "plan" => todo'[r] = todo[r] \ call[c].work
  BY DEF Reply

(* The steps in the middle of a call. *)
LEMMA MiddleStep ==
  ASSUME TypeOK, NEW c \in Calls,
         Select(c) \/ Update(c) \/ CachePlan(c) \/ Exec(c) \/ Commit(c) \/ Flush(c)
  PROVE  /\ UNCHANGED todo
         /\ \A d \in Calls : call'[d].op = call[d].op /\ call'[d].by = call[d].by
<1>1. CASE Select(c)
  <2>1. \E P, seen, pc :
          call' = [call EXCEPT ![c] = [@ EXCEPT !.work = P, !.seen = seen, !.pc = pc]]
    BY <1>1 DEF Select
  <2>2. \A d \in Calls : call'[d].op = call[d].op /\ call'[d].by = call[d].by
    BY <2>1 DEF TypeOK, CallRecords
  <2>3. QED
    BY <1>1, <2>2 DEF Select
<1>2. CASE Update(c) \/ CachePlan(c) \/ Exec(c) \/ Commit(c)
  <2>1. \E pc : Goto(c, pc)
    BY <1>2 DEF Update, CachePlan, Exec, Commit
  <2>2. \A d \in Calls : call'[d].op = call[d].op /\ call'[d].by = call[d].by
    BY <2>1 DEF Goto, TypeOK, CallRecords
  <2>3. QED
    BY <1>2, <2>2 DEF Update, CachePlan, Exec, Commit
<1>3. CASE Flush(c)
  BY <1>3 DEF Flush, TypeOK, CallRecords
<1>4. QED
  BY <1>1, <1>2, <1>3

(* A request that starts has the client that sent it, and no other call     *)
(* has that client.                                                         *)
LEMMA StartOwner ==
  ASSUME TypeOK, OwnerInv, NEW c \in Calls, UNCHANGED todo,
         NEW client \in Clients, NEW fields, Start(c, client, fields),
         fields.by = client,
         \/ fields.op = "create" /\ client \in Shoppers
         \/ fields.op = "status" /\ client \in Robots
         \/ fields.op = "plan" /\ client \in Robots /\ todo[client] = {}
  PROVE  OwnerInv'
<1>1. /\ call'[c] = fields
      /\ \A d \in Calls \ {c} : call'[d] = call[d]
      /\ \A d \in Calls : call[d].by # client
  BY StartEffect
<1>2. client # Nobody
  BY ConstantsAssumption DEF Clients
<1>3. ASSUME NEW d \in Calls
      PROVE  /\ call'[d].op = "none" => call'[d].by = Nobody
             /\ call'[d].op \in {"plan", "status"} => call'[d].by \in Robots \cup {Nobody}
             /\ call'[d].op = "create" => call'[d].by \in Shoppers \cup {Nobody}
             /\ \A r \in Robots : call'[d].op = "plan" /\ call'[d].by = r => todo'[r] = {}
  BY <1>1, <1>2 DEF OwnerInv
<1>4. ASSUME NEW d \in Calls, NEW e \in Calls, d # e, call'[d].by = call'[e].by
      PROVE  call'[d].by = Nobody
  BY <1>1, <1>4 DEF OwnerInv
<1>5. QED
  BY <1>3, <1>4 DEF OwnerInv

(* An answer, an error or a restart frees calls. *)
LEMMA FreeingStep ==
  ASSUME TypeOK, OwnerInv, NEW freed \in SUBSET Calls,
         \A d \in Calls : call'[d] = IF d \in freed THEN Idle ELSE call[d],
         \A r \in Robots, d \in Calls \ freed :
           call[d].op = "plan" /\ call[d].by = r => todo'[r] = {}
  PROVE  OwnerInv'
<1>1. Idle.op = "none" /\ Idle.by = Nobody
  BY DEF Idle
<1>2. ASSUME NEW d \in Calls
      PROVE  /\ call'[d].op = "none" => call'[d].by = Nobody
             /\ call'[d].op \in {"plan", "status"} => call'[d].by \in Robots \cup {Nobody}
             /\ call'[d].op = "create" => call'[d].by \in Shoppers \cup {Nobody}
             /\ \A r \in Robots : call'[d].op = "plan" /\ call'[d].by = r => todo'[r] = {}
  BY <1>1 DEF OwnerInv
<1>3. ASSUME NEW d \in Calls, NEW e \in Calls, d # e, call'[d].by = call'[e].by
      PROVE  call'[d].by = Nobody
  BY <1>1, <1>3 DEF OwnerInv
<1>4. QED
  BY <1>2, <1>3 DEF OwnerInv

(* Every step leaves each call with one client and each client with one *)
(* call.                                                                *)
LEMMA OwnerStep ==
  ASSUME TypeOK, CallShape, OwnerInv, [Next]_vars
  PROVE  OwnerInv'
<1>1. ASSUME NEW c \in Calls, NEW s \in Shoppers, NEW basket \in Requests,
             StartCreate(c, s, basket)
      PROVE  OwnerInv'
  <2> DEFINE fields == [Idle EXCEPT !.op = "create", !.pc = "commit", !.by = s,
                                    !.work = BulkIds(basket)]
  <2>1. Start(c, s, fields) /\ UNCHANGED todo
    BY <1>1 DEF StartCreate
  <2>2. fields.by = s /\ fields.op = "create" /\ s \in Clients
    BY DEF Idle, Clients
  <2> HIDE DEF fields
  <2>3. QED
    BY <2>1, <2>2, StartOwner
<1>2. ASSUME NEW c \in Calls, NEW r \in Robots, NEW k \in Capacities, StartPlan(c, r, k)
      PROVE  OwnerInv'
  <2>1. PICK fields : Start(c, r, fields) /\ fields.by = r /\ fields.op = "plan"
    BY <1>2, PlanStarts
  <2>2. todo[r] = {} /\ UNCHANGED todo /\ r \in Clients
    BY <1>2 DEF StartPlan, Clients
  <2>3. QED
    BY <2>1, <2>2, StartOwner
<1>3. ASSUME NEW c \in Calls, NEW r \in Robots, NEW o \in Orders, StartStatus(c, r, o)
      PROVE  OwnerInv'
  <2>1. PICK fields : Start(c, r, fields) /\ fields.by = r /\ fields.op = "status"
    BY <1>3, StatusStarts
  <2>2. UNCHANGED todo /\ r \in Clients
    BY <1>3 DEF StartStatus, Clients
  <2>3. QED
    BY <2>1, <2>2, StartOwner
<1>4. ASSUME NEW c \in Calls,
             Select(c) \/ Update(c) \/ CachePlan(c) \/ Exec(c) \/ Commit(c) \/ Flush(c)
      PROVE  OwnerInv'
  BY <1>4, MiddleStep, SameOwners
<1>5. ASSUME NEW c \in Calls, Reply(c)
      PROVE  OwnerInv'
  <2>1. /\ \A d \in Calls : call'[d] = IF d \in {c} THEN Idle ELSE call[d]
        /\ call[c].pc = "reply"
    BY <1>5 DEF Reply, TypeOK
  <2>2. ASSUME NEW r \in Robots, NEW d \in Calls \ {c},
               call[d].op = "plan", call[d].by = r
        PROVE  todo'[r] = {}
    <3>1. r # Nobody /\ todo[r] = {}
      BY <2>2, ConstantsAssumption DEF OwnerInv
    <3>2. call[c].by # r
      BY <2>2, <3>1 DEF OwnerInv
    <3>3. QED
      BY <1>5, <3>1, <3>2, ReplyTodo
  <2>3. QED
    BY <2>1, <2>2, FreeingStep
<1>6. ASSUME NEW c \in Calls, Leave(c)
      PROVE  OwnerInv'
  <2>1. /\ call'[c] = [call[c] EXCEPT !.by = Nobody]
        /\ \A d \in Calls \ {c} : call'[d] = call[d]
        /\ call[c].by # Nobody
    BY <1>6 DEF Leave, TypeOK
  <2>2. call'[c].op = call[c].op /\ call'[c].by = Nobody
    BY <2>1 DEF TypeOK, CallRecords
  <2>3. ASSUME NEW r \in Robots, todo[r] = {}
        PROVE  todo'[r] = {}
    BY <1>6, <2>3 DEF Leave, TodoAfterLosing
  <2>4. \A r \in Robots : r # Nobody
    BY ConstantsAssumption
  <2>5. ASSUME NEW d \in Calls
        PROVE  /\ call'[d].op = "none" => call'[d].by = Nobody
               /\ call'[d].op \in {"plan", "status"} => call'[d].by \in Robots \cup {Nobody}
               /\ call'[d].op = "create" => call'[d].by \in Shoppers \cup {Nobody}
               /\ \A r \in Robots : call'[d].op = "plan" /\ call'[d].by = r => todo'[r] = {}
    <3>1. CASE d = c
      BY <2>1, <2>2, <2>4, <3>1 DEF OwnerInv
    <3>2. CASE d # c
      BY <2>1, <2>3, <3>2 DEF OwnerInv
    <3>3. QED
      BY <3>1, <3>2
  <2>6. ASSUME NEW d \in Calls, NEW e \in Calls, d # e, call'[d].by = call'[e].by
        PROVE  call'[d].by = Nobody
    <3>1. CASE d = c
      BY <2>2, <3>1
    <3>2. CASE e = c
      BY <2>2, <2>6, <3>2
    <3>3. CASE d # c /\ e # c
      BY <2>1, <2>6, <3>3 DEF OwnerInv
    <3>4. QED
      BY <3>1, <3>2, <3>3
  <2>7. QED
    BY <2>5, <2>6 DEF OwnerInv
<1>7. ASSUME NEW c \in Calls, Fail(c)
      PROVE  OwnerInv'
  <2>1. \A d \in Calls : call'[d] = IF d \in {c} THEN Idle ELSE call[d]
    BY <1>7 DEF Fail, TypeOK
  <2>2. \A r \in Robots : todo[r] = {} => todo'[r] = {}
    BY <1>7 DEF Fail, TodoAfterLosing
  <2>3. \A r \in Robots, d \in Calls \ {c} :
          call[d].op = "plan" /\ call[d].by = r => todo'[r] = {}
    BY <2>2 DEF OwnerInv
  <2>4. QED
    BY <2>1, <2>3, FreeingStep
<1>8. ASSUME Crash
      PROVE  OwnerInv'
  <2>1. \A d \in Calls : call'[d] = IF d \in Calls THEN Idle ELSE call[d]
    BY <1>8 DEF Crash
  <2>2. QED
    BY <2>1, FreeingStep
<1>9. ASSUME NEW k \in Capacities, Expire(k)
      PROVE  OwnerInv'
  BY <1>9 DEF Expire, OwnerInv
<1>10. CASE UNCHANGED vars
  BY <1>10 DEF vars, OwnerInv
<1>11. QED
  BY <1>1, <1>2, <1>3, <1>4, <1>5, <1>6, <1>7, <1>8, <1>9, <1>10
     DEF Next, CallStep, RobotMove, ShopperMove

-----------------------------------------------------------------------------
(* Keeping *)

(* A step that takes an order from no hands. *)
LEMMA SameHands ==
  ASSUME NEW o \in Orders, InGoodHands(o), UNCHANGED todo,
         \A d \in Calls :
           /\ Carries(d, o) => Carries(d, o)'
           /\ Completes(d, o)' => Completes(d, o) /\ call'[d].by = call[d].by
  PROVE  InGoodHands(o)'
<1>1. ASSUME NEW r \in Robots, Keeps(r, o)
      PROVE  Keeps(r, o)'
  BY <1>1 DEF Keeps
<1>2. QED
  BY <1>1 DEF InGoodHands

(* A request that starts takes no order from anybody. *)
LEMMA StartKeepsHands ==
  ASSUME TypeOK, NEW o \in Orders, InGoodHands(o), UNCHANGED todo,
         NEW c \in Calls, NEW client, NEW fields, Start(c, client, fields),
         ~(fields.op = "status" /\ fields.pc \in {"flush", "reply"})
  PROVE  InGoodHands(o)'
<1>1. /\ call'[c] = fields
      /\ \A d \in Calls \ {c} : call'[d] = call[d]
      /\ call[c].pc = "idle"
  BY StartEffect
<1>2. ASSUME NEW d \in Calls
      PROVE  /\ Carries(d, o) => Carries(d, o)'
             /\ Completes(d, o)' => Completes(d, o) /\ call'[d].by = call[d].by
  BY <1>1 DEF Carries, Completes
<1>3. QED
  BY <1>2, SameHands

(* An answer hands the orders of a plan to the robot and takes from a robot *)
(* only what it has completed.                                              *)
LEMMA ReplyKeepsHands ==
  ASSUME TypeOK, CallShape, OwnerInv, NEW o \in Orders, InGoodHands(o),
         NEW c \in Calls, Reply(c)
  PROVE  InGoodHands(o)'
<1>1. /\ call[c].pc = "reply" /\ call'[c] = Idle
      /\ \A d \in Calls \ {c} : call'[d] = call[d]
  BY DEF Reply, TypeOK
<1>2. \A d \in Calls : ~Completes(d, o)' \/ (d # c /\ Completes(d, o) /\ call'[d] = call[d])
  BY <1>1 DEF Completes, Idle
<1>3. ASSUME NEW r \in Robots, Keeps(r, o), r # call[c].by
      PROVE  Keeps(r, o)'
  BY <1>2, <1>3, ReplyTodo DEF Keeps
<1>4. ASSUME NEW r \in Robots, Keeps(r, o), r = call[c].by
      PROVE  Keeps(r, o)'
  <2>1. r # Nobody /\ r \notin Shoppers
    BY ConstantsAssumption
  <2>2. call[c].op = "status"
    BY <1>4, <2>1 DEF OwnerInv, Keeps, TypeOK, CallRecords
  <2>3. o \notin call[c].work
    BY <1>1, <1>4, <2>2 DEF Keeps, Completes
  <2>4. todo'[r] = todo[r] \ call[c].work
    BY <1>4, <2>2, ReplyTodo
  <2>5. QED
    BY <1>2, <1>4, <2>3, <2>4 DEF Keeps
<1>5. ASSUME Carries(c, o)
      PROVE  InGoodHands(o)'
  <2>1. PICK r \in Robots : r = call[c].by
    BY <1>5 DEF Carries
  <2>2. o \in todo'[r]
    BY <1>5, <2>1, ReplyTodo DEF Carries
  <2>3. r # Nobody /\ \A d \in Calls \ {c} : call[d].by # r
    BY <2>1, ConstantsAssumption DEF OwnerInv
  <2>4. Keeps(r, o)'
    BY <1>2, <2>2, <2>3 DEF Keeps
  <2>5. QED
    BY <2>4 DEF InGoodHands
<1>6. ASSUME NEW d \in Calls \ {c}, Carries(d, o)
      PROVE  Carries(d, o)'
  BY <1>1, <1>6 DEF Carries
<1>7. QED
  BY <1>3, <1>4, <1>5, <1>6 DEF InGoodHands

(* A COMMIT or an autocommitted UPDATE gives an order to the call that *)
(* claims it and leaves the others where they are.                     *)
LEMMA PublishKeepsHands ==
  ASSUME TypeOK, CallShape, OwnerInv, NEW o \in Orders, status'[o] = "delivering",
         status[o] = "delivering" => InGoodHands(o),
         NEW c \in Calls, Exec(c) \/ Commit(c), ~ClaimedForNobody(o)
  PROVE  InGoodHands(o)'
<1>1. /\ status'[o] = IF o \in call[c].work THEN Outcome(call[c].op) ELSE status[o]
      /\ UNCHANGED todo
  BY DEF Exec, Commit, Publish
<1>2. /\ call'[c] = [call[c] EXCEPT !.pc = AfterCommit(call[c].op)]
      /\ \A d \in Calls \ {c} : call'[d] = call[d]
      /\ call[c].op # "none"
  BY DEF Exec, Commit, Goto, At, TypeOK, CallShape
<1>3. /\ call'[c].op = call[c].op /\ call'[c].by = call[c].by
      /\ call'[c].work = call[c].work /\ call'[c].pc = AfterCommit(call[c].op)
  BY <1>2 DEF TypeOK, CallRecords
<1>4. CASE o \in call[c].work
  <2>1. call[c].op = "plan"
    BY <1>1, <1>2, <1>4 DEF Outcome, TypeOK, CallRecords
  <2>2. call[c].pc = "commit"
    BY <2>1 DEF Exec, Commit, At
  <2>3. call[c].by \in Robots
    BY <1>4, <2>1, <2>2 DEF OwnerInv, ClaimedForNobody, At
  <2>4. Carries(c, o)'
    BY <1>3, <1>4, <2>1, <2>3 DEF Carries, AfterCommit
  <2>5. QED
    BY <2>4 DEF InGoodHands
<1>5. CASE o \notin call[c].work
  <2>1. InGoodHands(o)
    BY <1>1, <1>5
  <2>2. ASSUME NEW d \in Calls
        PROVE  /\ Carries(d, o) => Carries(d, o)'
               /\ Completes(d, o)' => Completes(d, o) /\ call'[d].by = call[d].by
    BY <1>2, <1>3, <1>5 DEF Carries, Completes
  <2>3. QED
    BY <1>1, <2>1, <2>2, SameHands
<1>6. QED
  BY <1>4, <1>5

(* An error at a call whose client has gone takes no order from anybody. *)
LEMMA FailKeepsHands ==
  ASSUME TypeOK, NEW o \in Orders, InGoodHands(o), NEW c \in Calls, Fail(c),
         call[c].by = Nobody
  PROVE  InGoodHands(o)'
<1>1. /\ call'[c] = Idle
      /\ \A d \in Calls \ {c} : call'[d] = call[d]
  BY DEF Fail, TypeOK
<1>2. UNCHANGED todo
  BY ConstantsAssumption DEF Fail, TodoAfterLosing, TypeOK
<1>3. ASSUME NEW d \in Calls
      PROVE  /\ Carries(d, o) => Carries(d, o)'
             /\ Completes(d, o)' => Completes(d, o) /\ call'[d].by = call[d].by
  BY <1>1, ConstantsAssumption DEF Carries, Completes, Idle
<1>4. QED
  BY <1>2, <1>3, SameHands

(* No step but a fault lets go of a delivering order: whoever drops it has *)
(* handed it on or completed it.                                           *)
LEMMA DropStep ==
  ASSUME TypeOK, CallShape, OwnerInv, [Next]_vars
  PROVE  DropsOnlyByFault
<1> SUFFICES ASSUME NEW o \in Orders, status'[o] = "delivering", ~ClaimedForNobody(o),
                    status[o] = "delivering" => InGoodHands(o), ~(faults' > faults)
             PROVE  InGoodHands(o)'
  BY DEF DropsOnlyByFault, UnderWay
<1>1. ASSUME NEW c \in Calls, NEW s \in Shoppers, NEW basket \in Requests,
             StartCreate(c, s, basket)
      PROVE  InGoodHands(o)'
  <2> DEFINE fields == [Idle EXCEPT !.op = "create", !.pc = "commit", !.by = s,
                                    !.work = BulkIds(basket)]
  <2>1. Start(c, s, fields) /\ UNCHANGED <<status, todo>>
    BY <1>1 DEF StartCreate
  <2>2. fields.op = "create"
    BY DEF Idle
  <2> HIDE DEF fields
  <2>3. QED
    BY <2>1, <2>2, StartKeepsHands
<1>2. ASSUME NEW c \in Calls, NEW r \in Robots, NEW k \in Capacities, StartPlan(c, r, k)
      PROVE  InGoodHands(o)'
  <2>1. PICK fields : Start(c, r, fields) /\ fields.op = "plan"
    BY <1>2, PlanStarts
  <2>2. UNCHANGED <<status, todo>>
    BY <1>2 DEF StartPlan, database
  <2>3. QED
    BY <2>1, <2>2, StartKeepsHands
<1>3. ASSUME NEW c \in Calls, NEW r \in Robots, NEW p \in Orders, StartStatus(c, r, p)
      PROVE  InGoodHands(o)'
  <2>1. PICK fields : Start(c, r, fields) /\ fields.pc = "exec"
    BY <1>3, StatusStarts
  <2>2. UNCHANGED <<status, todo>>
    BY <1>3 DEF StartStatus, database
  <2>3. QED
    BY <2>1, <2>2, StartKeepsHands
<1>4. ASSUME NEW c \in Calls, Select(c) \/ Update(c) \/ CachePlan(c) \/ Flush(c)
      PROVE  InGoodHands(o)'
  <2>1. UNCHANGED <<status, todo>>
    BY <1>4 DEF Select, Update, CachePlan, Flush, database
  <2>2. \A d \in Calls : call'[d].op = call[d].op /\ call'[d].by = call[d].by
    BY <1>4, MiddleStep
  <2>3. ASSUME NEW d \in Calls
        PROVE  /\ call[d].pc \in {"set", "reply"} /\ call[d].op = "plan" =>
                    call'[d].pc \in {"set", "reply"} /\ call'[d].work = call[d].work
               /\ call[d].op = "status" =>
                    /\ call'[d].work = call[d].work
                    /\ call'[d].pc \in {"flush", "reply"} => call[d].pc \in {"flush", "reply"}
    <3>1. CASE Select(c)
      BY <3>1 DEF Select, At, TypeOK, CallRecords
    <3>2. CASE Update(c)
      BY <3>2 DEF Update, Goto, At, TypeOK, CallRecords
    <3>3. CASE CachePlan(c)
      BY <3>3 DEF CachePlan, HasResult, Goto, At, TypeOK, CallRecords
    <3>4. CASE Flush(c)
      BY <3>4 DEF Flush, TypeOK, CallRecords
    <3>5. QED
      BY <1>4, <3>1, <3>2, <3>3, <3>4
  <2>4. ASSUME NEW d \in Calls
        PROVE  /\ Carries(d, o) => Carries(d, o)'
               /\ Completes(d, o)' => Completes(d, o) /\ call'[d].by = call[d].by
    BY <2>2, <2>3 DEF Carries, Completes
  <2>5. QED
    BY <2>1, <2>4, SameHands
<1>5. ASSUME NEW c \in Calls, Exec(c) \/ Commit(c)
      PROVE  InGoodHands(o)'
  BY <1>5, PublishKeepsHands
<1>6. ASSUME NEW c \in Calls, Reply(c)
      PROVE  InGoodHands(o)'
  <2>1. UNCHANGED status
    BY <1>6 DEF Reply, database
  <2>2. QED
    BY <1>6, <2>1, ReplyKeepsHands
<1>7. ASSUME NEW c \in Calls, Fail(c)
      PROVE  InGoodHands(o)'
  <2>1. call[c].by = Nobody /\ UNCHANGED status
    BY <1>7 DEF Fail, Fault, TypeOK
  <2>2. QED
    BY <1>7, <2>1, FailKeepsHands
<1>8. ASSUME Crash \/ \E c \in Calls : Leave(c)
      PROVE  FALSE
  <2>1. faults' = faults + 1
    BY <1>8 DEF Crash, Leave, Fault
  <2>2. faults \in Nat
    BY ConstantsAssumption DEF TypeOK
  <2>3. QED
    BY <2>1, <2>2
<1>9. ASSUME (\E k \in Capacities : Expire(k)) \/ UNCHANGED vars
      PROVE  InGoodHands(o)'
  <2>1. UNCHANGED <<status, todo, call>>
    BY <1>9 DEF Expire, database, vars
  <2>2. QED
    BY <2>1, SameHands DEF Carries, Completes
<1>10. QED
  BY <1>1, <1>2, <1>3, <1>4, <1>5, <1>6, <1>7, <1>8, <1>9
     DEF Next, CallStep, RobotMove, ShopperMove

-----------------------------------------------------------------------------
(* Each call has one client from the first state to the last. *)
LEMMA HandoverIInvInductive ==
  /\ Init => HandoverIInv
  /\ HandoverIInv /\ [Next]_vars => HandoverIInv'
<1>1. ASSUME Init
      PROVE  TypeOK /\ CallShape
  BY <1>1, InitType DEF Init, CallShape, Idle
<1>2. ASSUME Init
      PROVE  OwnerInv
  BY <1>2 DEF Init, OwnerInv, Idle
<1>3. HandoverIInv /\ [Next]_vars => HandoverIInv'
  BY NextType, CallShapeStep, OwnerStep DEF HandoverIInv
<1>4. QED
  BY <1>1, <1>2, <1>3 DEF HandoverIInv

(* However many robots, calls and faults there are, an order that is        *)
(* delivering leaves its last hands only at a fault, and enters delivering  *)
(* without any only when its plan commits for a robot that has gone         *)
(* (GenerateDeliveryPlan and the robot API of the scenarios).               *)
THEOREM DropsNeedFault == Spec => OrdersDroppedOnlyByFault
<1>1. HandoverIInv /\ [Next]_vars => DropsOnlyByFault
  BY DropStep DEF HandoverIInv
<1>2. QED
  BY <1>1, HandoverIInvInductive, PTL DEF Spec, OrdersDroppedOnlyByFault

-----------------------------------------------------------------------------
(* The life of an order: with one robot that never gives a request up, no   *)
(* two plans and no plan and report overlap.                                *)

OneRobot == \A r, q \in Robots : r = q
NobodyLeaves == "leave" \notin FaultKinds

AllHaveClients == \A c \in Calls : call[c].op # "none" => call[c].by # Nobody

(* Between its snapshot and its COMMIT a plan's orders stay as they were.   *)
PlansAreOfShipping ==
  \A c \in Calls : call[c].op = "plan" /\ call[c].pc \in {"update", "commit"} =>
    \A o \in call[c].work : status[o] = "shipping"

(* A status update is about one order. *)
ReportsOfOne ==
  \A c \in Calls : call[c].op = "status" => \E o \in Orders : call[c].work = {o}

LifecycleIInv == ClaimIInv /\ OwnerInv /\ AllHaveClients /\ ReportsOfOne /\ PlansAreOfShipping

(* Clients stay with their calls. *)
LEMMA AllHaveClientsStep ==
  ASSUME NobodyLeaves, TypeOK, CallShape, AllHaveClients, [Next]_vars
  PROVE  AllHaveClients'
<1>0. Idle.op = "none"
  BY DEF Idle
<1>1. ASSUME NEW c \in Calls, NEW client \in Clients, NEW fields,
             Start(c, client, fields), fields.by = client
      PROVE  AllHaveClients'
  <2>1. client # Nobody
    BY ConstantsAssumption DEF Clients
  <2>2. call'[c] = fields /\ \A d \in Calls \ {c} : call'[d] = call[d]
    BY <1>1, StartEffect
  <2> QED
    BY <1>1, <2>1, <2>2 DEF AllHaveClients
<1>2. ASSUME NEW c \in Calls, NEW s \in Shoppers, NEW basket \in Requests,
             StartCreate(c, s, basket)
      PROVE  AllHaveClients'
  <2> DEFINE fields == [Idle EXCEPT !.op = "create", !.pc = "commit", !.by = s,
                                    !.work = BulkIds(basket)]
  <2>1. Start(c, s, fields) /\ fields.by = s /\ s \in Clients
    BY <1>2 DEF StartCreate, Idle, Clients
  <2> HIDE DEF fields
  <2> QED
    BY <1>1, <2>1
<1>3. ASSUME NEW c \in Calls, NEW r \in Robots, NEW k \in Capacities, StartPlan(c, r, k)
      PROVE  AllHaveClients'
  BY <1>1, <1>3, PlanStarts DEF Clients
<1>4. ASSUME NEW c \in Calls, NEW r \in Robots, NEW o \in Orders, StartStatus(c, r, o)
      PROVE  AllHaveClients'
  BY <1>1, <1>4, StatusStarts DEF Clients
<1>5. ASSUME NEW c \in Calls,
             Select(c) \/ Update(c) \/ CachePlan(c) \/ Exec(c) \/ Commit(c) \/ Flush(c)
      PROVE  AllHaveClients'
  BY <1>5, MiddleStep DEF AllHaveClients
<1>6. ASSUME NEW c \in Calls, Reply(c) \/ Fail(c)
      PROVE  AllHaveClients'
  <2>1. \A d \in Calls : call'[d] = IF d = c THEN Idle ELSE call[d]
    BY <1>6 DEF Reply, Fail, TypeOK
  <2> QED
    BY <1>0, <2>1 DEF AllHaveClients
<1>7. ASSUME NEW c \in Calls, Leave(c)
      PROVE  AllHaveClients'
  BY <1>7 DEF Leave, Fault, NobodyLeaves
<1>8. CASE Crash
  BY <1>0, <1>8 DEF Crash, AllHaveClients
<1>9. CASE UNCHANGED call
  BY <1>9 DEF AllHaveClients
<1> QED
  BY <1>2, <1>3, <1>4, <1>5, <1>6, <1>7, <1>8, <1>9
     DEF Next, vars, CallStep, RobotMove, ShopperMove, Expire

(* Status updates keep their order. *)
LEMMA ReportsOfOneStep ==
  ASSUME TypeOK, ReportsOfOne, [Next]_vars
  PROVE  ReportsOfOne'
<1>1. ASSUME \A d \in Calls : call'[d].op = "status" =>
               call[d].op = "status" /\ call'[d].work = call[d].work
      PROVE  ReportsOfOne'
  BY <1>1 DEF ReportsOfOne
<1>2. ASSUME NEW c \in Calls, NEW client, NEW fields, Start(c, client, fields),
             fields.op = "status" => \E o \in Orders : fields.work = {o}
      PROVE  ReportsOfOne'
  <2>1. call'[c] = fields /\ \A d \in Calls \ {c} : call'[d] = call[d]
    BY <1>2, StartEffect
  <2> QED
    BY <1>2, <2>1 DEF ReportsOfOne
<1>3. ASSUME NEW c \in Calls, NEW s \in Shoppers, NEW basket \in Requests,
             StartCreate(c, s, basket)
      PROVE  ReportsOfOne'
  <2> DEFINE fields == [Idle EXCEPT !.op = "create", !.pc = "commit", !.by = s,
                                    !.work = BulkIds(basket)]
  <2>1. Start(c, s, fields) /\ fields.op = "create"
    BY <1>3 DEF StartCreate, Idle
  <2> HIDE DEF fields
  <2> QED
    BY <1>2, <2>1
<1>4. ASSUME NEW c \in Calls, NEW r \in Robots, NEW k \in Capacities, StartPlan(c, r, k)
      PROVE  ReportsOfOne'
  BY <1>2, <1>4, PlanStarts
<1>5. ASSUME NEW c \in Calls, NEW r \in Robots, NEW o \in Orders, StartStatus(c, r, o)
      PROVE  ReportsOfOne'
  <2> DEFINE fields == [Idle EXCEPT !.op = "status", !.pc = "exec", !.by = r, !.work = {o}]
  <2>1. Start(c, r, fields) /\ fields.work = {o}
    BY <1>5 DEF StartStatus, Idle
  <2> HIDE DEF fields
  <2> QED
    BY <1>2, <2>1
<1>6. ASSUME NEW c \in Calls, Select(c)
      PROVE  ReportsOfOne'
  <2>1. call'[c].op = "plan" /\ \A d \in Calls \ {c} : call'[d] = call[d]
    BY <1>6, SelectEffect
  <2> QED
    BY <1>1, <2>1
<1>7. ASSUME NEW c \in Calls, NEW pc, Goto(c, pc)
      PROVE  ReportsOfOne'
  <2>1. \A d \in Calls : call'[d].op = call[d].op /\ call'[d].work = call[d].work
    BY <1>7 DEF Goto, TypeOK, CallRecords
  <2> QED
    BY <1>1, <2>1
<1>8. ASSUME NEW c \in Calls, Flush(c) \/ Leave(c)
      PROVE  ReportsOfOne'
  <2>1. \A d \in Calls : call'[d].op = call[d].op /\ call'[d].work = call[d].work
    BY <1>8 DEF Flush, Leave, TypeOK, CallRecords
  <2> QED
    BY <1>1, <2>1
<1>9. ASSUME NEW S \in SUBSET Calls, \A d \in Calls : call'[d] = IF d \in S THEN Idle ELSE call[d]
      PROVE  ReportsOfOne'
  <2>1. Idle.op = "none"
    BY DEF Idle
  <2> QED
    BY <1>1, <1>9, <2>1
<1>10. ASSUME NEW c \in Calls, Reply(c) \/ Fail(c)
       PROVE  ReportsOfOne'
  <2>1. \A d \in Calls : call'[d] = IF d \in {c} THEN Idle ELSE call[d]
    BY <1>10 DEF Reply, Fail, TypeOK
  <2> QED
    BY <1>9, <2>1
<1>11. CASE Crash
  <2>1. \A d \in Calls : call'[d] = IF d \in Calls THEN Idle ELSE call[d]
    BY <1>11 DEF Crash
  <2> QED
    BY <1>9, <2>1
<1>12. CASE UNCHANGED call
  BY <1>1, <1>12
<1> QED
  BY <1>3, <1>4, <1>5, <1>6, <1>7, <1>8, <1>10, <1>11, <1>12
     DEF Next, vars, CallStep, RobotMove, ShopperMove, Expire, Update, CachePlan, Exec, Commit

(* Only one call at a time takes or completes orders. *)
LEMMA OneAtATime ==
  ASSUME OneRobot, OwnerInv, AllHaveClients, NEW c \in Calls, NEW d \in Calls,
         call[c].op \in {"plan", "status"}, call[d].op \in {"plan", "status"}
  PROVE  c = d
<1>1. /\ call[c].by # Nobody /\ call[d].by # Nobody
      /\ call[c].by \in Robots /\ call[d].by \in Robots
  BY DEF OwnerInv, AllHaveClients
<1>2. call[c].by = call[d].by
  BY <1>1 DEF OneRobot
<1> QED
  BY <1>1, <1>2 DEF OwnerInv

(* What becomes of the rows a step writes. *)
LEMMA WrittenRows ==
  ASSUME TypeOK, CallShape, NEW c \in Calls, Commit(c) \/ Exec(c)
  PROVE  /\ status' = [o \in Orders |-> IF o \in call[c].work THEN Outcome(call[c].op) ELSE status[o]]
         /\ \/ Commit(c) /\ call[c].op = "create" /\ Outcome(call[c].op) = "shipping"
            \/ Commit(c) /\ call[c].op = "plan" /\ Outcome(call[c].op) = "delivering"
            \/ Exec(c) /\ call[c].op = "status" /\ Outcome(call[c].op) = "completed"
<1>1. status' = [o \in Orders |-> IF o \in call[c].work THEN Outcome(call[c].op) ELSE status[o]]
  BY DEF Commit, Exec, Publish
<1>2. CASE Commit(c)
  BY <1>1, <1>2 DEF Commit, CallShape, TypeOK, CallRecords, Outcome
<1>3. CASE Exec(c)
  BY <1>1, <1>3 DEF Exec, At, Outcome
<1> QED
  BY <1>2, <1>3

(* A plan's orders stay shipping until it commits: of the calls that write  *)
(* in between only creates are left, and those write orders of their own.   *)
LEMMA PlansAreOfShippingStep ==
  ASSUME OneRobot, LifecycleIInv, [Next]_vars
  PROVE  PlansAreOfShipping'
<1> USE DEF LifecycleIInv, ClaimIInv
<1>1. ASSUME \A d \in Calls :
                call'[d].op = "plan" /\ call'[d].pc \in {"update", "commit"} =>
                  /\ call[d].op = "plan" /\ call[d].pc \in {"update", "commit"}
                  /\ call'[d].work = call[d].work
                  /\ \A o \in call[d].work : status'[o] = status[o]
      PROVE  PlansAreOfShipping'
  BY <1>1 DEF PlansAreOfShipping
<1>2. ASSUME NEW c \in Calls, NEW client, NEW fields, Start(c, client, fields),
             fields.op = "plan" => fields.pc \in {"select", "reply"},
             UNCHANGED status
      PROVE  PlansAreOfShipping'
  <2>1. call'[c] = fields /\ \A d \in Calls \ {c} : call'[d] = call[d]
    BY <1>2, StartEffect
  <2> QED
    BY <1>1, <1>2, <2>1
<1>3. ASSUME NEW c \in Calls, NEW s \in Shoppers, NEW basket \in Requests,
             StartCreate(c, s, basket)
      PROVE  PlansAreOfShipping'
  <2> DEFINE fields == [Idle EXCEPT !.op = "create", !.pc = "commit", !.by = s,
                                    !.work = BulkIds(basket)]
  <2>1. Start(c, s, fields) /\ fields.op = "create" /\ UNCHANGED status
    BY <1>3 DEF StartCreate, Idle
  <2> HIDE DEF fields
  <2> QED
    BY <1>2, <2>1
<1>4. ASSUME NEW c \in Calls, NEW r \in Robots, NEW k \in Capacities, StartPlan(c, r, k)
      PROVE  PlansAreOfShipping'
  <2>1. /\ call'[c].pc \in {"select", "reply"}
        /\ \A d \in Calls \ {c} : call'[d] = call[d]
        /\ UNCHANGED status
    BY <1>4 DEF StartPlan, Start, Idle, TypeOK, database
  <2> QED
    BY <1>1, <2>1
<1>5. ASSUME NEW c \in Calls, NEW r \in Robots, NEW o \in Orders, StartStatus(c, r, o)
      PROVE  PlansAreOfShipping'
  <2>1. UNCHANGED status
    BY <1>5 DEF StartStatus, database
  <2>2. PICK fields : Start(c, r, fields) /\ fields.op = "status"
    BY <1>5, StatusStarts
  <2> QED
    BY <1>2, <2>1, <2>2
<1>6. ASSUME NEW c \in Calls, Select(c)
      PROVE  PlansAreOfShipping'
  <2>1. UNCHANGED status
    BY <1>6 DEF Select, database
  <2>2. \A o \in call'[c].work : status[o] = "shipping"
    BY <1>6, SelectEffect DEF ShippingOrders
  <2>3. \A d \in Calls \ {c} : call'[d] = call[d]
    BY <1>6, SelectEffect
  <2> QED
    BY <2>1, <2>2, <2>3 DEF PlansAreOfShipping
<1>7. ASSUME NEW c \in Calls, Update(c)
      PROVE  PlansAreOfShipping'
  <2>1. /\ call[c].op = "plan" /\ call[c].pc = "update"
        /\ call'[c].op = "plan" /\ call'[c].work = call[c].work
        /\ \A d \in Calls \ {c} : call'[d] = call[d]
        /\ UNCHANGED status
    BY <1>7 DEF Update, At, Goto, TypeOK, CallRecords, database
  <2> QED
    BY <1>1, <2>1
<1>8. ASSUME NEW c \in Calls, CachePlan(c)
      PROVE  PlansAreOfShipping'
  <2>1. /\ call'[c].pc = "reply"
        /\ \A d \in Calls \ {c} : call'[d] = call[d]
        /\ UNCHANGED status
    BY <1>8 DEF CachePlan, Goto, TypeOK, CallRecords, database
  <2> QED
    BY <1>1, <2>1
<1>9. ASSUME NEW c \in Calls, Flush(c)
      PROVE  PlansAreOfShipping'
  <2>1. /\ UNCHANGED status
        /\ \A d \in Calls : /\ call'[d].op = call[d].op /\ call'[d].work = call[d].work
                            /\ d # c => call'[d].pc = call[d].pc
                            /\ d = c => call'[d].pc = "reply"
    BY <1>9 DEF Flush, TypeOK, CallRecords, database
  <2> QED
    BY <1>1, <2>1
<1>10. ASSUME NEW c \in Calls, Exec(c) \/ Commit(c)
       PROVE  PlansAreOfShipping'
  <2>1. /\ \A d \in Calls \ {c} : call'[d] = call[d]
        /\ call'[c].pc \in {"set", "flush"}
    BY <1>10 DEF Exec, Commit, Goto, AfterCommit, TypeOK, CallRecords
  <2>2. ASSUME NEW d \in Calls \ {c}, call[d].op = "plan", call[d].pc \in {"update", "commit"},
               NEW o \in call[d].work
        PROVE  status'[o] = status[o]
    <3>1. o \in Placed /\ o \in Orders
      BY <2>2 DEF ClaimInv, Placed
    <3>2. call[c].op = "create" /\ Commit(c)
      BY <1>10, <2>2, OneAtATime, WrittenRows
    <3>3. o \notin call[c].work
      BY <3>1, <3>2 DEF FreshIds, At, Commit
    <3> QED
      BY <1>10, <3>1, <3>3, WrittenRows
  <2> QED
    BY <1>1, <2>1, <2>2
<1>11. ASSUME NEW S \in SUBSET Calls, UNCHANGED status,
              \A d \in Calls : call'[d] = IF d \in S THEN Idle ELSE call[d]
       PROVE  PlansAreOfShipping'
  <2>1. Idle.op = "none"
    BY DEF Idle
  <2> QED
    BY <1>1, <1>11, <2>1
<1>12. ASSUME NEW c \in Calls, Reply(c) \/ Fail(c)
       PROVE  PlansAreOfShipping'
  <2>1. /\ \A d \in Calls : call'[d] = IF d \in {c} THEN Idle ELSE call[d]
        /\ UNCHANGED status
    BY <1>12 DEF Reply, Fail, TypeOK, database
  <2> QED
    BY <1>11, <2>1
<1>13. CASE Crash
  <2>1. /\ \A d \in Calls : call'[d] = IF d \in Calls THEN Idle ELSE call[d]
        /\ UNCHANGED status
    BY <1>13 DEF Crash
  <2> QED
    BY <1>11, <2>1
<1>14. ASSUME NEW c \in Calls, Leave(c)
       PROVE  PlansAreOfShipping'
  <2>1. /\ \A d \in Calls : /\ call'[d].op = call[d].op /\ call'[d].work = call[d].work
                            /\ call'[d].pc = call[d].pc
        /\ UNCHANGED status
    BY <1>14 DEF Leave, TypeOK, CallRecords, database
  <2> QED
    BY <1>1, <2>1
<1>15. CASE UNCHANGED <<status, call>>
  BY <1>1, <1>15
<1> QED
  BY <1>3, <1>4, <1>5, <1>6, <1>7, <1>8, <1>9, <1>10, <1>12, <1>13, <1>14, <1>15
     DEF Next, vars, CallStep, RobotMove, ShopperMove, Expire, database

(* Every step is a step of an order's life, or leaves every order alone.    *)
LEMMA LifecycleStep ==
  ASSUME LifecycleIInv, [Next]_vars
  PROVE  [Lifecycle!Next]_status
<1> USE DEF LifecycleIInv, ClaimIInv
<1>1. ASSUME NEW S \in SUBSET Orders, NEW from, NEW to,
             status' = [o \in Orders |-> IF o \in S THEN to ELSE status[o]],
             \A o \in S : status[o] = from
      PROVE  S # {} => Lifecycle!Advance(S, from, to)
  BY <1>1 DEF Lifecycle!Advance
<1>2. ASSUME NEW S \in SUBSET Orders, NEW to,
             status' = [o \in Orders |-> IF o \in S THEN to ELSE status[o]],
             \A o \in S : status[o] = to
      PROVE  UNCHANGED status
  <2>1. status' = [o \in Orders |-> status[o]]
    BY <1>2
  <2> QED
    BY <2>1 DEF TypeOK
<1>3. ASSUME NEW c \in Calls, Commit(c), call[c].op = "create"
      PROVE  [Lifecycle!Next]_status
  <2>1. /\ status' = [o \in Orders |-> IF o \in call[c].work THEN "shipping" ELSE status[o]]
        /\ call[c].work \in SUBSET Orders
    BY <1>3, WrittenRows DEF TypeOK, CallRecords
  <2>2. \A o \in call[c].work : status[o] = "absent"
    BY <1>3, <2>1 DEF Commit, FreshIds, At, Placed
  <2>3. CASE call[c].work = {}
    BY <1>2, <2>1, <2>3
  <2>4. CASE call[c].work # {}
    BY <1>1, <2>1, <2>2, <2>4 DEF Lifecycle!Next, Lifecycle!Place
  <2> QED
    BY <2>3, <2>4
<1>4. ASSUME NEW c \in Calls, Commit(c), call[c].op = "plan"
      PROVE  [Lifecycle!Next]_status
  <2>1. /\ status' = [o \in Orders |-> IF o \in call[c].work THEN "delivering" ELSE status[o]]
        /\ call[c].work \in SUBSET Orders
    BY <1>4, WrittenRows DEF TypeOK, CallRecords
  <2>2. \A o \in call[c].work : status[o] = "shipping"
    BY <1>4 DEF Commit, PlansAreOfShipping
  <2>3. CASE call[c].work = {}
    BY <1>2, <2>1, <2>3
  <2>4. CASE call[c].work # {}
    BY <1>1, <2>1, <2>2, <2>4 DEF Lifecycle!Next, Lifecycle!Take
  <2> QED
    BY <2>3, <2>4
<1>5. ASSUME NEW c \in Calls, Exec(c)
      PROVE  [Lifecycle!Next]_status
  <2>1. call[c].op = "status"
    BY <1>5 DEF Exec, At
  <2>2. status' = [o \in Orders |-> IF o \in call[c].work THEN "completed" ELSE status[o]]
    BY <1>5, <2>1, WrittenRows DEF Outcome
  <2>3. PICK o \in Orders : call[c].work = {o}
    BY <2>1 DEF ReportsOfOne
  <2>4. status[o] \in {"delivering", "completed"}
    BY <2>1, <2>3 DEF ClaimInv, Claimed
  <2>5. CASE status[o] = "completed"
    BY <1>2, <2>2, <2>3, <2>5
  <2>6. CASE status[o] = "delivering"
    BY <1>1, <2>2, <2>3, <2>6 DEF Lifecycle!Next, Lifecycle!Complete
  <2> QED
    BY <2>4, <2>5, <2>6
<1>6. CASE UNCHANGED status
  BY <1>6
<1> QED
  BY <1>3, <1>4, <1>5, <1>6, WrittenRows
     DEF Next, vars, CallStep, RobotMove, ShopperMove, Select, Update, CachePlan, Flush,
         Reply, Leave, Fail, Crash, Expire, StartPlan, StartStatus, StartCreate, database

(* Every step keeps the invariant of the life of an order. *)
LEMMA LifecycleIInvInductive ==
  ASSUME OneRobot, NobodyLeaves
  PROVE  /\ Init => LifecycleIInv
         /\ LifecycleIInv /\ [Next]_vars => LifecycleIInv'
<1>1. ASSUME Init
      PROVE  LifecycleIInv
  <2>1. ClaimIInv
    BY <1>1, ClaimIInvInductive
  <2>2. OwnerInv /\ AllHaveClients /\ ReportsOfOne /\ PlansAreOfShipping
    BY <1>1 DEF Init, OwnerInv, AllHaveClients, ReportsOfOne, PlansAreOfShipping, Idle
  <2> QED
    BY <2>1, <2>2 DEF LifecycleIInv
<1>2. ASSUME LifecycleIInv, [Next]_vars
      PROVE  LifecycleIInv'
  <2>1. ClaimIInv'
    BY <1>2, ClaimIInvInductive DEF LifecycleIInv
  <2>2. TypeOK /\ CallShape
    BY <1>2 DEF LifecycleIInv, ClaimIInv
  <2> QED
    BY <1>2, <2>1, <2>2, OwnerStep, AllHaveClientsStep, ReportsOfOneStep, PlansAreOfShippingStep
       DEF LifecycleIInv
<1> QED
  BY <1>1, <1>2

(* With one robot that waits for its answers, errors and restarts included, *)
(* the backend implements the life of an order of the order history page:   *)
(* placed once, taken once, completed once, nothing else.                   *)
THEOREM OneRobotKeepsLifecycle ==
  ASSUME OneRobot, NobodyLeaves
  PROVE  Spec => ImplementsLifecycle
<1>1. Init => Lifecycle!Init
  BY DEF Init, Lifecycle!Init
<1>2. LifecycleIInv /\ [Next]_vars => [Lifecycle!Next]_status
  BY LifecycleStep
<1> QED
  BY <1>1, <1>2, LifecycleIInvInductive, PTL DEF Spec, ImplementsLifecycle, Lifecycle!Spec

-----------------------------------------------------------------------------
(* Capacities: what is sent out with a robot fits it.                       *)

FitIInv == ClaimIInv /\ PlansFitCapacity

(* Orders are finitely many and have weights and values. *)
LEMMA OrdersWeigh ==
  ASSUME TypeOK, NEW S \in SUBSET Orders
  PROVE  /\ IsFiniteSet(S)
         /\ \A o \in S : WeightOf[o] \in Nat /\ ValueOf[o] \in Nat
<1>1. IsFiniteSet(Orders)
  BY ConstantsAssumption, FS_Interval DEF Orders
<1>2. \A o \in Orders : item[o] = NoProduct \/ item[o] \in Products
  BY DEF TypeOK
<1>3. \A o \in Orders : WeightOf[o] \in Nat /\ ValueOf[o] \in Nat
  BY <1>2, ConstantsAssumption DEF WeightOf, ValueOf
<1>4. IsFiniteSet(S)
  BY <1>1, FS_Subset
<1> QED
  BY <1>3, <1>4

SelectionPossible ==
  \A k \in Capacities : BestPlans(ShippingOrders(k), WeightOf, ValueOf, k) # {}

(* Whatever the table holds, selectOrdersForDelivery has a plan to return:  *)
(* no plan call is stuck at its selection.                                  *)
THEOREM SelectionHasOutcome == Spec => []SelectionPossible
<1>1. ASSUME TypeOK, NEW k \in Capacities
      PROVE  BestPlans(ShippingOrders(k), WeightOf, ValueOf, k) # {}
  <2>1. /\ IsFiniteSet(ShippingOrders(k))
        /\ \A o \in ShippingOrders(k) : WeightOf[o] \in Nat /\ ValueOf[o] \in Nat
    <3>1. ShippingOrders(k) \in SUBSET Orders
      BY DEF ShippingOrders
    <3> QED
      BY <1>1, <3>1, OrdersWeigh
  <2>2. k \in Nat
    BY <1>1, ConstantsAssumption
  <2> QED
    BY <2>1, <2>2, BestPlanExists
<1>2. TypeOK => SelectionPossible
  BY <1>1 DEF SelectionPossible
<1> QED
  BY <1>2, TypeCorrect, PTL

(* A placed order keeps its weight, so what fits keeps fitting, and so does *)
(* what is left of it.                                                      *)
LEMMA FitStays ==
  ASSUME TypeOK, TypeOK', RowsAdvance, NEW k \in Nat,
         NEW S \in SUBSET Placed, Fits(S, k), NEW R \in SUBSET S
  PROVE  Fits(R, k)'
<1>1. S \in SUBSET Orders /\ R \in SUBSET Orders
  BY DEF Placed
<1>2. /\ IsFiniteSet(S) /\ IsFiniteSet(R)
      /\ \A o \in S : WeightOf[o] \in Nat
  BY <1>1, OrdersWeigh
<1>3. TotalOf(WeightOf, R) <= TotalOf(WeightOf, S)
  BY <1>2, TotalMonotone
<1>4. TotalOf(WeightOf, R) = TotalOf(WeightOf', R)
  <2>1. \A o \in R : WeightOf[o] = WeightOf'[o]
    BY <1>1 DEF RowsAdvance, WeightOf
  <2> QED
    BY <1>2, <2>1, TotalAgrees
<1>5. TotalOf(WeightOf, R) \in Nat /\ TotalOf(WeightOf, S) \in Nat
  BY <1>2, TotalNat
<1> QED
  BY <1>3, <1>4, <1>5 DEF Fits

(* To carry nothing fits every robot. *)
LEMMA NothingFits == \A k \in Nat : Fits({}, k)
BY TotalEmpty DEF Fits

(* Every step keeps plans, cached plans and robots within their capacity. *)
LEMMA FitStep ==
  ASSUME FitIInv, TypeOK', RowsAdvance, [Next]_vars
  PROVE  PlansFitCapacity'
<1> USE DEF FitIInv, ClaimIInv
<1> DEFINE CallFits(c) == call[c].op = "plan" => Fits(call[c].work, call[c].cap)
           EntryFits(k) == cache[k] # NoPlan => Fits(cache[k].orders, k)
           RobotFits(r) == todo[r] # {} => \E k \in Capacities : Fits(todo[r], k)
<1>0. \A k \in Capacities : k \in Nat
  BY ConstantsAssumption
<1>1. \A c \in Calls : CallFits(c) /\ (call[c].op = "plan" =>
        call[c].work \subseteq Placed /\ call[c].cap \in Capacities)
  BY DEF PlansFitCapacity, ClaimInv, CallShape
<1>2. \A k \in Capacities : EntryFits(k) /\ (cache[k] # NoPlan => cache[k].orders \subseteq Placed)
  BY DEF PlansFitCapacity, ClaimInv, Claimed, Placed
<1>3. \A r \in Robots : RobotFits(r) /\ todo[r] \subseteq Placed
  BY DEF PlansFitCapacity, ClaimInv, Claimed, Placed
<1>4. ASSUME NEW c \in Calls,
             call'[c].op = "plan" =>
               call[c].op = "plan" /\ call'[c].work = call[c].work /\ call'[c].cap = call[c].cap
      PROVE  CallFits(c)'
  BY <1>0, <1>1, <1>4, FitStays
<1>5. ASSUME NEW k \in Capacities, cache'[k] \in {cache[k], NoPlan}
      PROVE  EntryFits(k)'
  BY <1>0, <1>2, <1>5, FitStays
<1>6. ASSUME NEW r \in Robots, todo'[r] \subseteq todo[r]
      PROVE  RobotFits(r)'
  BY <1>0, <1>3, <1>6, FitStays
<1> HIDE DEF CallFits, EntryFits, RobotFits
<1>7. ASSUME NEW c \in Calls, NEW client, NEW fields, Start(c, client, fields),
             fields.op = "plan" =>
               /\ fields.cap \in Capacities
               /\ \/ fields.work = {}
                  \/ cache[fields.cap] # NoPlan /\ fields.work = cache[fields.cap].orders,
             UNCHANGED <<cache, todo>>
      PROVE  PlansFitCapacity'
  <2>1. call'[c] = fields /\ \A d \in Calls \ {c} : call'[d] = call[d]
    BY <1>7, StartEffect
  <2>2. CallFits(c)'
    <3>1. ASSUME fields.op = "plan"
          PROVE  Fits(fields.work, fields.cap)'
      <4>1. CASE fields.work = {}
        BY <1>0, <1>7, <3>1, <4>1, NothingFits, FitStays
      <4>2. CASE cache[fields.cap] # NoPlan /\ fields.work = cache[fields.cap].orders
        BY <1>0, <1>2, <1>7, <3>1, <4>2, FitStays DEF EntryFits
      <4> QED
        BY <1>7, <3>1, <4>1, <4>2
    <3> QED
      BY <2>1, <3>1 DEF CallFits
  <2> QED
    BY <1>4, <1>5, <1>6, <1>7, <2>1, <2>2 DEF PlansFitCapacity, CallFits, EntryFits, RobotFits
<1>8. ASSUME NEW c \in Calls, NEW s \in Shoppers, NEW basket \in Requests,
             StartCreate(c, s, basket)
      PROVE  PlansFitCapacity'
  <2> DEFINE fields == [Idle EXCEPT !.op = "create", !.pc = "commit", !.by = s,
                                    !.work = BulkIds(basket)]
  <2>1. Start(c, s, fields) /\ fields.op = "create" /\ UNCHANGED <<cache, todo>>
    BY <1>8 DEF StartCreate, Idle
  <2> HIDE DEF fields
  <2> QED
    BY <1>7, <2>1
<1>9. ASSUME NEW c \in Calls, NEW r \in Robots, NEW k \in Capacities, StartPlan(c, r, k)
      PROVE  PlansFitCapacity'
  <2> DEFINE hit == [Idle EXCEPT !.op = "plan", !.pc = "reply", !.by = r, !.cap = k,
                                 !.work = cache[k].orders, !.raced = cache[k].raced]
             miss == [Idle EXCEPT !.op = "plan", !.pc = "select", !.by = r, !.cap = k]
  <2>1. /\ hit.cap = k /\ hit.work = cache[k].orders
        /\ miss.cap = k /\ miss.work = {}
    BY DEF Idle
  <2>2. /\ IF cache[k] # NoPlan THEN Start(c, r, hit) ELSE Start(c, r, miss)
        /\ UNCHANGED <<cache, todo>>
    BY <1>9 DEF StartPlan
  <2> HIDE DEF hit, miss
  <2> QED
    BY <1>7, <2>1, <2>2
<1>10. ASSUME NEW c \in Calls, NEW r \in Robots, NEW o \in Orders, StartStatus(c, r, o)
       PROVE  PlansFitCapacity'
  <2>1. UNCHANGED <<cache, todo>>
    BY <1>10 DEF StartStatus
  <2> QED
    BY <1>7, <1>10, <2>1, StatusStarts
<1>11. ASSUME NEW c \in Calls, Select(c)
       PROVE  PlansFitCapacity'
  <2>1. PICK P \in BestPlans(ShippingOrders(call[c].cap), WeightOf, ValueOf, call[c].cap) :
          call'[c].work = P
    BY <1>11 DEF Select, TypeOK
  <2>2. call'[c].cap = call[c].cap /\ call[c].cap \in Capacities
    BY <1>1, <1>11, SelectEffect DEF Select, At
  <2>3. P \subseteq Placed /\ Fits(P, call[c].cap)
    BY BestPlanFits DEF Fits, ShippingOrders, Placed
  <2>4. CallFits(c)'
    BY <1>0, <2>1, <2>2, <2>3, FitStays DEF CallFits
  <2>5. \A d \in Calls \ {c} : call'[d] = call[d]
    BY <1>11, SelectEffect
  <2>6. UNCHANGED <<cache, todo>>
    BY <1>11 DEF Select
  <2> QED
    BY <1>4, <1>5, <1>6, <2>4, <2>5, <2>6 DEF PlansFitCapacity, CallFits, EntryFits, RobotFits
<1>12. ASSUME NEW c \in Calls, CachePlan(c)
       PROVE  PlansFitCapacity'
  <2>1. PICK k \in Capacities, P \in SUBSET Placed :
          /\ k = call[c].cap /\ P = call[c].work
          /\ Fits(P, k)
    BY <1>1, <1>12 DEF CachePlan, HasResult, At, CallFits
  <2>2. /\ cache'[k].orders = P
        /\ \A j \in Capacities \ {k} : cache'[j] = cache[j]
    BY <1>12, <2>1 DEF CachePlan, TypeOK
  <2>3. EntryFits(k)'
    BY <1>0, <2>1, <2>2, FitStays DEF EntryFits
  <2>4. \A j \in Capacities : EntryFits(j)'
    BY <1>5, <2>2, <2>3
  <2>5. \A d \in Calls : /\ call'[d].op = call[d].op
                         /\ call'[d].work = call[d].work
                         /\ call'[d].cap = call[d].cap
    BY <1>12 DEF CachePlan, Goto, TypeOK, CallRecords
  <2>6. UNCHANGED todo
    BY <1>12 DEF CachePlan
  <2> QED
    BY <1>4, <1>6, <2>4, <2>5, <2>6 DEF PlansFitCapacity, CallFits, EntryFits, RobotFits
<1>13. ASSUME NEW c \in Calls, Reply(c)
       PROVE  PlansFitCapacity'
  <2>1. /\ \A d \in Calls : call'[d] = IF d = c THEN Idle ELSE call[d]
        /\ UNCHANGED cache
        /\ \A r \in Robots :
             IF r = call[c].by /\ call[c].op = "plan" THEN todo'[r] = call[c].work
             ELSE todo'[r] \subseteq todo[r]
    BY <1>13 DEF Reply, TypeOK
  <2>2. ASSUME NEW r \in Robots
        PROVE  RobotFits(r)'
    <3>1. ASSUME call[c].op = "plan", todo'[r] = call[c].work
          PROVE  RobotFits(r)'
      <4>1. PICK k \in Capacities, P \in SUBSET Placed : todo'[r] = P /\ Fits(P, k)
        BY <1>1, <3>1 DEF CallFits
      <4>2. Fits(P, k)'
        BY <1>0, <4>1, FitStays
      <4> QED
        BY <4>1, <4>2 DEF RobotFits
    <3> QED
      BY <1>6, <2>1, <3>1
  <2>3. \A d \in Calls : CallFits(d)'
    BY <1>4, <2>1 DEF Idle
  <2> QED
    BY <1>5, <2>1, <2>2, <2>3 DEF PlansFitCapacity, CallFits, EntryFits, RobotFits
<1>14. ASSUME \A d \in Calls : /\ call'[d].op = "plan" => call[d].op = "plan"
                               /\ call'[d].op = "plan" => call'[d].work = call[d].work
                               /\ call'[d].op = "plan" => call'[d].cap = call[d].cap,
              \A k \in Capacities : cache'[k] \in {cache[k], NoPlan},
              \A r \in Robots : todo'[r] \subseteq todo[r]
       PROVE  PlansFitCapacity'
  BY <1>4, <1>5, <1>6, <1>14 DEF PlansFitCapacity, CallFits, EntryFits, RobotFits
<1>15. ASSUME NEW c \in Calls, Update(c) \/ Exec(c) \/ Commit(c) \/ Leave(c)
       PROVE  PlansFitCapacity'
  <2>1. \A d \in Calls : /\ call'[d].op = call[d].op
                         /\ call'[d].work = call[d].work
                         /\ call'[d].cap = call[d].cap
    BY <1>15 DEF Update, Exec, Commit, Leave, Goto, TypeOK, CallRecords
  <2>2. UNCHANGED cache /\ \A r \in Robots : todo'[r] \subseteq todo[r]
    BY <1>15 DEF Update, Exec, Commit, Leave, TodoAfterLosing, TypeOK
  <2> QED
    BY <1>14, <2>1, <2>2
<1>16. ASSUME NEW c \in Calls, Flush(c)
       PROVE  PlansFitCapacity'
  <2>1. \A d \in Calls : /\ call'[d].op = call[d].op
                         /\ call'[d].work = call[d].work
                         /\ call'[d].cap = call[d].cap
    BY <1>16 DEF Flush, TypeOK, CallRecords
  <2>2. UNCHANGED todo /\ \A k \in Capacities : cache'[k] = NoPlan
    BY <1>16 DEF Flush, DropEveryEntry
  <2> QED
    BY <1>14, <2>1, <2>2
<1>17. ASSUME NEW c \in Calls, Fail(c)
       PROVE  PlansFitCapacity'
  <2>1. \A d \in Calls : call'[d] = IF d = c THEN Idle ELSE call[d]
    BY <1>17 DEF Fail, TypeOK
  <2>2. UNCHANGED cache /\ \A r \in Robots : todo'[r] \subseteq todo[r]
    BY <1>17 DEF Fail, TodoAfterLosing, TypeOK
  <2> QED
    BY <1>14, <2>1, <2>2 DEF Idle
<1>18. CASE Crash
  <2>1. /\ \A d \in Calls : call'[d] = Idle
        /\ \A k \in Capacities : cache'[k] = NoPlan
        /\ \A r \in Robots : todo'[r] \subseteq todo[r]
    BY <1>18 DEF Crash, TodoAfterLosing, TypeOK
  <2> QED
    BY <1>14, <2>1 DEF Idle
<1>19. ASSUME NEW k \in Capacities, Expire(k)
       PROVE  PlansFitCapacity'
  BY <1>14, <1>19 DEF Expire, TypeOK
<1>20. CASE UNCHANGED vars
  BY <1>14, <1>20 DEF vars
<1> QED
  BY <1>8, <1>9, <1>10, <1>11, <1>12, <1>13, <1>15, <1>16, <1>17, <1>18, <1>19, <1>20
     DEF Next, CallStep, RobotMove, ShopperMove

(* The capacities are kept from the first state on. *)
LEMMA FitIInvInductive ==
  /\ Init => FitIInv
  /\ FitIInv /\ [Next]_vars => FitIInv'
<1>1. ASSUME Init
      PROVE  FitIInv
  BY <1>1, ClaimIInvInductive DEF FitIInv, PlansFitCapacity, Init, Idle
<1>2. ASSUME FitIInv, [Next]_vars
      PROVE  FitIInv'
  <2>1. ClaimIInv'
    BY <1>2, ClaimIInvInductive DEF FitIInv
  <2>2. RowsAdvance
    BY <1>2, RowsAdvanceStep DEF FitIInv, ClaimIInv
  <2>3. TypeOK'
    BY <2>1 DEF ClaimIInv
  <2> QED
    BY <1>2, <2>1, <2>2, <2>3, FitStep DEF FitIInv
<1> QED
  BY <1>1, <1>2

(* Whatever is computed, cached, handed on, rolled back or lost, no robot   *)
(* has more to carry than it can.                                           *)
THEOREM NobodyOverloaded == Spec => []PlansFitCapacity
<1>1. FitIInv => PlansFitCapacity
  BY DEF FitIInv
<1> QED
  BY <1>1, FitIInvInductive, PTL DEF Spec
=============================================================================
