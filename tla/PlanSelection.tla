--------------------------- MODULE PlanSelection ---------------------------
(***************************************************************************)
(* What a delivery plan promises, whatever way it is computed: the orders  *)
(* fit the robot's capacity and no other set of orders that fits is worth  *)
(* more.  selectOrdersForDelivery (service/robot.go) is the code that has  *)
(* to keep the promise; Dispatch relies on it and Knapsack checks that the *)
(* dynamic programme keeps it.                                             *)
(***************************************************************************)
EXTENDS Integers, FiniteSets, FiniteSetsExt

(* The total of an attribute (a function on orders) over a set of orders. *)
TotalOf(attr, S) == MapThenSumSet(LAMBDA o : attr[o], S)

(* Mutant: each order fits by itself, as GetShippingOrders has it. *)
EachOrderFits(S, weight, value, capacity) ==
  {P \in SUBSET {o \in S : value[o] > 0} : \A o \in P : weight[o] <= capacity}

(* The plans a robot of the given capacity may carry.  An order without    *)
(* value never improves a plan, so the comparison of the dynamic programme *)
(* never takes one.                                                        *)
FeasiblePlans(S, weight, value, capacity) ==
  {P \in SUBSET {o \in S : value[o] > 0} : TotalOf(weight, P) <= capacity}

(* The feasible plans of the greatest value; ties are left open. *)
BestPlans(S, weight, value, capacity) ==
  LET feasible == FeasiblePlans(S, weight, value, capacity)
  IN  {P \in feasible :
         \A Q \in feasible : TotalOf(value, Q) <= TotalOf(value, P)}
=============================================================================
