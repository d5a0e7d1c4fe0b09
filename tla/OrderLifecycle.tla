--------------------------- MODULE OrderLifecycle ---------------------------
(***************************************************************************)
(* What an order goes through, as the order history page shows it          *)
(* (shipping, delivering, completed): each order is placed once, taken by  *)
(* a robot once and completed once, and nothing else ever happens to it.   *)
(***************************************************************************)
CONSTANT Orders

VARIABLE stage

Init == stage = [o \in Orders |-> "absent"]

Advance(S, from, to) ==
  /\ S # {}
  /\ \A o \in S : stage[o] = from
  /\ stage' = [o \in Orders |-> IF o \in S THEN to ELSE stage[o]]

(* A shopper's basket becomes orders. *)
Place(S) == Advance(S, "absent", "shipping")

(* A robot takes the orders of a delivery plan that nobody has taken yet. *)
Take(S) == Advance(S, "shipping", "delivering")

(* The robot that took it has delivered an order. *)
Complete(o) == Advance({o}, "delivering", "completed")

Next == \/ \E S \in SUBSET Orders : Place(S) \/ Take(S)
        \/ \E o \in Orders : Complete(o)

Spec == Init /\ [][Next]_stage
=============================================================================
