----------------------------- MODULE MCKnapsack -----------------------------
(* Catalogues that meet the boundaries of the code: a product without      *)
(* weight, one without value, one that weighs as much as the robot         *)
(* carries or more, weights that do not divide the capacity.               *)
EXTENDS Knapsack

Good(weight, value) == [weight |-> weight, value |-> value]

MCCatalogues ==
  { <<Good(1, 1), Good(2, 3)>>,
    <<Good(2, 3), Good(3, 5)>>,
    <<Good(0, 1), Good(3, 2)>>,
    <<Good(1, 0), Good(4, 1)>>,
    <<Good(3, 2), Good(5, 4)>> }

MCCapacities == 0..6
=============================================================================
