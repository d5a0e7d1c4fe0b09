----------------------------- MODULE MCDispatch -----------------------------
(* Small instances of Dispatch: light and heavy goods, robots that carry   *)
(* one of each.                                                            *)
EXTENDS Dispatch, TLC

CONSTANTS light, heavy

MCProducts == {light, heavy}
MCWeight == light :> 1 @@ heavy :> 2
MCValue == light :> 2 @@ heavy :> 3

(* Baskets: one order, or one and two orders. *)
SingleBaskets == {<<light>>, <<heavy>>}
PairBaskets == {<<heavy>>, <<light, heavy>>}

OneRobotSize == {3}

Symmetry == Permutations(Calls) \cup Permutations(Robots)
=============================================================================
