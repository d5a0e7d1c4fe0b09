--------------------------- MODULE MCEdgeDispatch ---------------------------
(* Instances of EdgeDispatch, with the goods and robots of MCDispatch. *)
EXTENDS EdgeDispatch, MCDispatch

(* Baskets: nothing, one order, two orders of different products. *)
EdgeBaskets == {<<>>, <<light>>, <<light, heavy>>}
=============================================================================
