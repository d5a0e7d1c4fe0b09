--------------------------- MODULE MCOrderHistory ---------------------------
(* Two orders, the first of the product the search text "milk" matches and *)
(* second in the alphabet; pages of one and of two orders.                 *)
EXTENDS OrderHistory, TLC

MCOrders == {1, 2}
MCSearches == {"", "milk"}
MCHits == "" :> MCOrders @@ "milk" :> {1}
MCNameRank == 1 :> 2 @@ 2 :> 1
MCFirstView == [search |-> "", field |-> "order_id", order |-> "desc",
                size |-> 1, page |-> 1]
=============================================================================
