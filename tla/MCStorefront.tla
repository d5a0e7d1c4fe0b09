---------------------------- MODULE MCStorefront ----------------------------
(* A catalogue of two products of equal price, one of which matches the    *)
(* search text "milk"; pages of one and of two products.                   *)
EXTENDS Storefront, TLC

MCProducts == {1, 2}
MCSearches == {"", "milk"}
MCHits == "" :> MCProducts @@ "milk" :> {2}
MCKey == "product_id" :> [p \in MCProducts |-> p] @@ "value" :> [p \in MCProducts |-> 1]
MCSortFields == {"product_id", "value"}
MCFirstView == [search |-> "", field |-> "product_id", order |-> "asc",
                size |-> 1, page |-> 1]
=============================================================================
