---- MODULE MCBronzeSilver ----
(***************************************************************************)
(* The table the probe writes to and one without rules.  The file is like  *)
(* the real data, where no reject rule fires; its price of 0 is a boundary *)
(* of one.                                                                 *)
(***************************************************************************)
EXTENDS BronzeSilver

MCTables == <<"order_items", "product_category_translation">>

Item(order, item, price) ==
    [order_id |-> order, order_item_id |-> item, product_id |-> "prod", seller_id |-> "sell",
     price |-> price, freight_value |-> 0]

CleanFiles ==
    [t \in TableNames |->
        IF t = "order_items" THEN {Item("o1", 1, 0), Item("o1", 2, 7)}
        ELSE {[product_category_name |-> <<"brinquedos", "plain">>,
               product_category_name_english |-> <<"toys", "plain">>]}]

OneUpload == {CleanFiles}

AnyRun == Permutations(Runs)
====
