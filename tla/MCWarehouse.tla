---- MODULE MCWarehouse ----
(***************************************************************************)
(* The eight source tables, with the rows that make the rules, the         *)
(* deduplication and the joins differ: duplicates, ties, blanks, values    *)
(* that cannot be read, lines of a quarantined order, a product nobody     *)
(* lists.  The second upload moves an order back in time, changes a status *)
(* and brings an order and a person nobody knew.                           *)
(***************************************************************************)
EXTENDS Warehouse

AllTables == <<"customers", "orders", "order_items", "order_payments", "order_reviews",
               "products", "sellers", "product_category_translation">>

Plain(text) == <<text, "plain">>
Padded(text) == <<text, "padded">>

Customer(id, person, state) ==
    [customer_id |-> id, customer_unique_id |-> person, customer_state |-> state]

Order_(id, customer, status, purchased, delivered) ==
    [order_id |-> id, customer_id |-> customer, order_status |-> status,
     order_purchase_timestamp |-> purchased, order_delivered_customer_date |-> delivered]

Item(order, item, product, price) ==
    [order_id |-> order, order_item_id |-> item, product_id |-> product,
     seller_id |-> IF product = "pen" THEN "s1" ELSE NULL, price |-> price,
     freight_value |-> 1]

Payment(order, type, value) ==
    [order_id |-> order, payment_sequential |-> 1, payment_type |-> type,
     payment_installments |-> 1, payment_value |-> value]

Review(id, score, answered) ==
    [review_id |-> id, order_id |-> "o1", review_score |-> score,
     review_answer_timestamp |-> answered]

Product(id, category, weight) ==
    [product_id |-> id, product_category_name |-> category, product_weight_g |-> weight]

First ==
    [customers |-> {Customer("c1", "ana", Plain("sp")), Customer("c2", "bia", Padded("rio")),
                    Customer("c3", NULL, Plain("sp"))},
     orders |-> {Order_("o1", "c1", Padded("delivered"), 2, 1),
                 Order_("o1", "c1", Plain("created"), Unreadable, NULL),
                 Order_("o2", "c2", Plain("shipped"), 3, NULL),
                 Order_("o3", "c3", Plain("lost"), 3, NULL)},
     order_items |-> {Item("o1", 1, "pen", 5), Item("o1", 2, "cup", 7),
                      Item("o2", 1, "pen", Unreadable),
                      Item("o2", 2, "pen", 3),
                      Item("o3", 1, "pen", 2)},
     order_payments |-> {Payment("o1", Plain("boleto"), 14), Payment("o2", Plain(""), 4),
                         Payment("o3", Plain("voucher"), 3)},
     order_reviews |-> {Review("r1", 6, 4), Review("r1", 5, Unreadable), Review("r2", 4, 4), Review("r2", 3, 4)},
     products |-> {Product("pen", Padded("papelaria"), NULL), Product("ink", Plain(""), -1)},
     sellers |-> {[seller_id |-> "s1"]},
     product_category_translation |->
        {[product_category_name |-> Plain("papelaria"),
          product_category_name_english |-> Plain("stationery")]}]

Second ==
    [First EXCEPT
        !.customers = @ \cup {Customer("c4", "eva", Plain("sp"))},
        !.orders = {Order_("o1", "c1", Plain("delivered"), 1, 1),
                    Order_("o2", "c2", Plain("canceled"), 3, NULL),
                    Order_("o3", "c3", Plain("approved"), 3, NULL),
                    Order_("o4", "c4", Plain("created"), 4, NULL),
                    Order_("o5", "c1", Plain("created"), 1, NULL)},
        !.order_reviews = {Review("r2", 3, 5)},
        !.products = {Product("pen", Plain("brinquedos"), 2), Product("cup", Plain(""), NULL)}]

TwoUploads == {First, Second}

(* Of two failures one is in gold_facts, where a run that is repaired late *)
(* reads what another has left: the bound on which histories are explored. *)
OneInGoldFacts == failures = 2 => \E r \in Runs : stopped[r] = "gold_facts"

AnyRun == Permutations(Runs)
====
