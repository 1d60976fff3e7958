-------------------------------- MODULE DqRules --------------------------------
(***************************************************************************)
(* The registry of data-quality rules (src/src/silver/dq.py) and what each *)
(* predicate says of a typed row, in SQL's three truth values.             *)
(***************************************************************************)
EXTENDS SourceTables

VALID_ORDER_STATUSES == {"delivered", "shipped", "canceled", "unavailable",
                         "invoiced", "processing", "created", "approved"}

VALID_PAYMENT_TYPES == {"credit_card", "boleto", "voucher", "debit_card", "not_defined"}

(* What each rule of a kind asks of which column.                          *)
Registry(entries) == [rule \in {e[1] : e \in entries} |-> (CHOOSE e \in entries : e[1] = rule)[2]]

(* col IS NOT NULL *)
NotNull == Registry({
    <<"orders.order_id_not_null", "order_id">>,
    <<"orders.customer_id_not_null", "customer_id">>,
    <<"orders.purchase_ts_not_null", "order_purchase_timestamp">>,
    <<"order_items.order_id_not_null", "order_id">>,
    <<"order_items.product_id_not_null", "product_id">>,
    <<"order_payments.order_id_not_null", "order_id">>,
    <<"customers.customer_id_not_null", "customer_id">>,
    <<"customers.unique_id_not_null", "customer_unique_id">>,
    <<"products.product_id_not_null", "product_id">>,
    <<"products.category_present", "product_category_name">>,
    <<"sellers.seller_id_not_null", "seller_id">>,
    <<"order_reviews.review_id_not_null", "review_id">>})

(* col >= a constant *)
AtLeast == Registry({
    <<"order_items.price_non_negative", <<"price", 0>>>>,
    <<"order_items.freight_non_negative", <<"freight_value", 0>>>>,
    <<"order_items.item_sequence_positive", <<"order_item_id", 1>>>>,
    <<"order_payments.payment_value_non_negative", <<"payment_value", 0>>>>,
    <<"order_payments.installments_non_negative", <<"payment_installments", 0>>>>})

(* col IN a list *)
InDomain == Registry({
    <<"orders.status_in_domain", <<"order_status", VALID_ORDER_STATUSES>>>>,
    <<"order_payments.payment_type_in_domain", <<"payment_type", VALID_PAYMENT_TYPES>>>>,
    <<"order_reviews.score_in_range", <<"review_score", 1 .. 5>>>>})

(* rules_for: an unknown table has none. *)
Rules == [
    orders |-> {"orders.order_id_not_null", "orders.customer_id_not_null",
                "orders.status_in_domain", "orders.purchase_ts_not_null",
                "orders.delivery_after_purchase"},
    order_items |-> {"order_items.order_id_not_null", "order_items.product_id_not_null",
                     "order_items.price_non_negative", "order_items.freight_non_negative",
                     "order_items.item_sequence_positive"},
    order_payments |-> {"order_payments.order_id_not_null",
                        "order_payments.payment_value_non_negative",
                        "order_payments.payment_type_in_domain",
                        "order_payments.installments_non_negative"},
    customers |-> {"customers.customer_id_not_null", "customers.unique_id_not_null",
                   "customers.state_two_letters"},
    products |-> {"products.product_id_not_null", "products.weight_non_negative",
                  "products.category_present"},
    sellers |-> {"sellers.seller_id_not_null"},
    order_reviews |-> {"order_reviews.review_id_not_null", "order_reviews.score_in_range"}]

RulesFor(t) == IF t \in DOMAIN Rules THEN Rules[t] ELSE {}

WarnRules == {"orders.delivery_after_purchase", "customers.state_two_letters",
              "products.category_present"}

RejectRules(t) == RulesFor(t) \ WarnRules

(* A comparison with NULL is NULL. *)
Truth(p) == IF p THEN "true" ELSE "false"

Compare(value, p) == IF value = NULL THEN "null" ELSE Truth(p)

Predicate(rule, row) ==
    CASE rule \in DOMAIN NotNull -> Truth(row[NotNull[rule]] # NULL)
      [] rule \in DOMAIN AtLeast ->
            LET value == row[AtLeast[rule][1]] IN Compare(value, value >= AtLeast[rule][2])
      [] rule \in DOMAIN InDomain ->
            LET value == row[InDomain[rule][1]] IN Compare(value, value \in InDomain[rule][2])
      [] rule = "customers.state_two_letters" ->
            Compare(row.customer_state, Len(row.customer_state) = 2)
      [] rule = "products.weight_non_negative" ->
            Truth(row.product_weight_g = NULL \/ row.product_weight_g >= 0)
      [] rule = "orders.delivery_after_purchase" ->
            IF row.order_delivered_customer_date = NULL THEN "true"
            ELSE Compare(row.order_purchase_timestamp,
                         row.order_delivered_customer_date >= row.order_purchase_timestamp)
=============================================================================
