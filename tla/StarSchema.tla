------------------------------ MODULE StarSchema ------------------------------
(***************************************************************************)
(* The gold tables as functions of the silver tables S and of the gold     *)
(* tables G there are already (src/src/gold/dims.py, facts.py), with the   *)
(* keys that tie them together.  Measures other than revenue, and columns  *)
(* no key or check depends on, are left out.  dim_customer is as the seed  *)
(* leaves it; CustomerDim models what the change feed does to it.          *)
(***************************************************************************)
EXTENDS SourceTables, FiniteSetsExt

CONSTANT SlackDays   \* how far dim_date reaches beyond the last order: 365

ASSUME SlackIsNumber == SlackDays \in Nat

UNKNOWN == "unknown"

(* xxhash64, taken to be injective; the hash of NULL is a value, not NULL. *)
Hash(key) == <<key>>

Rows(S, t) == {r.src : r \in S[t]}

(* A left join keeps the row when nothing matches. *)
InnerJoin(matches, column) == {m[column] : m \in matches}   \* a bug: JOIN for LEFT JOIN

LeftJoin(matches, column) ==
    IF matches = {} THEN {NULL} ELSE {m[column] : m \in matches}

PurchaseTimes(S) == {o.order_purchase_timestamp : o \in Rows(S, "orders")}

DimDate(S) == {[date_sk |-> d] : d \in Min(PurchaseTimes(S)) .. Max(PurchaseTimes(S)) + SlackDays}

(* seed_dim_customer: from the person's first order, floored at the        *)
(* beginning of time when there is none.                                   *)
OrdersOf(S, uid) ==
    {o \in Rows(S, "orders") :
        \E c \in Rows(S, "customers") :
            c.customer_unique_id = uid /\ c.customer_id = o.customer_id}

LatestOrder(S, uid) ==   \* a bug: the wrong end of the person's orders
    Max({0} \cup {o.order_purchase_timestamp : o \in OrdersOf(S, uid)})

FirstOrder(S, uid) ==
    IF OrdersOf(S, uid) = {} THEN 0
    ELSE Min({o.order_purchase_timestamp : o \in OrdersOf(S, uid)})

SeededCustomers(S) ==
    {[customer_sk |-> Hash(<<uid, FirstOrder(S, uid)>>), customer_unique_id |-> uid,
      effective_from |-> FirstOrder(S, uid)] :
        uid \in {c.customer_unique_id : c \in Rows(S, "customers")}}

(* A no-op once the table holds rows. *)
DimCustomer(S, G) ==
    IF "dim_customer" \in DOMAIN G /\ G["dim_customer"] # {} THEN G["dim_customer"]
    ELSE SeededCustomers(S)

DimProduct(S) ==
    UNION {{[product_sk |-> Hash(p.product_id), product_id |-> p.product_id,
             category |-> IF english = NULL THEN UNKNOWN ELSE english] :
              english \in LeftJoin({t \in Rows(S, "product_category_translation") :
                                      /\ p.product_category_name # NULL
                                      /\ t.product_category_name = p.product_category_name},
                                   "product_category_name_english")} :
            p \in Rows(S, "products")}

DimSeller(S) ==
    {[seller_sk |-> Hash(s.seller_id), seller_id |-> s.seller_id] : s \in Rows(S, "sellers")}

(* build_small_dims *)
DimOrderStatus(S) ==
    {[order_status_sk |-> Hash(o.order_status), order_status |-> o.order_status] :
        o \in Rows(S, "orders")}

DimPaymentType(S) ==
    {[payment_type_sk |-> Hash(p.payment_type), payment_type |-> p.payment_type] :
        p \in Rows(S, "order_payments")}

(* POINT_IN_TIME_CUSTOMER; the versions the seed leaves are open-ended.    *)
CustomerSk(S, G, o) ==
    LeftJoin({v \in G["dim_customer"] :
                /\ \E c \in Rows(S, "customers") :
                     c.customer_id = o.customer_id /\ c.customer_unique_id = v.customer_unique_id
                /\ o.order_purchase_timestamp >= v.effective_from}, "customer_sk")

Revenue(items) == MapThenSumSet(LAMBDA i : i.price + i.freight_value, items)

FactOrder(S, G) ==
    UNION {{[order_id |-> o.order_id, customer_sk |-> c, order_status_sk |-> s,
             order_date_sk |-> o.order_purchase_timestamp,
             order_total |->
                Revenue({i \in Rows(S, "order_items") : i.order_id = o.order_id})] :
              c \in CustomerSk(S, G, o),
              s \in LeftJoin({d \in G["dim_order_status"] : d.order_status = o.order_status},
                             "order_status_sk")} :
            o \in Rows(S, "orders")}

(* The orders an item or a payment joins, by an inner join. *)
OrderOf(S, line) == {o \in Rows(S, "orders") : o.order_id = line.order_id}

FactOrderItem(S, G) ==
    UNION {UNION {{[order_id |-> i.order_id, order_item_id |-> i.order_item_id,
                    product_sk |-> p, seller_sk |-> s, customer_sk |-> c,
                    order_date_sk |-> o.order_purchase_timestamp,
                    item_revenue |-> i.price + i.freight_value] :
                     c \in CustomerSk(S, G, o),
                     p \in LeftJoin({d \in G["dim_product"] : d.product_id = i.product_id},
                                    "product_sk"),
                     s \in LeftJoin({d \in G["dim_seller"] : d.seller_id = i.seller_id},
                                    "seller_sk")} :
                   o \in OrderOf(S, i)} :
            i \in Rows(S, "order_items")}

FactPayment(S, G) ==
    UNION {UNION {{[order_id |-> p.order_id, payment_sequential |-> p.payment_sequential,
                    payment_type_sk |-> t, customer_sk |-> c,
                    order_date_sk |-> o.order_purchase_timestamp,
                    payment_value |-> p.payment_value] :
                     c \in CustomerSk(S, G, o),
                     t \in LeftJoin({d \in G["dim_payment_type"] :
                                       d.payment_type = p.payment_type}, "payment_type_sk")} :
                   o \in OrderOf(S, p)} :
            p \in Rows(S, "order_payments")}

(* The gold tables in the order of their commits: 30_gold_dims, then       *)
(* 50_gold_facts.                                                          *)
GoldTables == <<"dim_date", "dim_customer", "dim_product", "dim_seller", "dim_order_status",
                "dim_payment_type", "fact_order", "fact_order_item", "fact_payment">>

Build(t, S, G) ==
    CASE t = "dim_date" -> DimDate(S)
      [] t = "dim_customer" -> DimCustomer(S, G)
      [] t = "dim_product" -> DimProduct(S)
      [] t = "dim_seller" -> DimSeller(S)
      [] t = "dim_order_status" -> DimOrderStatus(S)
      [] t = "dim_payment_type" -> DimPaymentType(S)
      [] t = "fact_order" -> FactOrder(S, G)
      [] t = "fact_order_item" -> FactOrderItem(S, G)
      [] t = "fact_payment" -> FactPayment(S, G)

(* _constraints: the foreign keys, which the catalog does not enforce.     *)
ForeignKeys == {
    <<"fact_order", "customer_sk", "dim_customer", "customer_sk">>,
    <<"fact_order", "order_status_sk", "dim_order_status", "order_status_sk">>,
    <<"fact_order", "order_date_sk", "dim_date", "date_sk">>,
    <<"fact_order_item", "product_sk", "dim_product", "product_sk">>,
    <<"fact_order_item", "seller_sk", "dim_seller", "seller_sk">>,
    <<"fact_order_item", "customer_sk", "dim_customer", "customer_sk">>,
    <<"fact_order_item", "order_date_sk", "dim_date", "date_sk">>,
    <<"fact_payment", "customer_sk", "dim_customer", "customer_sk">>,
    <<"fact_payment", "payment_type_sk", "dim_payment_type", "payment_type_sk">>,
    <<"fact_payment", "order_date_sk", "dim_date", "date_sk">>}
=============================================================================
