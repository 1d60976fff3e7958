--------------------------------- MODULE Facts ---------------------------------
(***************************************************************************)
(* The three fact tables of src/src/gold/facts.py, as functions of the     *)
(* silver tables and of dim_customer, and the fingerprint of the gold      *)
(* layer (src/src/ops/idempotency.py).                                     *)
(*                                                                         *)
(* A fact row keeps its business key, the customer_sk its point-in-time    *)
(* join resolved to, and one measure.  `added` names the dimension row the *)
(* join matched, so that a row which fans out stays several rows.          *)
(***************************************************************************)
EXTENDS CustomerAttributes

CONSTANT SilverPayments   \* [order_id, seq, revenue]

(* What the deduplication of silver leaves: one row per business key.      *)
ASSUME OneSilverRowPerKey ==
    /\ \A c, d \in SilverCustomers : c.customer_id = d.customer_id => c = d
    /\ \A o, p \in SilverOrders : o.order_id = p.order_id => o = p
    /\ \A i, j \in SilverItems : i.order_id = j.order_id /\ i.item = j.item => i = j
    /\ \A p, q \in SilverPayments : p.order_id = q.order_id /\ p.seq = q.seq => p = q

ASSUME PaymentsAreFinite ==
    IsFiniteSet(SilverPayments) /\ \A p \in SilverPayments : p.revenue \in Nat

ASSUME PurchasesHaveATime == \A o \in SilverOrders : o.purchased < EndOfTime
ASSUME NullIsNoKey == NULL \notin Customers \X Nat

FactTables == <<"fact_order", "fact_order_item", "fact_payment">>

FactRowHashedAnyway(key, v, revenue) ==   \* a bug: an unresolved customer is hashed too
    [key |-> key, customer_sk |-> Sk(v), added |-> v.added, revenue |-> revenue]

FactRow(key, v, revenue) ==
    [key |-> key, customer_sk |-> IF v.uid = NULL THEN NULL ELSE Sk(v),
     added |-> v.added, revenue |-> revenue]

(* POINT_IN_TIME_CUSTOMER: the versions of the order's customer whose      *)
(* window holds the purchase; a left join, so never an empty result.       *)
CoversBothEnds(v, t) == v.effective_from <= t /\ t <= v.effective_to   \* a bug: closed window

Covers(v, t) == v.effective_from <= t /\ t < v.effective_to

Unresolved == [uid |-> NULL, effective_from |-> 0, added |-> 0]

CurrentVersions(o, dim) ==   \* a bug: the natural key and is_current
    {v \in Current(dim) :
        \E c \in SilverCustomers : c.customer_id = o.customer_id /\ c.uid = v.uid}

VersionsAt(o, dim) ==
    {v \in dim : /\ \E c \in SilverCustomers : c.customer_id = o.customer_id /\ c.uid = v.uid
                 /\ Covers(v, o.purchased)}

PointInTime(o, dim) ==
    IF VersionsAt(o, dim) = {} THEN {Unresolved} ELSE VersionsAt(o, dim)

(* build_fact_order: from orders, items aggregated to the order first.     *)
FactOrder(dim) ==
    UNION {{FactRow(<<o.order_id>>, v, OrderTotal(o)) : v \in PointInTime(o, dim)} :
             o \in SilverOrders}

(* build_fact_order_item and build_fact_payment: an inner join with orders *)
(* at the grain of the item or the payment.                                *)
FactLines(lines, dim) ==
    UNION {UNION {{FactRow(l.key, v, l.revenue) : v \in PointInTime(o, dim)} :
                    o \in {x \in SilverOrders : x.order_id = l.order_id}} : l \in lines}

Line(l, n) == [key |-> <<l.order_id, n>>, order_id |-> l.order_id, revenue |-> l.revenue]

FactOrderItem(dim) == FactLines({Line(i, i.item) : i \in SilverItems}, dim)

FactPayment(dim) == FactLines({Line(p, p.seq) : p \in SilverPayments}, dim)

BuildFact(table, dim) ==
    CASE table = "fact_order" -> FactOrder(dim)
      [] table = "fact_order_item" -> FactOrderItem(dim)
      [] table = "fact_payment" -> FactPayment(dim)

BuildFacts(dim) == [t \in {FactTables[i] : i \in 1 .. 3} |-> BuildFact(t, dim)]

-----------------------------------------------------------------------------
(* capture: row count and summed measures per table; dim_customer is only  *)
(* counted.  The other dimensions of FINGERPRINT_SPEC are functions of     *)
(* silver alone.                                                           *)
CountAndSum(rows) == <<Cardinality(rows), MapThenSumSet(LAMBDA f : f.revenue, rows)>>

Fingerprint(facts, dim) ==
    [t \in DOMAIN facts \cup {"dim_customer"} |->
        IF t = "dim_customer" THEN <<Cardinality(dim), 0>> ELSE CountAndSum(facts[t])]
=============================================================================
