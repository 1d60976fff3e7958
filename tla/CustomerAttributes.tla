-------------------------- MODULE CustomerAttributes --------------------------
(***************************************************************************)
(* How gold derives one row per person from the silver tables: order       *)
(* totals, the latest address on record, the first order and the segment   *)
(* as of a date (src/src/gold/dims.py, src/src/silver/transforms.py).      *)
(*                                                                         *)
(* The silver tables are constants: bronze consumes every source file once *)
(* and silver is rebuilt from bronze by every run, so while no new source  *)
(* file lands each run sees the same silver tables.                        *)
(***************************************************************************)
EXTENDS Scd2, FiniteSetsExt

CONSTANTS
    SilverCustomers,  \* [customer_id, uid, address]: one row per customer_id
    SilverOrders,     \* [order_id, customer_id, purchased]
    SilverItems,      \* [order_id, item, revenue]: revenue is price + freight
    LapsedDays,       \* 180
    HighValue         \* 1000

ASSUME SilverTypes ==
    /\ \A c \in SilverCustomers : c.uid \in Customers /\ c.address \in OrNull(Address)
    /\ \A o \in SilverOrders : o.purchased \in Nat

(* Money is counted in cents; the rules let no negative price pass.        *)
ASSUME SilverIsFinite ==
    /\ IsFiniteSet(SilverCustomers) /\ IsFiniteSet(SilverOrders) /\ IsFiniteSet(SilverItems)
    /\ \A i \in SilverItems : i.revenue \in Nat

(* The people silver knows: customer_unique_id, not customer_id.           *)
People == {c.uid : c \in SilverCustomers}

RecordsOf(u) == {c \in SilverCustomers : c.uid = u}

(* order_totals: revenue of an order, summed from item grain; an order     *)
(* without items counts 0.                                                 *)
ItemsOf(o) == {i \in SilverItems : i.order_id = o.order_id}

OrderTotal(o) == MapThenSumSet(LAMBDA i : i.revenue, ItemsOf(o))

(* The orders of a customer_id and, through silver.customers, of a person. *)
OrdersOfRecord(c) == {o \in SilverOrders : o.customer_id = c.customer_id}

OrdersOf(u) == UNION {OrdersOfRecord(c) : c \in RecordsOf(u)}

(* The person's record with the most recent order; a record without orders *)
(* sorts last, and nothing orders two records that tie.                    *)
LatestRecords(u) ==
    {c \in RecordsOf(u) :
        \A o \in OrdersOf(u) : \E p \in OrdersOfRecord(c) : p.purchased >= o.purchased}

LatestAddresses(u) ==
    {c.address : c \in IF OrdersOf(u) = {} THEN RecordsOf(u) ELSE LatestRecords(u)}

(* compute_first_order_ts, floored by seed_dim_customer at the beginning of *)
(* time for a person without orders.  No as-of filter.                      *)
FirstOrdersNotFloored(u) ==   \* a bug: no floor for a person without orders
    IF OrdersOf(u) = {} THEN {NULL}
    ELSE {o.purchased : o \in {x \in OrdersOf(u) :
                                 \A y \in OrdersOf(u) : x.purchased <= y.purchased}}

FirstOrders(u) ==
    IF OrdersOf(u) = {} THEN {0}
    ELSE {o.purchased : o \in {x \in OrdersOf(u) :
                                 \A y \in OrdersOf(u) : x.purchased <= y.purchased}}

(* compute_customer_segment, as of a date; a person with no order by then  *)
(* has no row there and customer_attributes fills in "unknown".            *)
Segment(u, as_of) ==
    LET scoped    == {o \in OrdersOf(u) : o.purchased <= as_of}
        value     == MapThenSumSet(OrderTotal, scoped)
        daysSince == as_of - Max({o.purchased : o \in scoped})
    IN  IF scoped = {} THEN "unknown"
        ELSE IF value >= HighValue THEN "high_value"
        ELSE IF daysSince > LapsedDays THEN "lapsed"
        ELSE IF Cardinality(scoped) > 1 THEN "returning"
        ELSE "new"

(* The row seed_dim_customer appends for a person: version 1, open.        *)
SeedVersion(u, address, first, as_of, commit) ==
    [uid |-> u, address |-> address, segment |-> Segment(u, as_of), profile |-> u,
     effective_from |-> first, effective_to |-> EndOfTime,
     is_current |-> TRUE, is_deleted |-> FALSE, added |-> commit]
=============================================================================
