---- MODULE MCGoldLayer ----
(***************************************************************************)
(* The people of MCCustomerDim, with an order of ana's on a run date and   *)
(* one between two run dates, the first with two items and two payments.   *)
(***************************************************************************)
EXTENDS MCCustomerDim, GoldLayer

MCGoldOrders ==
    {[order_id |-> o1, customer_id |-> c1, purchased |-> 3],
     [order_id |-> o2, customer_id |-> c2, purchased |-> 4]}
MCGoldItems == MCSilverItems \cup {[order_id |-> o1, item |-> 2, revenue |-> 1]}
MCGoldPayments ==
    {[order_id |-> o1, seq |-> 1, revenue |-> 1], [order_id |-> o1, seq |-> 2, revenue |-> 1],
     [order_id |-> o2, seq |-> 1, revenue |-> 1]}

(* A move, a deletion, and a file with an insert and a duplicate key.      *)
MCGoldFiles ==
    {{Row(ana, "U", Fed(north), 1)}, {Row(ana, "D", Fed(north), 1)},
     {Row(ana, "U", Fed(north), 1), Row(ana, "U", Fed(south), 2), Row(bob, "I", Fed(south), 1)}}
====
