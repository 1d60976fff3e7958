---- MODULE MCCustomerDim ----
(***************************************************************************)
(* A small instance of CustomerDim: ana, whose two orders carry two        *)
(* addresses, eve, who never ordered, and bob, whom only the change files  *)
(* know.                                                                   *)
(***************************************************************************)
EXTENDS CustomerDim, TLC

CONSTANTS ana, bob, eve, north, south, c1, c2, c3, o1, o2

MCCustomers == {ana, bob, eve}
MCPlaces == {north, south}

MCSilverCustomers ==
    {[customer_id |-> c1, uid |-> ana, address |-> [place |-> north, spelling |-> "silver"]],
     [customer_id |-> c2, uid |-> ana, address |-> [place |-> south, spelling |-> "silver"]],
     [customer_id |-> c3, uid |-> eve, address |-> NULL]}
MCSilverOrders ==
    {[order_id |-> o1, customer_id |-> c1, purchased |-> 2],
     [order_id |-> o2, customer_id |-> c2, purchased |-> 4]}
MCSilverItems ==
    {[order_id |-> o1, item |-> 1, revenue |-> 1], [order_id |-> o2, item |-> 1, revenue |-> 1]}

Fed(p) == [place |-> p, spelling |-> "feed"]

Row(u, op, a, t) == [uid |-> u, op |-> op, address |-> a, updated_at |-> t]

(* One row of each kind a generated file has, one without an address, some *)
(* without a key, and files with the duplicate that _inject_dirt plants.   *)
SingleRows ==
    {Row(ana, "U", Fed(north), 1), Row(ana, "U", NULL, 1), Row(ana, "D", Fed(north), 1),
     Row(bob, "I", Fed(south), 1), Row(bob, "D", Fed(south), 1)}

MCChangeFiles ==
    {{r} : r \in SingleRows} \cup
    {{Row(NULL, "U", Fed(north), 1), Row(NULL, "I", Fed(south), 0)},
     {Row(NULL, "D", Fed(north), 1), Row(NULL, "U", Fed(north), 1)},
     {Row(ana, "U", Fed(north), 1), Row(ana, "U", Fed(south), 2), Row(bob, "I", NULL, 0)},
     {Row(ana, "D", Fed(south), 2), Row(ana, "U", Fed(south), 1)}}

MCDates == {3, 5}
MCDays == {1, 2}

AnyRun == Permutations(Runs)
====
