---------------------------- MODULE MCOrderPath -----------------------------
(***************************************************************************)
(* An instance of OrderPath for TLC: a usual deployment and a usual order, *)
(* and around them every scenario that differs in one respect.             *)
(***************************************************************************)
EXTENDS OrderPath, TLC

CONSTANTS first, second

-----------------------------------------------------------------------------
(* Command lines.                                                          *)

OrdersFlags == [DefaultFlags EXCEPT !.mode = "order-service"]
KitchenFlags == [DefaultFlags EXCEPT !.mode = "kitchen-worker", !.workerName = 10]
TrackingFlags == [DefaultFlags EXCEPT !.mode = "tracking-service", !.port = 3002]

NotifierFlags == [DefaultFlags EXCEPT !.mode = "notification-subscriber"]

UsualCmd == [orders |-> OrdersFlags, kitchen |-> KitchenFlags, tracking |-> TrackingFlags,
             notifier |-> NotifierFlags]

Entry(word) == [word |-> word, blanks |-> FALSE]
Spaced(word) == [word |-> word, blanks |-> TRUE]
Entries == {Entry(w) : w \in {"dine_in", "takeout", "pizza", ""}} \cup {Spaced("dine_in"), Spaced("")}

OrderTypeInputs == UNION {[1 .. n -> Entries] : n \in 0 .. 3}

Ports == {-1, 0, 80, 1023, 1024, 8080, 65535, 65536}

CmdVariants ==
    {[UsualCmd EXCEPT !.orders.port = n] : n \in Ports}
    \cup {[UsualCmd EXCEPT !.tracking.port = n] : n \in Ports}
    \cup {[UsualCmd EXCEPT !.orders.maxConcurrent = n] : n \in {-1, 0, 1, 1000, 1001}}
    \cup {[UsualCmd EXCEPT !.orders.logLevel = l] : l \in {"", "INFO", "TRACE"}}
    \cup {[UsualCmd EXCEPT !.orders.mode = m] : m \in {"", "pizza"}}
    \cup {[UsualCmd EXCEPT !.kitchen.workerName = n] : n \in {0, 1, 100, 101}}
    \cup {[UsualCmd EXCEPT !.kitchen.heartbeat = n] : n \in {-1, 4, 5, 6}}
    \cup {[UsualCmd EXCEPT !.kitchen.prefetch = n] : n \in {-1, 0}}
    \cup {[UsualCmd EXCEPT !.notifier.logLevel = "TRACE"]}
    \cup {[UsualCmd EXCEPT !.kitchen.orderTypes = s] : s \in OrderTypeInputs}

-----------------------------------------------------------------------------
(* Requests.                                                               *)

Item(chars, quantity, price) == [chars |-> chars, quantity |-> quantity, price |-> price]

Text(chars, bytes) == [chars |-> chars, bytes |-> bytes]

DineIn ==
    [json |-> "object", header |-> NoID, customer |-> [chars |-> 4, plain |-> TRUE],
     type |-> "dine_in", items |-> <<Item(5, 1, 12500)>>, table |-> {7}, address |-> {}]
TakeOut == [DineIn EXCEPT !.type = "takeout", !.table = {}]
Delivery == [TakeOut EXCEPT !.type = "delivery", !.address = {Text(20, 20)}]

(* Around 50 and 100 dollars, alone, in exact sums and in sums of floats   *)
(* (4 * 0.01 + 3 * 33.32 = 100.00000000000001); below a cent.              *)
Purchases ==
    {<<Item(5, q, p)>> : q \in {1, 2}, p \in {24990, 25000, 50000, 50010, 100000, 100010}}
    \cup {<<Item(5, 1, 25000), Item(5, 2, p)>> : p \in {12500, 12625, 37500, 37625}}
    \cup {<<Item(5, 4, 10), Item(5, 3, p)>> : p \in {16650, 16660, 33320, 33330}}
    \cup {<<Item(5, q, 1005), Item(5, 3, 335)>> : q \in {1, 10}}
    \cup {<<Item(5, q, 1009), Item(5, 1, p)>> : q \in {1, 5}, p \in {996, 994}}

ItemVariants ==
    {<<Item(n, 1, 1000)>> : n \in {0, 1, 50, 51}}
    \cup {<<Item(5, n, 1000)>> : n \in {-1, 0, 1, 10, 11}}
    \cup {<<Item(5, 1, n)>> : n \in {-10, 0, 9, 10, 999990, 999991, 1000000}}
    \cup {[i \in 1 .. n |-> Item(5, 1, 1000)] : n \in {0, 1, 20, 21}}
    \cup {<<Item(5, 1, 1000), Item(0, 11, 0)>>}

BodyVariants ==
    {[DineIn EXCEPT !.json = k] : k \in Bodies}
    \cup {[DineIn EXCEPT !.customer = [chars |-> n, plain |-> b]] :
             n \in {0, 1, 100, 101}, b \in BOOLEAN}
    \cup {[DineIn EXCEPT !.items = s] : s \in Purchases \cup ItemVariants}
    \cup {[b EXCEPT !.table = t, !.address = a] :
             b \in {DineIn, TakeOut, Delivery, [TakeOut EXCEPT !.type = "pizza"]},
             t \in {{}, {0}, {1}, {100}, {101}},
             a \in {{}, {Text(9, 9)}, {Text(10, 10)}, {Text(5, 10)}, {Text(10, 20)}, {Text(0, 0)}}}

-----------------------------------------------------------------------------
Pair(b1, b2) == (first :> b1) @@ (second :> b2)

Scenario(c, b, n) == [cmd |-> c, body |-> b, seq |-> n]

Headers == {NoID, <<"header", "a">>, <<"header", "b">>}

(* Both requests, with and without an id of their own, to one queue or to  *)
(* two.                                                                    *)
Pairs == {Pair([DineIn EXCEPT !.header = h], [b EXCEPT !.header = g]) :
             h \in Headers, g \in Headers, b \in {DineIn, TakeOut}}

(* The second request is one that is never sent on.                        *)
Alone(b) == Pair(b, [DineIn EXCEPT !.json = "empty"])

AllScenarios ==
    {Scenario(c, Alone(DineIn), 0) : c \in CmdVariants}
    \cup {Scenario(UsualCmd, Alone(b), 0) : b \in BodyVariants}
    \cup {Scenario(UsualCmd, p, 0) : p \in Pairs}
    \cup {Scenario(UsualCmd, Pair(DineIn, DineIn), n) : n \in {8, 98, 998, 9998, 99998}}

-----------------------------------------------------------------------------
(* One scenario each for what the documentation says and the code does not.*)

ShortAddress == {Scenario(UsualCmd, Alone([Delivery EXCEPT !.address = {Text(5, 10)}]), 0)}

HundredDollars ==
    {Scenario(UsualCmd, Alone([DineIn EXCEPT !.items = <<Item(5, 4, 10), Item(5, 3, 33320)>>]), 0)}

DisputedFlags ==
    {Scenario([UsualCmd EXCEPT !.orders.maxConcurrent = 0, !.kitchen.heartbeat = 5,
                               !.tracking.port = -1],
              Alone(DineIn), 0)}
=============================================================================
