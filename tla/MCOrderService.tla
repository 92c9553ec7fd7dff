--------------------------- MODULE MCOrderService ---------------------------
(***************************************************************************)
(* Instances of OrderService for TLC.                                      *)
(***************************************************************************)
EXTENDS OrderService, LifecycleMap, TLC

CONSTANTS r1, r2, r3, dine_in

AllDineIn == [o \in 1 .. 3 |-> dine_in]

(* Budgets of disturbances: start, signal, crash, db, publish, lost.       *)
Budget(s, g, c, d, p, l) ==
    [start |-> s, signal |-> g, crash |-> c, db |-> d, publish |-> p, lost |-> l]

FaultLimit == Budget(1, 1, 1, 1, 2, 1)
SignalOnly == Budget(0, 1, 0, 0, 0, 0)
=============================================================================
