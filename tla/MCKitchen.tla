----------------------------- MODULE MCKitchen ------------------------------
(***************************************************************************)
(* Instances of Kitchen for TLC.                                           *)
(***************************************************************************)
EXTENDS Kitchen, LifecycleMap, TLC

CONSTANTS o1, o2, w1, w2, dine_in, takeout

(* One worker that handles two types, and an order of one of them.         *)
OneWorker == [w \in {w1} |-> {dine_in, takeout}]

(* Two workers compete for one queue.                                      *)
TwoWorkers == [w \in {w1, w2} |-> {dine_in}]
OneType == [o \in {o1, o2} |-> dine_in]
SingleOrder == [o \in {o1} |-> dine_in]

(* Budgets of disturbances: start, signal, crash, conn, db, publish.       *)
Budget(s, g, c, n, d, p) ==
    [start |-> s, signal |-> g, crash |-> c, conn |-> n, db |-> d, publish |-> p]

LifecycleLimit == Budget(2, 1, 1, 1, 1, 0)
FaultLimit == Budget(2, 0, 1, 1, 1, 1)
LostConnection == Budget(1, 0, 0, 1, 0, 0)
DatabaseError == Budget(1, 0, 0, 0, 1, 0)
CrashAndRestart == Budget(2, 0, 1, 0, 0, 0)
SignalOnly == Budget(1, 1, 0, 0, 0, 0)

Symmetric == Permutations({o1, o2}) \cup Permutations({w1, w2})
=============================================================================
