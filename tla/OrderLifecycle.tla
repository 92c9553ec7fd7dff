--------------------------- MODULE OrderLifecycle ---------------------------
(***************************************************************************)
(* What the restaurant promises about an order: it is known before the     *)
(* kitchen sees it, waits, is assigned to one worker at a time, and ends   *)
(* served or given up, for good.  Nobody serves what its own worker did    *)
(* not cook, and nobody has cooked what it did not begin.  Processes,      *)
(* connections, goroutines and their failures do not appear; a worker that *)
(* fails shows as Return.                                                  *)
(***************************************************************************)
CONSTANTS Orders, Workers, NoWorker

VARIABLES
    known,   \* orders the database has
    stage,   \* how far an order is
    chef,    \* the worker it is, or was last, assigned to
    begun,   \* the workers that have begun to cook it
    cooked   \* the workers that have cooked it

vars == <<known, stage, chef, begun, cooked>>

Init ==
    /\ known = {}
    /\ stage = [o \in Orders |-> "unknown"]
    /\ chef = [o \in Orders |-> NoWorker]
    /\ begun = [o \in Orders |-> {}]
    /\ cooked = [o \in Orders |-> {}]

(* The order is stored; the kitchen does not know of it yet, or never will.*)
Store(o) ==
    /\ o \notin known
    /\ known' = known \cup {o}
    /\ UNCHANGED <<stage, chef, begun, cooked>>

(* An order that is stored by then is handed to the kitchen, once.         *)
Place(o) ==
    /\ stage[o] = "unknown"
    /\ known' = known \cup {o}
    /\ stage' = [stage EXCEPT ![o] = "waiting"]
    /\ UNCHANGED <<chef, begun, cooked>>

Assign(o, w) ==
    /\ stage[o] = "waiting"
    /\ stage' = [stage EXCEPT ![o] = "assigned"]
    /\ chef' = [chef EXCEPT ![o] = w]
    /\ UNCHANGED <<known, begun, cooked>>

AssignedTo(w) == {o \in Orders : stage[o] = "assigned" /\ chef[o] = w}

(* A worker fails or leaves: all its orders wait again.                    *)
Return(w) ==
    /\ stage' = [o \in Orders |-> IF o \in AssignedTo(w) THEN "waiting" ELSE stage[o]]
    /\ chef' = [o \in Orders |-> IF o \in AssignedTo(w) THEN NoWorker ELSE chef[o]]
    /\ UNCHANGED <<known, begun, cooked>>

(* A worker begins an order: its own, or one it has lost meanwhile.        *)
Begin(o, w) ==
    /\ o \in known
    /\ begun' = [begun EXCEPT ![o] = @ \cup {w}]
    /\ UNCHANGED <<known, stage, chef, cooked>>

Finish(o, w) ==
    /\ w \in begun[o]
    /\ cooked' = [cooked EXCEPT ![o] = @ \cup {w}]
    /\ UNCHANGED <<known, stage, chef, begun>>

Serve(o) ==
    /\ stage[o] = "assigned"
    /\ chef[o] \in cooked[o]
    /\ stage' = [stage EXCEPT ![o] = "served"]
    /\ UNCHANGED <<known, chef, begun, cooked>>

GiveUp(o) ==
    /\ stage[o] = "assigned"
    /\ stage' = [stage EXCEPT ![o] = "given_up"]
    /\ chef' = [chef EXCEPT ![o] = NoWorker]
    /\ UNCHANGED <<known, begun, cooked>>

Next ==
    \/ \E o \in Orders : Store(o) \/ Place(o) \/ Serve(o) \/ GiveUp(o)
    \/ \E o \in Orders, w \in Workers : Assign(o, w) \/ Begin(o, w) \/ Finish(o, w)
    \/ \E w \in Workers : Return(w)

Spec == Init /\ [][Next]_vars
=============================================================================
