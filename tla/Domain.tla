------------------------------- MODULE Domain -------------------------------
(***************************************************************************)
(* The values that the services of the restaurant share: orders (an order  *)
(* number stands for the order and for the one message published about     *)
(* it), the kinds of order, the kitchen workers (by their unique name) and *)
(* the statuses of an order that the services write.                       *)
(***************************************************************************)

CONSTANTS
    Orders,      \* order numbers
    OrderTypes,  \* dine_in, takeout, delivery
    TypeOf,      \* the type of every order
    Workers,     \* names of kitchen workers
    NoWorker,    \* a NULL processed_by, and the holder of an idle message
    NoOrder      \* a consumer that handles no message

ASSUME DomainAssumption ==
    /\ TypeOf \in [Orders -> OrderTypes]
    /\ NoWorker \notin Workers
    /\ NoOrder \notin Orders

(* types.StatusOrder...; "absent" is an order number that has no row.      *)
OrderStatuses == {"absent", "received", "cooking", "ready"}
=============================================================================
