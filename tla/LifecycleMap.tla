---------------------------- MODULE LifecycleMap ----------------------------
(***************************************************************************)
(* How the tables and the queues show the life of an order.  The mapping   *)
(* needs nothing else, so Kitchen and OrderService share it: each of them  *)
(* implements OrderLifecycle, the order service its first steps and the    *)
(* kitchen the rest.                                                       *)
(***************************************************************************)
EXTENDS OrderStore, OrderBroker

(* Where the message of an order is tells how far the order is.            *)
StageOf == [none |-> "unknown", ready |-> "waiting", unacked |-> "assigned",
            acked |-> "served", dead |-> "given_up"]

(* The workers that have committed status s for order o.                   *)
HaveLogged(o, s) == {w \in Workers : Logged(o, w, s)}

Known == {o \in Orders : Exists(o)}
Stage == [o \in Orders |-> StageOf[message[o]]]
Begun == [o \in Orders |-> HaveLogged(o, "cooking")]
Cooked == [o \in Orders |-> HaveLogged(o, "ready")]

Lifecycle == INSTANCE OrderLifecycle WITH
    known <- Known, stage <- Stage, chef <- holder, begun <- Begun, cooked <- Cooked

(* Every step is a step of the order's life, or none.  In the kitchen:     *)
(* competing and stale handlers (proccessOrder, Consume), redeliveries,    *)
(* lost connections, crashes and unclear commits never serve an order that *)
(* its holder did not cook, and never revive a settled one.  In the order  *)
(* service: whatever fails between Create and PublishCreateOrder, the      *)
(* kitchen is never told of an order the database does not have.           *)
ImplementsLifecycle == Lifecycle!Spec
=============================================================================
