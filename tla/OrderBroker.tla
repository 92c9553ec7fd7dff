---------------------------- MODULE OrderBroker -----------------------------
(***************************************************************************)
(* The orders_topic exchange, one durable queue per order type and the     *)
(* dead-letter queues.  The broker itself is RabbitMQ: what it does is     *)
(* taken from how the producer and the consumer use it (manual             *)
(* acknowledgement, prefetch, requeue of a lost connection's deliveries).  *)
(*                                                                         *)
(* An order is published once, so its number names its message.  A queue   *)
(* is the set of its "ready" messages: the order of delivery is left open, *)
(* since a requeued message and competing consumers reorder it anyway.     *)
(***************************************************************************)
EXTENDS Domain, Naturals, FiniteSets

VARIABLES
    message,  \* where the message of an order is
    holder    \* the worker whose connection it was last delivered on

brokerVars == <<message, holder>>

MessageStates == {"none", "ready", "unacked", "acked", "dead"}

BrokerTypeOK ==
    /\ message \in [Orders -> MessageStates]
    /\ holder \in [Orders -> Workers \cup {NoWorker}]

BrokerInit ==
    /\ message = [o \in Orders |-> "none"]
    /\ holder = [o \in Orders |-> NoWorker]

(* Routed by kitchen.<type>.<priority> to the queue of the order's type.   *)
Publish(o) ==
    /\ message' = [message EXCEPT ![o] = "ready"]
    /\ UNCHANGED holder

HeldBy(w) == {o \in Orders : message[o] = "unacked" /\ holder[o] = w}

(* Deliveries of queue t that worker w has not settled yet; basic.qos      *)
(* limits them.                                                            *)
InFlight(w, t) == {o \in HeldBy(w) : TypeOf[o] = t}

PushTo(o, w) ==
    /\ message[o] = "ready"
    /\ message' = [message EXCEPT ![o] = "unacked"]
    /\ holder' = [holder EXCEPT ![o] = w]

(* The slip of a settlement that names the message.                        *)
SettleAnyDelivery(o, w, to) ==
    /\ message' = [message EXCEPT ![o] = to]
    /\ holder' = [holder EXCEPT ![o] = IF to = "acked" THEN w ELSE NoWorker]

(* basic.ack and basic.nack name a delivery, not a message: on a channel   *)
(* that was closed since, they settle nothing.                             *)
Settle(o, w, to) ==
    IF o \in HeldBy(w)
    THEN /\ message' = [message EXCEPT ![o] = to]
         /\ holder' = [holder EXCEPT ![o] = IF to = "acked" THEN w ELSE NoWorker]
    ELSE UNCHANGED brokerVars

(* A closed connection returns its unsettled deliveries to their queues.   *)
RequeueDeliveries(w) ==
    /\ message' = [o \in Orders |-> IF o \in HeldBy(w) THEN "ready" ELSE message[o]]
    /\ holder' = [o \in Orders |-> IF o \in HeldBy(w) THEN NoWorker ELSE holder[o]]
=============================================================================
