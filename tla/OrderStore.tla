----------------------------- MODULE OrderStore -----------------------------
(***************************************************************************)
(* The tables orders and order_status_log behind orderRepository.  Every   *)
(* operator is one committed transaction; a transaction that fails changes *)
(* nothing and is expressed by its caller.                                 *)
(***************************************************************************)
EXTENDS Domain, Naturals, Sequences

VARIABLES
    orders,     \* the row of an order: status, processed_by, completed_at set
    statusLog   \* its rows of order_status_log, in commit order

storeVars == <<orders, statusLog>>

OrderRow == [status: OrderStatuses, by: Workers \cup {NoWorker}, completed: BOOLEAN]
LogEntry == [status: OrderStatuses, by: Workers \cup {NoWorker}]

StoreTypeOK ==
    /\ orders \in [Orders -> OrderRow]
    /\ statusLog \in [Orders -> Seq(LogEntry)]

NoRow == [status |-> "absent", by |-> NoWorker, completed |-> FALSE]

StoreInit ==
    /\ orders = [o \in Orders |-> NoRow]
    /\ statusLog = [o \in Orders |-> << >>]

Exists(o) == orders[o].status # "absent"

(* The insert of an order, its items and its first log entry.  changed_by  *)
(* is the service's own name, which no worker has.                         *)
Create(o) ==
    /\ orders' = [orders EXCEPT ![o].status = "received"]
    /\ statusLog' = [statusLog EXCEPT
                       ![o] = Append(@, [status |-> "received", by |-> NoWorker])]

(* The slip of an update without its log entry.                            *)
SetStatusUnlogged(o, w, s) ==
    /\ orders' = [orders EXCEPT ![o] =
                    [status |-> s, by |-> w, completed |-> @.completed \/ s = "ready"]]
    /\ UNCHANGED statusLog

(* UPDATE orders ... and the log entry, in one transaction.  No status is  *)
(* refused: whatever the row says, the new status replaces it.             *)
SetStatus(o, w, s) ==
    /\ orders' = [orders EXCEPT ![o] =
                    [status |-> s, by |-> w, completed |-> @.completed \/ s = "ready"]]
    /\ statusLog' = [statusLog EXCEPT ![o] = Append(@, [status |-> s, by |-> w])]

(* Some log entry of o says that w set status s.                           *)
Logged(o, w, s) ==
    \E i \in DOMAIN statusLog[o] : statusLog[o][i] = [status |-> s, by |-> w]
=============================================================================
