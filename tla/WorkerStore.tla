---------------------------- MODULE WorkerStore -----------------------------
(***************************************************************************)
(* The table workers behind workerRepository, one row per worker name.     *)
(* Every operator is one committed statement.  last_seen is kept as        *)
(* "fresh": less than two heartbeat intervals old.                         *)
(***************************************************************************)
EXTENDS Domain, Naturals

VARIABLE workers

WorkerRow == [status: {"absent", "online", "offline"}, fresh: BOOLEAN, processed: Nat]

WorkerStoreTypeOK == workers \in [Workers -> WorkerRow]

WorkerStoreInit ==
    workers = [w \in Workers |-> [status |-> "absent", fresh |-> FALSE, processed |-> 0]]

(* The WHERE clause of the upsert: no row was inserted or updated.         *)
RegistrationRefused(w) == workers[w].status = "online" /\ workers[w].fresh

MarkOnline(w) ==
    workers' = [workers EXCEPT ![w].status = "online", ![w].fresh = TRUE]

MarkOffline(w) ==
    workers' = [workers EXCEPT ![w].status = "offline", ![w].fresh = TRUE]

IncrOrdersProcessed(w) ==
    workers' = [workers EXCEPT ![w].processed = @ + 1]

(* Two heartbeat intervals pass without an update of last_seen.            *)
LastSeenLapses(w) ==
    /\ workers[w].fresh
    /\ workers' = [workers EXCEPT ![w].fresh = FALSE]
=============================================================================
