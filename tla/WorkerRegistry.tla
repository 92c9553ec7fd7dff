--------------------------- MODULE WorkerRegistry ---------------------------
(***************************************************************************)
(* One row of the table workers over time: the processes that were started *)
(* with its name register, send heartbeats and leave, and the tracking     *)
(* service reads it.  Every statement of workerRepository says WHERE name  *)
(* = $1, so the rows of different names do not touch each other.           *)
(*                                                                         *)
(* Time passes in ticks.  Instants are kept as ages, which stop growing at *)
(* Horizon: the code compares them only with intervals below it.  The      *)
(* handling of orders, which a worker does meanwhile, is in Kitchen.       *)
(***************************************************************************)
EXTENDS Integers

CONSTANTS
    Processes,      \* operating-system processes started with the name
    Interval,       \* --heartbeat-interval of each of them, in ticks
    MinHeartbeat,   \* the 5 seconds an interval must exceed, in ticks
    TrackInterval,  \* --heartbeat-interval of the tracking service
    Lag,            \* how late a heartbeat may reach the database
    StopLag,        \* how late MarkOffline may: the 10 s context of close
    Skew,           \* error of the tracking service's clock at the query
    Horizon,        \* where ages stop growing
    Limit           \* how often each kind of disturbance may happen

Disturbances == {"launch", "crash", "db"}

ASSUME RegistryAssumption ==
    /\ Interval \in [Processes -> Nat]
    /\ MinHeartbeat \in Nat /\ TrackInterval \in Nat
    /\ Lag \in Nat /\ StopLag \in Nat /\ Skew \in Nat /\ Horizon \in Nat
    /\ Lag < MinHeartbeat
    /\ TrackInterval + Skew < Horizon
    /\ \A p \in Processes : 2 * Interval[p] < Horizon /\ Interval[p] + Lag < Horizon
    /\ Limit \in [Disturbances -> Nat]

VARIABLES
    row,     \* status of the row, and age of its last_seen
    place,   \* where Work of a process is
    phase,   \* time since the ticker fired; of a cancelled one, since cancel
    due,     \* the ticker has fired and UpdateLastSeen is yet to be done
    blame,   \* what befell the registration of a process
    quiet,   \* time since a registered process had the name
    spent    \* disturbances so far

vars == <<row, place, phase, due, blame, quiet, spent>>

Places == {"down", "starting", "working", "draining", "cancelled"}

(* Its heartbeatLoop runs: until Stop has waited for the active orders.    *)
Beating(p) == place[p] \in {"working", "draining"}
Registered(p) == Beating(p) \/ place[p] = "cancelled"

TypeOK ==
    /\ row \in [status: {"absent", "online", "offline"}, age: 0 .. Horizon]
    /\ place \in [Processes -> Places]
    /\ phase \in [Processes -> 0 .. Horizon]
    /\ due \in [Processes -> BOOLEAN]
    /\ blame \in [Processes -> SUBSET {"missed", "marked"}]
    /\ quiet \in 0 .. Horizon
    /\ spent \in [Disturbances -> Nat]

Init ==
    /\ row = [status |-> "absent", age |-> 0]
    /\ place = [p \in Processes |-> "down"]
    /\ phase = [p \in Processes |-> 0]
    /\ due = [p \in Processes |-> FALSE]
    /\ blame = [p \in Processes |-> {}]
    /\ quiet = 0
    /\ spent = [d \in Disturbances |-> 0]

Disturb(d) ==
    /\ spent[d] < Limit[d]
    /\ spent' = [spent EXCEPT ![d] = @ + 1]

Stamp(status) == row' = [status |-> status, age |-> 0]

(* A process enters a place of Work with a fresh ticker and a clean record.*)
Enter(p, where) ==
    /\ place' = [place EXCEPT ![p] = where]
    /\ phase' = [phase EXCEPT ![p] = 0]
    /\ due' = [due EXCEPT ![p] = FALSE]

Absolve(p) == blame' = [blame EXCEPT ![p] = {}]

-----------------------------------------------------------------------------
(* The process starts.  NewKitchen refuses a heartbeat interval that does  *)
(* not exceed five seconds, and the process is then gone at once.          *)
Launch(p) ==
    /\ place[p] = "down"
    /\ Interval[p] > MinHeartbeat
    /\ Disturb("launch")
    /\ Enter(p, "starting")
    /\ UNCHANGED <<row, blame, quiet>>

(* Slips: one interval instead of two; an interval that the caller and the *)
(* query both double.                                                      *)
RefusedForOneInterval(p) ==
    /\ row.status = "online"
    /\ row.age <= Interval[p]

RefusedForFourIntervals(p) ==
    /\ row.status = "online"
    /\ row.age <= 4 * Interval[p]

(* The WHERE clause of the upsert: the row is online, and its last_seen is *)
(* not older than twice the interval of the process that registers.        *)
Refused(p) ==
    /\ row.status = "online"
    /\ row.age <= 2 * Interval[p]

(* MarkOnline inserts or takes over the row, and heartbeatLoop starts.     *)
Register(p) ==
    /\ place[p] = "starting"
    /\ ~Refused(p)
    /\ Stamp("online")
    /\ quiet' = 0
    /\ Enter(p, "working")
    /\ Absolve(p)
    /\ UNCHANGED spent

(* ErrWorkerAlreadyOnline, or the database fails, before or after it wrote *)
(* the row.  Start returns the error; Stop finds the worker not working.   *)
RegisterFails(p) ==
    /\ place[p] = "starting"
    /\ \/ Refused(p) /\ UNCHANGED <<row, quiet, spent>>
       \/ /\ Disturb("db")
          /\ \/ ~Refused(p) /\ Stamp("online") /\ quiet' = 0
             \/ UNCHANGED <<row, quiet>>
    /\ Enter(p, "down")
    /\ UNCHANGED blame

(* UpdateLastSeen.  It leaves the status as it is.                         *)
Heartbeat(p) ==
    /\ Beating(p)
    /\ due[p]
    /\ row' = [row EXCEPT !.age = 0]
    /\ due' = [due EXCEPT ![p] = FALSE]
    /\ UNCHANGED <<place, phase, blame, quiet, spent>>

(* The error is logged, and the loop waits for the next tick.              *)
HeartbeatFails(p) ==
    /\ Beating(p)
    /\ due[p]
    /\ Disturb("db")
    /\ due' = [due EXCEPT ![p] = FALSE]
    /\ blame' = [blame EXCEPT ![p] = @ \cup {"missed"}]
    /\ UNCHANGED <<row, place, phase, quiet>>

(* The slip of a Stop that marks the worker offline before it waits.       *)
StopMarksFirst(p) ==
    /\ place[p] = "working"
    /\ place' = [place EXCEPT ![p] = "draining"]
    /\ Stamp("offline")
    /\ UNCHANGED <<phase, due, blame, quiet, spent>>

(* Stop begins and waits for the active orders; the heartbeats go on.      *)
Stop(p) ==
    /\ place[p] = "working"
    /\ place' = [place EXCEPT ![p] = "draining"]
    /\ UNCHANGED <<row, phase, due, blame, quiet, spent>>

(* Stop cancels the context of heartbeatLoop.                              *)
Cancel(p) ==
    /\ place[p] = "draining"
    /\ Enter(p, "cancelled")
    /\ UNCHANGED <<row, blame, quiet, spent>>

(* The slip of a status the table does not know.                           *)
SetStopped(p) ==
    /\ Stamp("stopped")
    /\ UNCHANGED blame

(* The row of the name is set offline, whoever registered it last.         *)
SetOffline(p) ==
    /\ Stamp("offline")
    /\ blame' = [q \in Processes |->
                   IF q # p /\ Beating(q) THEN blame[q] \cup {"marked"} ELSE blame[q]]

MarkOffline(p) ==
    /\ place[p] = "cancelled"
    /\ SetOffline(p)
    /\ Enter(p, "down")
    /\ UNCHANGED <<quiet, spent>>

(* The context is over, or the database fails, before or after the update. *)
MarkOfflineFails(p) ==
    /\ place[p] = "cancelled"
    /\ \/ Disturb("db") /\ (SetOffline(p) \/ UNCHANGED <<row, blame>>)
       \/ phase[p] >= StopLag /\ UNCHANGED <<row, blame, spent>>
    /\ Enter(p, "down")
    /\ UNCHANGED quiet

(* The process is killed, or panics in Stop.                               *)
Crash(p) ==
    /\ place[p] # "down"
    /\ Disturb("crash")
    /\ Enter(p, "down")
    /\ UNCHANGED <<row, blame, quiet>>

-----------------------------------------------------------------------------
Older(a) == IF a < Horizon THEN a + 1 ELSE a

(* Neither a heartbeat nor MarkOffline is later than its bound.            *)
Punctual(p) ==
    /\ Beating(p) /\ due[p] => phase[p] < Lag
    /\ place[p] = "cancelled" => phase[p] < StopLag

Fires(p) == Beating(p) /\ phase[p] + 1 >= Interval[p]

Tick ==
    /\ \A p \in Processes : Punctual(p)
    /\ row' = [row EXCEPT !.age = Older(@)]
    /\ phase' = [p \in Processes |->
                   IF ~Registered(p) \/ Fires(p) THEN 0 ELSE Older(phase[p])]
    /\ due' = [p \in Processes |-> due[p] \/ Fires(p)]
    /\ quiet' = IF \E p \in Processes : Registered(p) THEN 0 ELSE Older(quiet)
    /\ UNCHANGED <<place, blame, spent>>

Next ==
    \/ \E p \in Processes :
        \/ Launch(p)
        \/ Register(p)
        \/ RegisterFails(p)
        \/ Heartbeat(p)
        \/ HeartbeatFails(p)
        \/ Stop(p)
        \/ Cancel(p)
        \/ MarkOffline(p)
        \/ MarkOfflineFails(p)
        \/ Crash(p)
    \/ Tick

Spec == Init /\ [][Next]_vars

-----------------------------------------------------------------------------
(* Properties.                                                             *)

(* The longest last_seen of a worker whose heartbeats succeed can be old.  *)
Oldest(p) == Interval[p] + Lag

(* MarkOnline compares last_seen with the interval of the newcomer.  A     *)
(* slow worker is replaced while it lives.                                 *)
TooSlowFor(p, q) == Oldest(p) > 2 * Interval[q]

(* Two processes work under one name only if a heartbeat of one of them    *)
(* failed, or another process set their row offline, or the one is too     *)
(* slow for the other: whatever the order of registrations (MarkOnline),   *)
(* heartbeats, stops and crashes.                                          *)
NoTwins ==
    \A p, q \in Processes :
        p # q /\ Beating(p) /\ Beating(q) =>
            \/ blame[p] \cup blame[q] # {}
            \/ TooSlowFor(p, q) \/ TooSlowFor(q, p)

(* The slip of a ListWorkers that trusts the stored status.                *)
ShownAsStored(e) == row.status

(* The status ListWorkers reports when the clock of the tracking service   *)
(* is e ahead of the database's; it reads its clock before the query.      *)
ShownStatus(e) ==
    IF row.age + e > TrackInterval THEN "offline" ELSE row.status

(* ListWorkers shows no worker as offline that sends its heartbeats and    *)
(* that nobody else set offline, one that drains included - unless its     *)
(* interval is so long that one interval of the tracking service is too    *)
(* short for it.                                                           *)
LiveIsShownOnline ==
    \A p \in Processes, e \in -Skew .. Skew :
        Beating(p) /\ blame[p] = {} /\ Oldest(p) + Skew <= TrackInterval
            => ShownStatus(e) = "online"

(* A worker that is gone, by MarkOffline, a crash or an error, is not      *)
(* shown as online for longer than the interval of the tracking service.   *)
DeadIsShownOffline ==
    \A e \in -Skew .. Skew :
        quiet > TrackInterval + Skew => ShownStatus(e) # "online"

(* After a crash the name is free again: once it has been quiet for twice  *)
(* its own interval, no process is told that the worker is already online, *)
(* as the comment above MarkOnline promises.  TASK.md asks for the         *)
(* opposite, OnlineNameIsRefused.                                          *)
NameIsFreed ==
    \A p \in Processes : quiet > 2 * Interval[p] => ~Refused(p)

(* TASK.md:401: a worker whose name is in the table and marked online must *)
(* not start.  MarkOnline takes the name over if last_seen is old.         *)
OnlineNameIsRefused ==
    [][\A p \in Processes :
          place[p] = "starting" /\ place'[p] = "working" => row.status # "online"]_vars

-----------------------------------------------------------------------------
(* The parts of the inductive invariant behind the safety properties.      *)

(* A process that is up has an interval that NewKitchen accepts.           *)
AcceptedInterval ==
    \A p \in Processes : place[p] # "down" => Interval[p] > MinHeartbeat

(* The ticker of a beating process fires in time, and a heartbeat that is  *)
(* due is at most Lag late.                                                *)
TickerRuns ==
    \A p \in Processes : Beating(p) =>
        /\ phase[p] < Interval[p]
        /\ due[p] => phase[p] <= Lag

(* last_seen is no older than the last heartbeat of any beating process    *)
(* that missed none.                                                       *)
LastSeenIsRecent ==
    \A p \in Processes : Beating(p) /\ "missed" \notin blame[p] =>
        row.age <= (IF due[p] THEN Interval[p] + phase[p] ELSE phase[p])

OnlineUnlessMarked ==
    \A p \in Processes : Beating(p) /\ "marked" \notin blame[p] => row.status = "online"

(* Only a registered process writes the row.                               *)
QuietIsOld ==
    /\ quiet <= row.age
    /\ \A p \in Processes : Registered(p) => quiet = 0

IndInv ==
    /\ AcceptedInterval
    /\ TickerRuns
    /\ LastSeenIsRecent
    /\ OnlineUnlessMarked
    /\ QuietIsOld
    /\ NoTwins
=============================================================================
