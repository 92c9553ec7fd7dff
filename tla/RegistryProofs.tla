--------------------------- MODULE RegistryProofs ---------------------------
(***************************************************************************)
(* The row of a worker name, proved for every number of processes, every   *)
(* choice of intervals and lags, and any number of faults.                 *)
(***************************************************************************)
EXTENDS WorkerRegistry, TLAPS

(* One lemma per action: the step keeps the types.                         *)
LEMMA InitTypeOK == Init => TypeOK
  BY RegistryAssumption DEF Init, TypeOK, Places, Disturbances

LEMMA DisturbTypeOK ==
  ASSUME spent \in [Disturbances -> Nat], NEW d \in Disturbances, Disturb(d)
  PROVE  spent' \in [Disturbances -> Nat]
  BY DEF Disturb

LEMMA EnterTypeOK ==
  ASSUME TypeOK, NEW p \in Processes, NEW x \in Places, Enter(p, x)
  PROVE  /\ place' \in [Processes -> Places]
         /\ phase' \in [Processes -> 0 .. Horizon]
         /\ due' \in [Processes -> BOOLEAN]
  BY RegistryAssumption DEF TypeOK, Enter

LEMMA StampTypeOK ==
  ASSUME NEW s \in {"absent", "online", "offline"}, Stamp(s)
  PROVE  row' \in [status: {"absent", "online", "offline"}, age: 0 .. Horizon]
  BY RegistryAssumption DEF Stamp

LEMMA SetOfflineTypeOK ==
  ASSUME TypeOK, NEW p \in Processes, SetOffline(p)
  PROVE  /\ row' \in [status: {"absent", "online", "offline"}, age: 0 .. Horizon]
         /\ blame' \in [Processes -> SUBSET {"missed", "marked"}]
  BY StampTypeOK DEF TypeOK, SetOffline

LEMMA OlderBounded ==
  ASSUME NEW a \in 0 .. Horizon
  PROVE  Older(a) \in 0 .. Horizon
  BY RegistryAssumption DEF Older

LEMMA TypeOKPreserved == TypeOK /\ [Next]_vars => TypeOK'
  <1> SUFFICES ASSUME TypeOK, [Next]_vars
               PROVE  TypeOK'
    OBVIOUS
  <1> USE DEF TypeOK
  <1>1. ASSUME NEW p \in Processes, Launch(p) PROVE TypeOK'
    BY <1>1, EnterTypeOK, DisturbTypeOK DEF Launch, Places, Disturbances
  <1>2. ASSUME NEW p \in Processes, Register(p) PROVE TypeOK'
    BY <1>2, EnterTypeOK, StampTypeOK, RegistryAssumption DEF Register, Places, Absolve
  <1>3. ASSUME NEW p \in Processes, RegisterFails(p) PROVE TypeOK'
    BY <1>3, EnterTypeOK, StampTypeOK, DisturbTypeOK, RegistryAssumption
       DEF RegisterFails, Places, Disturbances
  <1>4. ASSUME NEW p \in Processes, Heartbeat(p) PROVE TypeOK'
    BY <1>4, RegistryAssumption DEF Heartbeat
  <1>5. ASSUME NEW p \in Processes, HeartbeatFails(p) PROVE TypeOK'
    BY <1>5, DisturbTypeOK DEF HeartbeatFails, Disturbances
  <1>6. ASSUME NEW p \in Processes, Stop(p) PROVE TypeOK'
    BY <1>6 DEF Stop, Places
  <1>7. ASSUME NEW p \in Processes, Cancel(p) PROVE TypeOK'
    BY <1>7, EnterTypeOK DEF Cancel, Places
  <1>8. ASSUME NEW p \in Processes, MarkOffline(p) PROVE TypeOK'
    BY <1>8, EnterTypeOK, SetOfflineTypeOK DEF MarkOffline, Places
  <1>9. ASSUME NEW p \in Processes, MarkOfflineFails(p) PROVE TypeOK'
    BY <1>9, EnterTypeOK, SetOfflineTypeOK, DisturbTypeOK
       DEF MarkOfflineFails, Places, Disturbances
  <1>10. ASSUME NEW p \in Processes, Crash(p) PROVE TypeOK'
    BY <1>10, EnterTypeOK, DisturbTypeOK DEF Crash, Places, Disturbances
  <1>11. CASE Tick
    BY <1>11, OlderBounded, RegistryAssumption DEF Tick
  <1>12. CASE UNCHANGED vars
    BY <1>12 DEF vars
  <1> QED
    BY <1>1, <1>2, <1>3, <1>4, <1>5, <1>6, <1>7, <1>8, <1>9, <1>10, <1>11, <1>12 DEF Next

(* Every action of the registry keeps the row and the processes well       *)
(* formed, whatever the intervals are.                                     *)
THEOREM TypeCorrect == Spec => []TypeOK
  BY InitTypeOK, TypeOKPreserved, PTL DEF Spec

-----------------------------------------------------------------------------
(* The invariant.  A process that enters a place other than the ones where *)
(* heartbeats are sent leaves the others as they are.                      *)

LEMMA Constants ==
  /\ MinHeartbeat \in Nat /\ Lag \in Nat /\ Lag < MinHeartbeat
  /\ TrackInterval \in Nat /\ Skew \in Nat /\ Horizon \in Nat
  /\ \A p \in Processes : Interval[p] \in Nat
  BY RegistryAssumption

LEMMA Numbers ==
  ASSUME TypeOK
  PROVE  /\ row.age \in Nat /\ quiet \in Nat
         /\ \A p \in Processes : phase[p] \in Nat
  BY Constants DEF TypeOK

LEMMA InitIndInv == Init => IndInv
  BY RegistryAssumption
     DEF Init, IndInv, AcceptedInterval, TickerRuns, LastSeenIsRecent,
         OnlineUnlessMarked, QuietIsOld, NoTwins, Beating, Registered

(* What a process does that sends no heartbeats afterwards: the row stays, *)
(* or is stamped, and the other processes stay as they are.  The row may   *)
(* turn offline if those that beat are blamed for it.                      *)
LEMMA LeavingIndInv ==
  ASSUME TypeOK, IndInv, NEW p \in Processes, NEW x \in Places,
         Enter(p, x), x \notin {"working", "draining"},
         x # "down" => Interval[p] > MinHeartbeat,
         x = "cancelled" => Registered(p),
         \A q \in Processes : blame[q] \subseteq blame'[q],
         (row'.age = row.age /\ quiet' = quiet) \/ (row'.age = 0 /\ quiet' = 0),
         \/ row'.status \in {row.status, "online"}
         \/ \A q \in Processes : q # p /\ Beating(q) => "marked" \in blame'[q]
  PROVE  IndInv'
  <1> USE DEF Enter, Beating, IndInv, TypeOK
  <1>1. AcceptedInterval'
    BY DEF AcceptedInterval
  <1>2. TickerRuns'
    BY DEF TickerRuns
  <1>3. LastSeenIsRecent'
    <2> SUFFICES ASSUME NEW q \in Processes, Beating(q)', "missed" \notin blame'[q]
                 PROVE  row'.age <= (IF due[q] THEN Interval[q] + phase[q] ELSE phase[q])
      BY DEF LastSeenIsRecent
    <2>1. row.age <= (IF due[q] THEN Interval[q] + phase[q] ELSE phase[q])
      BY DEF LastSeenIsRecent
    <2> QED
      BY <2>1, Constants, Numbers
  <1>4. OnlineUnlessMarked'
    BY DEF OnlineUnlessMarked
  <1>5. QuietIsOld'
    BY DEF QuietIsOld, Registered
  <1>6. NoTwins'
    BY DEF NoTwins, TooSlowFor, Oldest
  <1> QED
    BY <1>1, <1>2, <1>3, <1>4, <1>5, <1>6

LEMMA LaunchIndInv ==
  ASSUME TypeOK, IndInv, NEW p \in Processes, Launch(p)
  PROVE  IndInv'
  <1>1. /\ Enter(p, "starting")
        /\ Interval[p] > MinHeartbeat
        /\ row' = row /\ blame' = blame /\ quiet' = quiet
    BY DEF Launch
  <1> QED
    BY <1>1, LeavingIndInv DEF Places

LEMMA RegisterFailsIndInv ==
  ASSUME TypeOK, IndInv, NEW p \in Processes, RegisterFails(p)
  PROVE  IndInv'
  <1>1. (row'.age = row.age /\ quiet' = quiet) \/ (row'.age = 0 /\ quiet' = 0)
    BY DEF RegisterFails, Stamp
  <1>2. row'.status \in {row.status, "online"}
    BY DEF RegisterFails, Stamp
  <1>3. /\ Enter(p, "down")
        /\ blame' = blame
    BY DEF RegisterFails
  <1> QED
    BY <1>1, <1>2, <1>3, LeavingIndInv DEF Places

LEMMA CancelIndInv ==
  ASSUME TypeOK, IndInv, NEW p \in Processes, Cancel(p)
  PROVE  IndInv'
  <1>1. /\ Enter(p, "cancelled")
        /\ row' = row /\ blame' = blame /\ quiet' = quiet
    BY DEF Cancel
  <1>2. Interval[p] > MinHeartbeat /\ Registered(p)
    BY DEF Cancel, IndInv, AcceptedInterval, Registered, Beating
  <1> QED
    BY <1>1, <1>2, LeavingIndInv DEF Places

(* SetOffline blames the process for every other that still beats.         *)
LEMMA SetOfflineEffect ==
  ASSUME TypeOK, IndInv, NEW p \in Processes, SetOffline(p), UNCHANGED quiet,
         place[p] = "cancelled", Enter(p, "down")
  PROVE  IndInv'
  <1>1. \A q \in Processes : blame[q] \subseteq blame'[q]
    BY DEF SetOffline, TypeOK
  <1>2. \A q \in Processes : q # p /\ Beating(q) => "marked" \in blame'[q]
    BY DEF SetOffline, TypeOK
  <1>3. row'.age = 0 /\ quiet = 0
    BY DEF SetOffline, Stamp, IndInv, QuietIsOld, Registered
  <1> QED
    BY <1>1, <1>2, <1>3, LeavingIndInv DEF Places

LEMMA MarkOfflineIndInv ==
  ASSUME TypeOK, IndInv, NEW p \in Processes, MarkOffline(p)
  PROVE  IndInv'
  BY SetOfflineEffect DEF MarkOffline

LEMMA MarkOfflineFailsIndInv ==
  ASSUME TypeOK, IndInv, NEW p \in Processes, MarkOfflineFails(p)
  PROVE  IndInv'
  <1>1. CASE SetOffline(p)
    BY <1>1, SetOfflineEffect DEF MarkOfflineFails
  <1>2. CASE UNCHANGED <<row, blame>>
    <2>1. Enter(p, "down") /\ row' = row /\ blame' = blame /\ quiet' = quiet
      BY <1>2 DEF MarkOfflineFails
    <2> QED
      BY <2>1, LeavingIndInv DEF Places
  <1> QED
    BY <1>1, <1>2 DEF MarkOfflineFails

LEMMA CrashIndInv ==
  ASSUME TypeOK, IndInv, NEW p \in Processes, Crash(p)
  PROVE  IndInv'
  <1>1. Enter(p, "down") /\ row' = row /\ blame' = blame /\ quiet' = quiet
    BY DEF Crash
  <1> QED
    BY <1>1, LeavingIndInv DEF Places

(* The newcomer's twin, if there is one, either is to blame or was too     *)
(* slow: LastSeenIsRecent and TickerRuns bound the age of its last_seen.   *)
LEMMA ReplacedIsTooSlow ==
  ASSUME TypeOK, IndInv, NEW p \in Processes, ~Refused(p),
         NEW q \in Processes, Beating(q), blame[q] = {}
  PROVE  TooSlowFor(q, p)
  <1>1. row.status = "online"
    BY DEF IndInv, OnlineUnlessMarked
  <1>2. row.age > 2 * Interval[p]
    BY <1>1, Constants, Numbers DEF Refused
  <1>3. /\ phase[q] < Interval[q]
        /\ due[q] => phase[q] <= Lag
    BY DEF IndInv, TickerRuns
  <1>4. row.age <= (IF due[q] THEN Interval[q] + phase[q] ELSE phase[q])
    BY DEF IndInv, LastSeenIsRecent
  <1> QED
    BY <1>2, <1>3, <1>4, Constants, Numbers DEF TooSlowFor, Oldest

LEMMA RegisterIndInv ==
  ASSUME TypeOK, IndInv, NEW p \in Processes, Register(p)
  PROVE  IndInv'
  <1> USE DEF Register, Enter, Stamp, Absolve, Beating, IndInv
  <1>0. /\ Interval[p] > 0
        /\ TypeOK
    BY Constants DEF AcceptedInterval
  <1>1. AcceptedInterval'
    BY <1>0 DEF AcceptedInterval, TypeOK
  <1>2. TickerRuns'
    BY <1>0 DEF TickerRuns, TypeOK
  <1>3. LastSeenIsRecent'
    <2> SUFFICES ASSUME NEW q \in Processes
                 PROVE  0 <= (IF due'[q] THEN Interval[q] + phase'[q] ELSE phase'[q])
      BY DEF LastSeenIsRecent
    <2>1. phase'[q] \in Nat
      BY Numbers DEF TypeOK
    <2> QED
      BY <2>1, Constants
  <1>4. OnlineUnlessMarked' /\ QuietIsOld'
    BY DEF OnlineUnlessMarked, QuietIsOld, Registered
  <1>5. NoTwins'
    <2> SUFFICES ASSUME NEW q \in Processes, NEW r \in Processes,
                        q # r, Beating(q)', Beating(r)', blame'[q] \cup blame'[r] = {}
                 PROVE  TooSlowFor(q, r) \/ TooSlowFor(r, q)
      BY DEF NoTwins, TooSlowFor, Oldest
    <2>1. CASE q # p /\ r # p
      BY <2>1, <1>0 DEF NoTwins, TypeOK
    <2>2. CASE q = p
      BY <2>2, <1>0, ReplacedIsTooSlow DEF TypeOK
    <2>3. CASE r = p
      BY <2>3, <1>0, ReplacedIsTooSlow DEF TypeOK
    <2> QED
      BY <2>1, <2>2, <2>3
  <1> QED
    BY <1>1, <1>2, <1>3, <1>4, <1>5

LEMMA HeartbeatIndInv ==
  ASSUME TypeOK, IndInv, NEW p \in Processes, Heartbeat(p)
  PROVE  IndInv'
  <1> USE DEF Heartbeat, Beating, IndInv
  <1>1. /\ row'.age = 0 /\ row'.status = row.status
        /\ quiet = 0
    BY DEF TypeOK, QuietIsOld, Registered
  <1>2. AcceptedInterval' /\ OnlineUnlessMarked'
    BY <1>1 DEF AcceptedInterval, OnlineUnlessMarked
  <1>3. TickerRuns'
    BY DEF TickerRuns, TypeOK
  <1>4. LastSeenIsRecent'
    BY <1>1, Constants, Numbers DEF LastSeenIsRecent
  <1>5. QuietIsOld'
    BY <1>1 DEF QuietIsOld, Registered
  <1>6. NoTwins'
    BY DEF NoTwins, TooSlowFor, Oldest
  <1> QED
    BY <1>2, <1>3, <1>4, <1>5, <1>6

LEMMA HeartbeatFailsIndInv ==
  ASSUME TypeOK, IndInv, NEW p \in Processes, HeartbeatFails(p)
  PROVE  IndInv'
  <1> USE DEF HeartbeatFails, Beating, IndInv, TypeOK
  <1>1. AcceptedInterval' /\ OnlineUnlessMarked' /\ QuietIsOld'
    BY DEF AcceptedInterval, OnlineUnlessMarked, QuietIsOld, Registered
  <1>2. TickerRuns'
    BY DEF TickerRuns
  <1>3. LastSeenIsRecent'
    BY DEF LastSeenIsRecent
  <1>4. NoTwins'
    BY DEF NoTwins, TooSlowFor, Oldest
  <1> QED
    BY <1>1, <1>2, <1>3, <1>4

LEMMA StopIndInv ==
  ASSUME TypeOK, IndInv, NEW p \in Processes, Stop(p)
  PROVE  IndInv'
  <1> USE DEF Stop, Beating, IndInv, TypeOK
  <1>1. AcceptedInterval' /\ OnlineUnlessMarked' /\ QuietIsOld'
    BY DEF AcceptedInterval, OnlineUnlessMarked, QuietIsOld, Registered
  <1>2. TickerRuns' /\ LastSeenIsRecent'
    BY DEF TickerRuns, LastSeenIsRecent
  <1>3. NoTwins'
    BY DEF NoTwins, TooSlowFor, Oldest
  <1> QED
    BY <1>1, <1>2, <1>3

(* Time.  A ticker that fires has no heartbeat left to do, because its     *)
(* interval is longer than Lag: this is where AcceptedInterval is needed.  *)
LEMMA TickIndInv ==
  ASSUME TypeOK, IndInv, Tick
  PROVE  IndInv'
  <1> USE DEF IndInv
  <1>1. AcceptedInterval' /\ OnlineUnlessMarked'
    BY DEF AcceptedInterval, OnlineUnlessMarked, Tick, Beating, TypeOK
  <1>2. ASSUME NEW p \in Processes, Beating(p)
        PROVE  /\ Interval[p] > Lag + 1
               /\ phase[p] < Interval[p]
               /\ due[p] => phase[p] < Lag
               /\ Interval[p] + Lag < Horizon
               /\ phase'[p] = IF phase[p] + 1 >= Interval[p] THEN 0 ELSE phase[p] + 1
               /\ due'[p] <=> (due[p] \/ phase[p] + 1 >= Interval[p])
    <2>1. Interval[p] > MinHeartbeat /\ phase[p] < Interval[p] /\ place[p] # "down"
      BY <1>2 DEF AcceptedInterval, TickerRuns, Beating
    <2>2. Interval[p] > Lag + 1 /\ Interval[p] + Lag < Horizon
      BY <2>1, Constants, RegistryAssumption
    <2>3. due[p] => phase[p] < Lag
      BY <1>2 DEF Tick, Punctual
    <2>4. Older(phase[p]) = phase[p] + 1
      BY <2>1, <2>2, Constants, Numbers DEF Older
    <2>5. phase'[p] = IF phase[p] + 1 >= Interval[p] THEN 0 ELSE phase[p] + 1
      BY <1>2, <2>4 DEF Tick, Fires, Registered
    <2>6. due'[p] <=> (due[p] \/ phase[p] + 1 >= Interval[p])
      BY <1>2 DEF Tick, Fires, TypeOK
    <2> QED
      BY <2>1, <2>2, <2>3, <2>5, <2>6
  <1>3. \A p \in Processes : Beating(p)' <=> Beating(p)
    BY DEF Tick, Beating
  <1>4. TickerRuns'
    BY <1>2, <1>3, Constants, Numbers DEF TickerRuns
  <1>5. row'.age = Older(row.age) /\ row'.status = row.status
    BY DEF Tick, TypeOK
  <1>6. LastSeenIsRecent'
    <2> SUFFICES ASSUME NEW p \in Processes, Beating(p), "missed" \notin blame[p]
                 PROVE  row'.age <= (IF due'[p] THEN Interval[p] + phase'[p] ELSE phase'[p])
      BY <1>3 DEF LastSeenIsRecent, Tick
    <2>1. row.age <= (IF due[p] THEN Interval[p] + phase[p] ELSE phase[p])
      BY DEF LastSeenIsRecent
    <2>2. row'.age <= row.age + 1
      BY <1>5, Constants, Numbers DEF Older
    <2>3. row'.age \in Nat
      BY <1>5, Constants, Numbers DEF Older
    <2> QED
      BY <1>2, <2>1, <2>2, <2>3, Constants, Numbers
  <1>7. QuietIsOld'
    <2>1. \A p \in Processes : Registered(p)' <=> Registered(p)
      BY DEF Tick, Registered, Beating
    <2>2. quiet' = 0 \/ (quiet' = Older(quiet) /\ \A p \in Processes : ~Registered(p))
      BY DEF Tick
    <2>3. (\E p \in Processes : Registered(p)) => quiet' = 0
      BY DEF Tick
    <2>4. quiet' <= row'.age
      BY <1>5, <2>2, Constants, Numbers DEF QuietIsOld, Older, TypeOK
    <2> QED
      BY <2>1, <2>3, <2>4 DEF QuietIsOld
  <1>8. NoTwins'
    BY DEF NoTwins, TooSlowFor, Oldest, Tick, Beating
  <1> QED
    BY <1>1, <1>4, <1>6, <1>7, <1>8

LEMMA IndInvPreserved == TypeOK /\ IndInv /\ [Next]_vars => IndInv'
  <1> SUFFICES ASSUME TypeOK, IndInv, [Next]_vars
               PROVE  IndInv'
    OBVIOUS
  <1>1. CASE UNCHANGED vars
    BY <1>1 DEF vars, IndInv, AcceptedInterval, TickerRuns, LastSeenIsRecent,
       OnlineUnlessMarked, QuietIsOld, NoTwins, Beating, Registered, TooSlowFor, Oldest
  <1>2. CASE Tick
    BY <1>2, TickIndInv
  <1> QED
    BY <1>1, <1>2, LaunchIndInv, RegisterIndInv, RegisterFailsIndInv, HeartbeatIndInv,
       HeartbeatFailsIndInv, StopIndInv, CancelIndInv, MarkOfflineIndInv,
       MarkOfflineFailsIndInv, CrashIndInv DEF Next

(* heartbeatLoop keeps last_seen within one interval and Lag, and the row  *)
(* online, for every process that misses no heartbeat and that no other    *)
(* process marked.                                                         *)
THEOREM InductiveInvariant == Spec => []IndInv
  BY InitTypeOK, TypeOKPreserved, InitIndInv, IndInvPreserved, PTL DEF Spec

(* MarkOnline lets two processes work under one name only after a failed   *)
(* heartbeat, a MarkOffline of another, or with intervals that differ too  *)
(* much: for any number of processes and faults.                           *)
THEOREM NamesAreExclusive == Spec => []NoTwins
  <1>1. IndInv => NoTwins
    BY DEF IndInv
  <1> QED
    BY <1>1, InductiveInvariant, PTL

(* ListWorkers shows a worker that sends its heartbeats as online.         *)
THEOREM LiveWorkersAreShown == Spec => []LiveIsShownOnline
  <1>1. ASSUME TypeOK, IndInv PROVE LiveIsShownOnline
    <2> SUFFICES ASSUME NEW p \in Processes, NEW e \in -Skew .. Skew, Beating(p),
                        blame[p] = {}, Oldest(p) + Skew <= TrackInterval
                 PROVE  ShownStatus(e) = "online"
      BY DEF LiveIsShownOnline
    <2>1. row.status = "online"
      BY <1>1 DEF IndInv, OnlineUnlessMarked
    <2>2. /\ phase[p] < Interval[p]
          /\ due[p] => phase[p] <= Lag
          /\ row.age <= (IF due[p] THEN Interval[p] + phase[p] ELSE phase[p])
      BY <1>1 DEF IndInv, TickerRuns, LastSeenIsRecent
    <2>3. row.age + e <= TrackInterval
      BY <1>1, <2>2, Constants, Numbers DEF Oldest
    <2> QED
      BY <1>1, <2>1, <2>3, Constants, Numbers DEF ShownStatus
  <1> QED
    BY <1>1, TypeCorrect, InductiveInvariant, PTL

(* ListWorkers does not show a worker as online that is long gone.         *)
THEOREM DeadWorkersAreNotShown == Spec => []DeadIsShownOffline
  <1>1. ASSUME TypeOK, IndInv PROVE DeadIsShownOffline
    BY <1>1, Constants, Numbers DEF DeadIsShownOffline, ShownStatus, IndInv, QuietIsOld
  <1> QED
    BY <1>1, TypeCorrect, InductiveInvariant, PTL

(* A name is free again two intervals after its last worker has gone.      *)
THEOREM NamesAreFreed == Spec => []NameIsFreed
  <1>1. ASSUME TypeOK, IndInv PROVE NameIsFreed
    BY <1>1, Constants, Numbers DEF NameIsFreed, Refused, IndInv, QuietIsOld
  <1> QED
    BY <1>1, TypeCorrect, InductiveInvariant, PTL
=============================================================================
