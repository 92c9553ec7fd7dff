---------------------------- MODULE KitchenProofs ---------------------------
(***************************************************************************)
(* Theorems about Kitchen, for every number of orders, types and workers,  *)
(* every prefetch, every number of attempts and every budget of            *)
(* disturbances.                                                           *)
(***************************************************************************)
EXTENDS Kitchen, TLAPS

-----------------------------------------------------------------------------
(* The operations on the stores and on the broker keep their types.        *)

LEMMA StoreFrame == StoreTypeOK /\ UNCHANGED storeVars => StoreTypeOK'
  BY DEF StoreTypeOK, storeVars

LEMMA CreateType ==
    ASSUME StoreTypeOK, NEW o \in Orders, Create(o) PROVE StoreTypeOK'
<1>1. orders' \in [Orders -> OrderRow]
  BY DEF StoreTypeOK, Create, OrderRow, OrderStatuses
<1>2. [status |-> "received", by |-> NoWorker] \in LogEntry
  BY DEF LogEntry, OrderStatuses
<1>3. statusLog' \in [Orders -> Seq(LogEntry)]
  BY <1>2 DEF StoreTypeOK, Create
<1>. QED
  BY <1>1, <1>3 DEF StoreTypeOK

LEMMA SetStatusType ==
    ASSUME StoreTypeOK, NEW o, NEW w \in Workers, NEW s \in {"cooking", "ready"},
           SetStatus(o, w, s)
    PROVE  StoreTypeOK'
<1>1. \A row \in OrderRow :
        [status |-> s, by |-> w, completed |-> row.completed \/ s = "ready"] \in OrderRow
  BY DEF OrderRow, OrderStatuses
<1>. DEFINE Updated(row) ==
        [status |-> s, by |-> w, completed |-> row.completed \/ s = "ready"]
<1>2. orders' \in [Orders -> OrderRow]
  <2>1. orders' = [orders EXCEPT ![o] = Updated(orders[o])]
    BY DEF SetStatus
  <2>2. \A row \in OrderRow : Updated(row) \in OrderRow
    BY <1>1
  <2>. HIDE DEF Updated
  <2>. QED
    BY <2>1, <2>2 DEF StoreTypeOK
<1>3. [status |-> s, by |-> w] \in LogEntry
  BY DEF LogEntry, OrderStatuses
<1>4. statusLog' \in [Orders -> Seq(LogEntry)]
  <2>1. CASE o \in Orders
    BY <1>3, <2>1 DEF StoreTypeOK, SetStatus
  <2>2. CASE o \notin Orders
    BY <2>2 DEF StoreTypeOK, SetStatus
  <2>. QED
    BY <2>1, <2>2
<1>. QED
  BY <1>2, <1>4 DEF StoreTypeOK

LEMMA BrokerFrame == BrokerTypeOK /\ UNCHANGED brokerVars => BrokerTypeOK'
  BY DEF BrokerTypeOK, brokerVars

LEMMA PublishType ==
    ASSUME BrokerTypeOK, NEW o \in Orders, Publish(o) PROVE BrokerTypeOK'
  BY DEF BrokerTypeOK, Publish, MessageStates

LEMMA PushToType ==
    ASSUME BrokerTypeOK, NEW o \in Orders, NEW w \in Workers, PushTo(o, w)
    PROVE  BrokerTypeOK'
  BY DEF BrokerTypeOK, PushTo, MessageStates

LEMMA SettleType ==
    ASSUME BrokerTypeOK, NEW o, NEW w \in Workers,
           NEW to \in {"ready", "acked", "dead"}, Settle(o, w, to)
    PROVE  BrokerTypeOK'
  BY DEF BrokerTypeOK, Settle, MessageStates, brokerVars

LEMMA RequeueType ==
    ASSUME BrokerTypeOK, NEW w \in Workers, RequeueDeliveries(w) PROVE BrokerTypeOK'
  BY DEF BrokerTypeOK, RequeueDeliveries, MessageStates

LEMMA WorkerStoreFrame == WorkerStoreTypeOK /\ UNCHANGED workers => WorkerStoreTypeOK'
  BY DEF WorkerStoreTypeOK

LEMMA WorkerStoreType ==
    ASSUME WorkerStoreTypeOK, NEW w \in Workers,
           \/ MarkOnline(w)
           \/ MarkOffline(w)
           \/ IncrOrdersProcessed(w)
           \/ LastSeenLapses(w)
    PROVE  WorkerStoreTypeOK'
<1>1. CASE MarkOnline(w)
  BY <1>1 DEF WorkerStoreTypeOK, WorkerRow, MarkOnline
<1>2. CASE MarkOffline(w)
  BY <1>2 DEF WorkerStoreTypeOK, WorkerRow, MarkOffline
<1>3. CASE IncrOrdersProcessed(w)
  BY <1>3 DEF WorkerStoreTypeOK, WorkerRow, IncrOrdersProcessed
<1>4. CASE LastSeenLapses(w)
  BY <1>4 DEF WorkerStoreTypeOK, WorkerRow, LastSeenLapses
<1>. QED
  BY <1>1, <1>2, <1>3, <1>4

-----------------------------------------------------------------------------
(* The state of the worker processes.                                      *)

PcType == pc \in [Workers -> [Threads -> ThreadPc]]
TaskType == task \in [Workers -> [OrderTypes -> TaskPc]]
CurType == cur \in [Workers -> [OrderTypes -> Orders \cup {NoOrder}]]
BufType == buf \in [Workers -> SUBSET Orders]
SubType == sub \in [Workers -> SUBSET OrderTypes]
ProcType == proc \in [Workers -> Process]
NotesType == notes \subseteq Orders \X {"cooking", "ready"} \X Workers
SpentType == spent \in [Disturbances -> Nat]

LEMMA TypeParts ==
    ASSUME TypeOK
    PROVE  /\ StoreTypeOK /\ BrokerTypeOK /\ WorkerStoreTypeOK
           /\ PcType /\ TaskType /\ CurType /\ BufType /\ SubType
           /\ ProcType /\ NotesType /\ SpentType
  BY DEF TypeOK, PcType, TaskType, CurType, BufType, SubType, ProcType, NotesType, SpentType

LEMMA TypeFromParts ==
    ASSUME StoreTypeOK', BrokerTypeOK', WorkerStoreTypeOK',
           PcType', TaskType', CurType', BufType', SubType',
           ProcType', NotesType', SpentType'
    PROVE  TypeOK'
  BY DEF TypeOK, PcType, TaskType, CurType, BufType, SubType, ProcType, NotesType, SpentType

(* What a step leaves alone keeps its type.                                *)
LEMMA TypeFrame ==
    ASSUME TypeOK
    PROVE  /\ UNCHANGED storeVars => StoreTypeOK'
           /\ UNCHANGED brokerVars => BrokerTypeOK'
           /\ UNCHANGED workers => WorkerStoreTypeOK'
           /\ UNCHANGED taskVars => TaskType' /\ CurType' /\ BufType' /\ SubType'
           /\ UNCHANGED pc => PcType'
           /\ UNCHANGED task => TaskType'
           /\ UNCHANGED cur => CurType'
           /\ UNCHANGED buf => BufType'
           /\ UNCHANGED sub => SubType'
           /\ UNCHANGED proc => ProcType'
           /\ UNCHANGED notes => NotesType'
           /\ UNCHANGED spent => SpentType'
<1>1. UNCHANGED taskVars => TaskType' /\ CurType' /\ BufType' /\ SubType'
  BY DEF TypeOK, TaskType, CurType, BufType, SubType, taskVars
<1>2. /\ UNCHANGED pc => PcType'
      /\ UNCHANGED task => TaskType'
      /\ UNCHANGED cur => CurType'
      /\ UNCHANGED buf => BufType'
      /\ UNCHANGED sub => SubType'
  BY DEF TypeOK, PcType, TaskType, CurType, BufType, SubType
<1>3. /\ UNCHANGED proc => ProcType'
      /\ UNCHANGED notes => NotesType'
      /\ UNCHANGED spent => SpentType'
  BY DEF TypeOK, ProcType, NotesType, SpentType
<1>. QED
  BY <1>1, <1>2, <1>3, StoreFrame, BrokerFrame, WorkerStoreFrame DEF TypeOK

LEMMA DisturbType ==
    ASSUME SpentType, NEW d \in Disturbances, Disturb(d) PROVE SpentType'
  BY DEF SpentType, Disturb

LEMMA GotoType ==
    ASSUME PcType, NEW w \in Workers, NEW g \in Threads, NEW place \in ThreadPc,
           Goto(w, g, place)
    PROVE  PcType'
  BY DEF PcType, Goto

LEMMA AtType ==
    ASSUME TaskType, NEW w \in Workers, NEW t \in OrderTypes, NEW place \in TaskPc,
           At(w, t, place)
    PROVE  TaskType'
  BY DEF TaskType, At

LEMMA ProcessValues ==
    /\ NewProcess \in Process
    /\ \A how \in {"idle", "ok", "error", "panic", "killed"} : Ended(how) \in Process
  BY DEF NewProcess, Ended, Process, Threads

(* The updates of one process that the actions make.                       *)
LEMMA ProcessUpdates ==
    ASSUME NEW p \in Process
    PROVE  /\ [p EXCEPT !.signal = TRUE] \in Process
           /\ [p EXCEPT !.signal = FALSE] \in Process
           /\ [p EXCEPT !.connUp = FALSE] \in Process
           /\ [p EXCEPT !.connUp = TRUE] \in Process
           /\ [p EXCEPT !.expired = TRUE] \in Process
           /\ [p EXCEPT !.cancelled = TRUE] \in Process
           /\ [p EXCEPT !.isWorking = TRUE] \in Process
           /\ [p EXCEPT !.isWorking = FALSE, !.mu = "free"] \in Process
           /\ [p EXCEPT !.errCh = << >>] \in Process
           /\ [p EXCEPT !.errCh = << >>, !.attempts = 0] \in Process
           /\ [p EXCEPT !.attempts = @ + 1, !.signal = FALSE] \in Process
           /\ [NewProcess EXCEPT !.signal = p.signal, !.orphan = TRUE] \in Process
<1>1. /\ [p EXCEPT !.signal = TRUE] \in Process
      /\ [p EXCEPT !.signal = FALSE] \in Process
      /\ [p EXCEPT !.connUp = FALSE] \in Process
      /\ [p EXCEPT !.connUp = TRUE] \in Process
  BY DEF Process
<1>2. /\ [p EXCEPT !.expired = TRUE] \in Process
      /\ [p EXCEPT !.cancelled = TRUE] \in Process
      /\ [p EXCEPT !.isWorking = TRUE] \in Process
  BY DEF Process
<1>3. [p EXCEPT !.isWorking = FALSE, !.mu = "free"] \in Process
  BY DEF Process
<1>4. [p EXCEPT !.errCh = << >>] \in Process
  BY DEF Process
<1>5. [p EXCEPT !.errCh = << >>, !.attempts = 0] \in Process
  BY DEF Process
<1>6. [p EXCEPT !.attempts = @ + 1, !.signal = FALSE] \in Process
  <2>1. p.attempts + 1 \in Nat
    BY DEF Process
  <2>2. \A n \in Nat : [p EXCEPT !.attempts = n, !.signal = FALSE] \in Process
    BY DEF Process
  <2>. QED
    BY <2>1, <2>2, Zenon
<1>7. [NewProcess EXCEPT !.signal = p.signal, !.orphan = TRUE] \in Process
  <2>1. p.signal \in BOOLEAN
    BY DEF Process
  <2>2. \A q \in Process, b \in BOOLEAN : [q EXCEPT !.signal = b, !.orphan = TRUE] \in Process
    BY DEF Process
  <2>. QED
    BY <2>1, <2>2, ProcessValues, Zenon
<1>. QED
  BY <1>1, <1>2, <1>3, <1>4, <1>5, <1>6, <1>7

LEMMA DropConsumersType ==
    ASSUME TypeOK, NEW w \in Workers, DropConsumers(w)
    PROVE  BrokerTypeOK' /\ TaskType' /\ CurType' /\ BufType' /\ SubType'
<1>1. BrokerTypeOK'
  BY RequeueType DEF TypeOK, DropConsumers
<1>2. TaskType'
  BY DEF TypeOK, DropConsumers, TaskType, NoTasks, TaskPc
<1>3. CurType'
  BY DEF TypeOK, DropConsumers, CurType, NothingTaken
<1>4. BufType' /\ SubType'
  BY DEF TypeOK, DropConsumers, BufType, SubType
<1>. QED
  BY <1>1, <1>2, <1>3, <1>4

LEMMA DieType ==
    ASSUME TypeOK, NEW w \in Workers, NEW how \in {"ok", "error", "panic", "killed"},
           Die(w, how)
    PROVE  /\ BrokerTypeOK' /\ TaskType' /\ CurType' /\ BufType' /\ SubType'
           /\ PcType' /\ ProcType'
<1>1. PcType'
  BY DEF TypeOK, Die, PcType, NoThreads, ThreadPc
<1>2. ProcType'
  BY ProcessValues DEF TypeOK, Die, ProcType
<1>. QED
  BY <1>1, <1>2, DropConsumersType DEF Die

LEMMA BeginCloseType ==
    ASSUME PcType, ProcType, NEW w \in Workers, NEW why \in {"ok", "error", "resume"},
           NEW p \in Process, BeginClose(w, why, p)
    PROVE  PcType' /\ ProcType'
<1>1. PcType'
  BY GotoType DEF BeginClose, ThreadPc, Threads
<1>2. [p EXCEPT !.after = why, !.expired = FALSE] \in Process
  BY DEF Process
<1>3. ProcType'
  BY <1>2 DEF BeginClose, ProcType
<1>. QED
  BY <1>1, <1>3

LEMMA TypeInit == Init => TypeOK
<1>. SUFFICES ASSUME Init PROVE TypeOK
  OBVIOUS
<1>1. NoThreads \in [Threads -> ThreadPc]
  BY DEF NoThreads, ThreadPc
<1>2. StoreTypeOK
  BY DEF Init, StoreInit, StoreTypeOK, NoRow, OrderRow, LogEntry, OrderStatuses
<1>3. BrokerTypeOK /\ WorkerStoreTypeOK
  BY DEF Init, BrokerInit, BrokerTypeOK, MessageStates, WorkerStoreInit,
         WorkerStoreTypeOK, WorkerRow
<1>. QED
  BY <1>1, <1>2, <1>3, ProcessValues DEF Init, TypeOK, NoTasks, TaskPc, NothingTaken

-----------------------------------------------------------------------------
(* Every step keeps the types: one case per action.                        *)

LEMMA TypeOrderPlaced ==
    ASSUME TypeOK, NEW o \in Orders, OrderPlaced(o)
    PROVE  TypeOK'
<1>1. StoreTypeOK' /\ BrokerTypeOK'
  BY TypeParts, CreateType, PublishType DEF OrderPlaced
<1>. QED
  BY <1>1, TypeFrame, TypeFromParts DEF OrderPlaced

LEMMA TypeDeliver ==
    ASSUME TypeOK, NEW w \in Workers, NEW o \in Orders, Deliver(w, o)
    PROVE  TypeOK'
<1>1. BrokerTypeOK'
  BY TypeParts, PushToType DEF Deliver
<1>2. BufType'
  BY TypeParts DEF Deliver, BufType
<1>. QED
  BY <1>1, <1>2, TypeFrame, TypeFromParts DEF Deliver

LEMMA TypeSurroundings ==
    ASSUME TypeOK, NEW w \in Workers,
           \/ StartWorker(w) \/ Signal(w) \/ Crash(w)
           \/ ConnLost(w) \/ Lapse(w) \/ CloseTimeout(w)
    PROVE  TypeOK'
<1>1. CASE StartWorker(w)
  <2>1. PcType'
    BY <1>1, TypeParts DEF StartWorker, PcType, StartedThreads, ThreadPc
  <2>2. ProcType'
    BY <1>1, TypeParts, ProcessValues DEF StartWorker, ProcType
  <2>3. SpentType'
    BY <1>1, TypeParts, DisturbType DEF StartWorker, Disturbances
  <2>. QED
    BY <1>1, <2>1, <2>2, <2>3, TypeFrame, TypeFromParts DEF StartWorker
<1>2. CASE Signal(w)
  <2>1. ProcType'
    BY <1>2, TypeParts, ProcessUpdates, Zenon DEF Signal, ProcType
  <2>2. SpentType'
    BY <1>2, TypeParts, DisturbType DEF Signal, Disturbances
  <2>. QED
    BY <1>2, <2>1, <2>2, TypeFrame, TypeFromParts DEF Signal
<1>3. CASE Crash(w)
  <2>1. BrokerTypeOK' /\ TaskType' /\ CurType' /\ BufType' /\ SubType' /\ PcType' /\ ProcType'
    BY <1>3, TypeParts, DieType DEF Crash
  <2>2. SpentType'
    BY <1>3, TypeParts, DisturbType DEF Crash, Disturbances
  <2>. QED
    BY <1>3, <2>1, <2>2, TypeFrame, TypeFromParts DEF Crash
<1>4. CASE ConnLost(w)
  <2>1. ProcType'
    BY <1>4, TypeParts, ProcessUpdates, Zenon DEF ConnLost, ProcType
  <2>2. BufType' /\ SubType'
    BY <1>4, TypeParts DEF ConnLost, BufType, SubType
  <2>3. BrokerTypeOK'
    BY <1>4, TypeParts, RequeueType DEF ConnLost
  <2>4. SpentType'
    BY <1>4, TypeParts, DisturbType DEF ConnLost, Disturbances
  <2>. QED
    BY <1>4, <2>1, <2>2, <2>3, <2>4, TypeFrame, TypeFromParts DEF ConnLost
<1>5. CASE Lapse(w)
  <2>1. WorkerStoreTypeOK'
    BY <1>5, TypeParts, WorkerStoreType DEF Lapse
  <2>. QED
    BY <1>5, <2>1, TypeFrame, TypeFromParts DEF Lapse
<1>6. CASE CloseTimeout(w)
  <2>1. ProcType'
    BY <1>6, TypeParts, ProcessUpdates, Zenon DEF CloseTimeout, ProcType
  <2>. QED
    BY <1>6, <2>1, TypeFrame, TypeFromParts DEF CloseTimeout
<1>. QED
  BY <1>1, <1>2, <1>3, <1>4, <1>5, <1>6

LEMMA TypeStop ==
    ASSUME TypeOK, NEW w \in Workers, NEW g \in Threads, StopStep(w, g)
    PROVE  TypeOK'
<1>1. CASE StopReturns(w, g)
  <2>1. PcType'
    BY <1>1, TypeParts, GotoType DEF StopReturns, ThreadPc, AfterStop
  <2>. QED
    BY <1>1, <2>1, TypeFrame, TypeFromParts DEF StopReturns
<1>2. CASE StopBegins(w, g)
  <2>1. PcType'
    BY <1>2, TypeParts, GotoType DEF StopBegins, ThreadPc
  <2>2. ProcType'
    BY <1>2, TypeParts DEF StopBegins, ProcType, Process, Threads
  <2>. QED
    BY <1>2, <2>1, <2>2, TypeFrame, TypeFromParts DEF StopBegins
<1>3. CASE StopPanics(w, g)
  <2>1. BrokerTypeOK' /\ TaskType' /\ CurType' /\ BufType' /\ SubType' /\ PcType' /\ ProcType'
    BY <1>3, TypeParts, DieType DEF StopPanics
  <2>. QED
    BY <1>3, <2>1, TypeFrame, TypeFromParts DEF StopPanics
<1>4. CASE StopWaited(w, g)
  <2>1. PcType'
    BY <1>4, TypeParts, GotoType DEF StopWaited, ThreadPc
  <2>. QED
    BY <1>4, <2>1, TypeFrame, TypeFromParts DEF StopWaited
<1>5. CASE StopCancels(w, g)
  <2>1. PcType'
    BY <1>5, TypeParts, GotoType DEF StopCancels, ThreadPc
  <2>2. ProcType'
    BY <1>5, TypeParts, ProcessUpdates, Zenon DEF StopCancels, ProcType
  <2>. QED
    BY <1>5, <2>1, <2>2, TypeFrame, TypeFromParts DEF StopCancels
<1>6. CASE StopMarksOffline(w, g)
  <2>1. PcType'
    BY <1>6, TypeParts, GotoType DEF StopMarksOffline, ThreadPc, AfterStop
  <2>2. ProcType'
    BY <1>6, TypeParts, ProcessUpdates, Zenon DEF StopMarksOffline, ProcType
  <2>3. WorkerStoreTypeOK'
    BY <1>6, TypeParts, WorkerStoreType DEF StopMarksOffline
  <2>. QED
    BY <1>6, <2>1, <2>2, <2>3, TypeFrame, TypeFromParts DEF StopMarksOffline
<1>7. CASE StopMarkFails(w, g)
  <2>1. PcType'
    BY <1>7, TypeParts, GotoType DEF StopMarkFails, ThreadPc, AfterStop
  <2>2. ProcType'
    BY <1>7, TypeParts DEF StopMarkFails, ProcType, Process
  <2>3. WorkerStoreTypeOK'
    BY <1>7, TypeParts, WorkerStoreType, WorkerStoreFrame DEF StopMarkFails
  <2>4. SpentType'
    BY <1>7, TypeParts, DisturbType, TypeFrame DEF StopMarkFails, Disturbances
  <2>. QED
    BY <1>7, <2>1, <2>2, <2>3, <2>4, TypeFrame, TypeFromParts DEF StopMarkFails
<1>. QED
  BY <1>1, <1>2, <1>3, <1>4, <1>5, <1>6, <1>7 DEF StopStep

LEMMA TypeWork ==
    ASSUME TypeOK, NEW w \in Workers, WorkStep(w)
    PROVE  TypeOK'
<1>1. CASE Register(w)
  <2>1. PcType'
    BY <1>1, TypeParts, GotoType DEF Register, ThreadPc, Threads
  <2>2. ProcType'
    BY <1>1, TypeParts, ProcessUpdates, Zenon DEF Register, ProcType
  <2>3. TaskType'
    BY <1>1, TypeParts DEF Register, TaskType, TaskPc
  <2>4. WorkerStoreTypeOK'
    BY <1>1, TypeParts, WorkerStoreType DEF Register
  <2>. QED
    BY <1>1, <2>1, <2>2, <2>3, <2>4, TypeFrame, TypeFromParts DEF Register
<1>2. CASE RegisterFails(w)
  <2>1. PcType'
    BY <1>2, TypeParts, GotoType DEF RegisterFails, ThreadPc, Threads
  <2>2. ProcType'
    BY <1>2, TypeParts DEF RegisterFails, ProcType, Process, Report
  <2>3. WorkerStoreTypeOK'
    BY <1>2, TypeParts, WorkerStoreType, WorkerStoreFrame DEF RegisterFails
  <2>4. SpentType'
    BY <1>2, TypeParts, DisturbType, TypeFrame DEF RegisterFails, Disturbances
  <2>. QED
    BY <1>2, <2>1, <2>2, <2>3, <2>4, TypeFrame, TypeFromParts DEF RegisterFails
<1>3. CASE ConsumersDone(w)
  <2>1. PcType'
    BY <1>3, TypeParts, GotoType DEF ConsumersDone, ThreadPc, Threads
  <2>. QED
    BY <1>3, <2>1, TypeFrame, TypeFromParts DEF ConsumersDone
<1>4. CASE ReportStopped(w)
  <2>1. PcType'
    BY <1>4, TypeParts, GotoType DEF ReportStopped, ThreadPc, Threads
  <2>2. ProcType'
    BY <1>4, TypeParts DEF ReportStopped, ProcType, Process, Report
  <2>. QED
    BY <1>4, <2>1, <2>2, TypeFrame, TypeFromParts DEF ReportStopped
<1>. QED
  BY <1>1, <1>2, <1>3, <1>4, TypeStop DEF WorkStep, Threads

LEMMA TypeMain ==
    ASSUME TypeOK, ClosingHasReason, NEW w \in Workers, MainStep(w)
    PROVE  TypeOK'
<1>1. CASE MainSignalled(w)
  <2>1. PcType' /\ ProcType'
    BY <1>1, TypeParts, BeginCloseType, ProcessUpdates, Zenon DEF MainSignalled, ProcType
  <2>. QED
    BY <1>1, <2>1, TypeFrame, TypeFromParts DEF MainSignalled
<1>2. CASE MainReadsFailure(w)
  <2>1. PcType' /\ ProcType'
    BY <1>2, TypeParts, BeginCloseType, ProcessUpdates, Zenon DEF MainReadsFailure, ProcType
  <2>. QED
    BY <1>2, <2>1, TypeFrame, TypeFromParts DEF MainReadsFailure
<1>3. CASE MainReadsStopped(w)
  <2>1. PcType'
    BY <1>3, TypeParts, GotoType DEF MainReadsStopped, ThreadPc, Threads
  <2>2. ProcType'
    BY <1>3, TypeParts, ProcessUpdates, Zenon DEF MainReadsStopped, ProcType
  <2>. QED
    BY <1>3, <2>1, <2>2, TypeFrame, TypeFromParts DEF MainReadsStopped
<1>4. CASE ReconnectSucceeds(w)
  <2>1. PcType' /\ ProcType'
    BY <1>4, TypeParts, BeginCloseType, ProcessUpdates, Zenon DEF ReconnectSucceeds, ProcType
  <2>. QED
    BY <1>4, <2>1, TypeFrame, TypeFromParts DEF ReconnectSucceeds
<1>5. CASE ReconnectFails(w)
  <2>1. PcType' /\ ProcType'
    <3>. DEFINE failed == [proc[w] EXCEPT !.attempts = @ + 1, !.signal = FALSE]
    <3>1. failed \in Process
      BY TypeParts, ProcessUpdates, Zenon DEF ProcType
    <3>2. \/ BeginClose(w, "error", failed)
          \/ proc' = [proc EXCEPT ![w] = failed] /\ UNCHANGED pc
      BY <1>5 DEF ReconnectFails
    <3>. HIDE DEF failed
    <3>3. CASE BeginClose(w, "error", failed)
      BY <3>1, <3>3, TypeParts, BeginCloseType
    <3>4. CASE proc' = [proc EXCEPT ![w] = failed] /\ UNCHANGED pc
      BY <3>1, <3>4, TypeParts, TypeFrame DEF ProcType
    <3>. QED
      BY <3>2, <3>3, <3>4
  <2>. QED
    BY <1>5, <2>1, TypeFrame, TypeFromParts DEF ReconnectFails
<1>6. CASE CloseConnections(w)
  <2>1. PcType'
    BY <1>6, TypeParts, GotoType DEF CloseConnections, ThreadPc, Threads
  <2>2. ProcType'
    BY <1>6, TypeParts, ProcessUpdates, Zenon DEF CloseConnections, ProcType
  <2>3. BufType' /\ SubType'
    BY <1>6, TypeParts DEF CloseConnections, BufType, SubType
  <2>4. BrokerTypeOK'
    BY <1>6, TypeParts, RequeueType DEF CloseConnections
  <2>. QED
    BY <1>6, <2>1, <2>2, <2>3, <2>4, TypeFrame, TypeFromParts DEF CloseConnections
<1>7. CASE Leave(w)
  <2>1. BrokerTypeOK' /\ TaskType' /\ CurType' /\ BufType' /\ SubType'
    BY <1>7, TypeParts, DropConsumersType DEF Leave, Die
  <2>2. PcType'
    BY <1>7, TypeParts DEF Leave, PcType, Die, NoThreads, StartedThreads, ThreadPc
  <2>3. ProcType'
    <3>. DEFINE resumed == [NewProcess EXCEPT !.signal = proc[w].signal, !.orphan = TRUE]
    <3>1. CASE proc[w].after = "resume"
      <4>1. resumed \in Process
        BY TypeParts, ProcessUpdates, Zenon DEF ProcType
      <4>2. proc' = [proc EXCEPT ![w] = resumed]
        BY <1>7, <3>1 DEF Leave
      <4>. HIDE DEF resumed
      <4>. QED
        BY <4>1, <4>2, TypeParts DEF ProcType
    <3>2. CASE proc[w].after # "resume"
      <4>1. proc[w].after \in {"ok", "error"}
        BY <1>7, <3>2, TypeParts DEF Leave, ClosingHasReason, Closing, ProcType, Process
      <4>2. Ended(proc[w].after) \in Process
        BY <4>1, ProcessValues
      <4>3. proc' = [proc EXCEPT ![w] = Ended(proc[w].after)]
        BY <1>7, <3>2 DEF Leave, Die
      <4>. QED
        BY <4>2, <4>3, TypeParts DEF ProcType
    <3>. QED
      BY <3>1, <3>2
  <2>. QED
    BY <1>7, <2>1, <2>2, <2>3, TypeFrame, TypeFromParts DEF Leave
<1>. QED
  BY <1>1, <1>2, <1>3, <1>4, <1>5, <1>6, <1>7, TypeStop DEF MainStep, Threads

LEMMA TypeTask ==
    ASSUME TypeOK, HandlesOwn, NEW w \in Workers, NEW t \in OrderTypes, TaskStep(w, t)
    PROVE  TypeOK'
<1>1. CASE Subscribe(w, t)
  <2>1. TaskType'
    BY <1>1, TypeParts, AtType DEF Subscribe, TaskPc, InHandler, HandlerErrors
  <2>2. ProcType'
    BY <1>1, TypeParts, ProcessUpdates, Zenon DEF Subscribe, ProcType
  <2>3. SubType'
    BY <1>1, TypeParts DEF Subscribe, SubType
  <2>. QED
    BY <1>1, <2>1, <2>2, <2>3, TypeFrame, TypeFromParts DEF Subscribe
<1>2. CASE SubscribeFails(w, t)
  <2>1. TaskType'
    BY <1>2, TypeParts, AtType DEF SubscribeFails, TaskPc, InHandler, HandlerErrors
  <2>2. ProcType'
    BY <1>2, TypeParts DEF SubscribeFails, ProcType, Process, Report
  <2>. QED
    BY <1>2, <2>1, <2>2, TypeFrame, TypeFromParts DEF SubscribeFails
<1>3. CASE ConsumeReturns(w, t)
  <2>1. TaskType'
    BY <1>3, TypeParts, AtType DEF ConsumeReturns, TaskPc, InHandler, HandlerErrors
  <2>. QED
    BY <1>3, <2>1, TypeFrame, TypeFromParts DEF ConsumeReturns
<1>4. CASE \E o \in Orders : Receive(w, t, o)
  <2>1. PICK o \in Orders : Receive(w, t, o)
    BY <1>4
  <2>2. TaskType'
    BY <2>1, TypeParts, AtType DEF Receive, TaskPc
  <2>3. CurType' /\ BufType'
    BY <2>1, TypeParts DEF Receive, CurType, BufType
  <2>. QED
    BY <2>1, <2>2, <2>3, TypeFrame, TypeFromParts DEF Receive
<1>5. CASE CheckStopping(w, t)
  <2>1. TaskType'
    BY <1>5, TypeParts, AtType DEF CheckStopping, TaskPc, InHandler, HandlerErrors
  <2>. QED
    BY <1>5, <2>1, TypeFrame, TypeFromParts DEF CheckStopping
<1>6. CASE AddActive(w, t)
  <2>1. TaskType'
    BY <1>6, TypeParts, AtType DEF AddActive, TaskPc, InHandler, HandlerErrors
  <2>. QED
    BY <1>6, <2>1, TypeFrame, TypeFromParts DEF AddActive
<1>7. CASE SetOrderStatus(w, t)
  <2>1. TaskType'
    BY <1>7, TypeParts, AtType DEF SetOrderStatus, TaskPc, InHandler, HandlerErrors, AfterStatus
  <2>2. StoreTypeOK'
    BY <1>7, TypeParts, SetStatusType DEF SetOrderStatus, StatusAt
  <2>. QED
    BY <1>7, <2>1, <2>2, TypeFrame, TypeFromParts DEF SetOrderStatus
<1>8. CASE SetStatusFails(w, t)
  <2>1. TaskType'
    BY <1>8, TypeParts, AtType DEF SetStatusFails, TaskPc, InHandler, HandlerErrors
  <2>2. StoreTypeOK'
    BY <1>8, TypeParts, SetStatusType, StoreFrame DEF SetStatusFails, StatusAt
  <2>3. SpentType'
    BY <1>8, TypeParts, DisturbType, TypeFrame DEF SetStatusFails, Disturbances
  <2>. QED
    BY <1>8, <2>1, <2>2, <2>3, TypeFrame, TypeFromParts DEF SetStatusFails
<1>9. CASE PublishUpdate(w, t)
  <2>1. TaskType'
    BY <1>9, TypeParts, AtType DEF PublishUpdate, TaskPc, InHandler, HandlerErrors, AfterPublish
  <2>2. NotesType'
    <3>1. cur[w][t] \in Orders
      BY <1>9 DEF PublishUpdate, HandlesOwn, Busy, InHandler
    <3>2. NotedAt[task[w][t]] \in {"cooking", "ready"}
      BY <1>9 DEF PublishUpdate, NotedAt
    <3>. QED
      BY <1>9, <3>1, <3>2, TypeParts DEF PublishUpdate, NotesType
  <2>3. SpentType'
    BY <1>9, TypeParts, DisturbType, TypeFrame DEF PublishUpdate, Disturbances
  <2>. QED
    BY <1>9, <2>1, <2>2, <2>3, TypeFrame, TypeFromParts DEF PublishUpdate
<1>10. CASE CountProcessed(w, t)
  <2>1. TaskType'
    BY <1>10, TypeParts, AtType DEF CountProcessed, TaskPc, InHandler, HandlerErrors
  <2>2. WorkerStoreTypeOK'
    BY <1>10, TypeParts, WorkerStoreType, WorkerStoreFrame DEF CountProcessed
  <2>3. SpentType'
    BY <1>10, TypeParts, DisturbType, TypeFrame DEF CountProcessed, Disturbances
  <2>. QED
    BY <1>10, <2>1, <2>2, <2>3, TypeFrame, TypeFromParts DEF CountProcessed
<1>11. CASE Acknowledge(w, t)
  <2>1. TaskType'
    BY <1>11, TypeParts, AtType DEF Acknowledge, TaskPc, InHandler, HandlerErrors, NextMessage
  <2>2. CurType'
    BY <1>11, TypeParts DEF Acknowledge, CurType, NextMessage
  <2>3. BrokerTypeOK'
    BY <1>11, TypeParts, SettleType DEF Acknowledge
  <2>. QED
    BY <1>11, <2>1, <2>2, <2>3, TypeFrame, TypeFromParts DEF Acknowledge
<1>12. CASE Reject(w, t)
  <2>1. TaskType'
    BY <1>12, TypeParts, AtType DEF Reject, TaskPc, InHandler, HandlerErrors, NextMessage
  <2>2. CurType'
    BY <1>12, TypeParts DEF Reject, CurType, NextMessage
  <2>3. BrokerTypeOK'
    BY <1>12, TypeParts, SettleType DEF Reject
  <2>. QED
    BY <1>12, <2>1, <2>2, <2>3, TypeFrame, TypeFromParts DEF Reject
<1>. QED
  BY <1>1, <1>2, <1>3, <1>4, <1>5, <1>6, <1>7, <1>8, <1>9, <1>10, <1>11, <1>12 DEF TaskStep

-----------------------------------------------------------------------------
(* What a step can do to the consumers of the workers.                     *)
LEMMA ConsumerEffect ==
    ASSUME [Next]_vars
    PROVE  \/ UNCHANGED <<task, cur>>
           \/ \E w \in Workers : DropConsumers(w)
           \/ \E w \in Workers : Register(w)
           \/ \E w \in Workers, t \in OrderTypes : TaskStep(w, t)
<1>1. CASE UNCHANGED vars
  BY <1>1 DEF vars
<1>2. CASE Environment
  BY <1>2 DEF Environment, OrderPlaced, StartWorker, Signal, Crash, ConnLost, Lapse,
              CloseTimeout, Deliver, Die, taskVars
<1>3. ASSUME NEW w \in Workers, NEW g \in Threads, StopStep(w, g)
      PROVE  UNCHANGED <<task, cur>> \/ DropConsumers(w)
  BY <1>3 DEF StopStep, StopReturns, StopBegins, StopPanics, StopWaited, StopCancels,
              StopMarksOffline, StopMarkFails, Die, taskVars
<1>4. ASSUME NEW w \in Workers, MainStep(w)
      PROVE  UNCHANGED <<task, cur>> \/ DropConsumers(w)
  BY <1>3, <1>4 DEF MainStep, MainSignalled, MainReadsFailure, MainReadsStopped,
              ReconnectSucceeds, ReconnectFails, CloseConnections, Leave, Die, taskVars,
              Threads
<1>5. ASSUME NEW w \in Workers, WorkStep(w)
      PROVE  UNCHANGED <<task, cur>> \/ DropConsumers(w) \/ Register(w)
  BY <1>3, <1>5 DEF WorkStep, RegisterFails, ConsumersDone, ReportStopped, taskVars, Threads
<1>. QED
  BY <1>1, <1>2, <1>4, <1>5 DEF Next

LEMMA HandlesOwnStep ==
    ASSUME TypeOK, HandlesOwn, NoConsumersWhenIdle, [Next]_vars
    PROVE  HandlesOwn'
<1>. USE TypeParts DEF TaskType, CurType
<1>1. CASE UNCHANGED <<task, cur>>
  BY <1>1 DEF HandlesOwn
<1>2. ASSUME NEW w \in Workers, DropConsumers(w)
      PROVE  HandlesOwn'
  BY <1>2 DEF HandlesOwn, DropConsumers, NoTasks, NothingTaken, Busy, InHandler, HandlerErrors
<1>3. ASSUME NEW w \in Workers, Register(w)
      PROVE  HandlesOwn'
  <2>1. task[w] = NoTasks
    BY <1>3 DEF Register, NoConsumersWhenIdle
  <2>2. \A t \in OrderTypes : cur[w][t] = NoOrder
    BY <2>1 DEF HandlesOwn, NoTasks, Busy, InHandler, HandlerErrors
  <2>. QED
    BY <1>3, <2>2 DEF Register, HandlesOwn, Busy, InHandler, HandlerErrors
<1>4. ASSUME NEW w \in Workers, NEW t \in OrderTypes, TaskStep(w, t)
      PROVE  HandlesOwn'
  <2>1. CASE Subscribe(w, t) \/ SubscribeFails(w, t) \/ ConsumeReturns(w, t)
    BY <2>1 DEF Subscribe, SubscribeFails, ConsumeReturns, At, HandlesOwn, Busy,
                InHandler, HandlerErrors
  <2>2. CASE \E o \in Orders : Receive(w, t, o)
    BY <2>2 DEF Receive, At, HandlesOwn, Busy, InHandler, HandlerErrors
  <2>3. CASE \/ CheckStopping(w, t) \/ AddActive(w, t)
             \/ SetOrderStatus(w, t) \/ SetStatusFails(w, t)
             \/ PublishUpdate(w, t) \/ CountProcessed(w, t)
    <3>1. task[w][t] \in Busy /\ UNCHANGED cur
      BY <2>3 DEF CheckStopping, AddActive, SetOrderStatus, SetStatusFails,
                  PublishUpdate, CountProcessed, Busy, InHandler
    <3>2. PICK place \in Busy : At(w, t, place)
      <4>1. CASE CheckStopping(w, t) \/ AddActive(w, t)
        BY <4>1 DEF CheckStopping, AddActive, Busy, InHandler, HandlerErrors
      <4>2. CASE SetOrderStatus(w, t) \/ SetStatusFails(w, t)
        BY <4>2 DEF SetOrderStatus, SetStatusFails, AfterStatus, Busy, InHandler,
                    HandlerErrors
      <4>3. CASE PublishUpdate(w, t) \/ CountProcessed(w, t)
        BY <4>3 DEF PublishUpdate, CountProcessed, AfterPublish, Busy, InHandler
      <4>. QED
        BY <2>3, <4>1, <4>2, <4>3
    <3>. QED
      BY <3>1, <3>2 DEF At, HandlesOwn
  <2>4. CASE Acknowledge(w, t) \/ Reject(w, t)
    BY <2>4 DEF Acknowledge, Reject, NextMessage, At, HandlesOwn, Busy, InHandler,
                HandlerErrors
  <2>. QED
    BY <1>4, <2>1, <2>2, <2>3, <2>4 DEF TaskStep
<1>. QED
  BY <1>1, <1>2, <1>3, <1>4, ConsumerEffect

-----------------------------------------------------------------------------
(* The control state of main and work.                                     *)

ControlInv ==
    /\ NoConsumersWhenIdle
    /\ EndedHasNoThreads
    /\ ClosingHasReason
    /\ MarkedAfterCancel

(* q differs from p in none of the fields that ControlInv speaks of.       *)
SameControl(q, p) == q.exit = p.exit /\ q.cancelled = p.cancelled /\ q.after = p.after

LEMMA KeptFields ==
    ASSUME NEW p \in Process
    PROVE  /\ SameControl([p EXCEPT !.signal = TRUE], p)
           /\ SameControl([p EXCEPT !.signal = FALSE], p)
           /\ SameControl([p EXCEPT !.expired = TRUE], p)
           /\ SameControl([p EXCEPT !.connUp = FALSE], p)
           /\ SameControl([p EXCEPT !.connUp = TRUE], p)
           /\ SameControl([p EXCEPT !.isWorking = TRUE], p)
           /\ SameControl([p EXCEPT !.mu = "free"], p)
           /\ SameControl([p EXCEPT !.isWorking = FALSE, !.mu = "free"], p)
           /\ \A g : SameControl([p EXCEPT !.mu = g, !.stopping = TRUE], p)
           /\ \A e : SameControl([p EXCEPT !.errCh = e], p)
           /\ SameControl([p EXCEPT !.errCh = << >>, !.attempts = 0], p)
           /\ SameControl([p EXCEPT !.attempts = @ + 1, !.signal = FALSE], p)
  BY DEF Process, SameControl

LEMMA CloseFields ==
    ASSUME NEW p \in Process, NEW why
    PROVE  LET q == [p EXCEPT !.after = why, !.expired = FALSE]
           IN  q.exit = p.exit /\ q.cancelled = p.cancelled /\ q.after = why
  BY DEF Process

(* One process is updated, and the update keeps the control fields.        *)
LEMMA KeptProc ==
    ASSUME ProcType, NEW w \in Workers, NEW q, SameControl(q, proc[w]),
           proc' = [proc EXCEPT ![w] = q]
    PROVE  \A v \in Workers : SameControl(proc'[v], proc[v])
  BY DEF ProcType, SameControl

(* The steps that keep the control fields of every process.                *)
LEMMA SurroundingsKeep ==
    ASSUME ProcType, NEW w \in Workers, Signal(w) \/ CloseTimeout(w) \/ ConnLost(w)
    PROVE  \A v \in Workers : SameControl(proc'[v], proc[v])
  BY KeptProc, KeptFields, Zenon DEF Signal, CloseTimeout, ConnLost, ProcType

LEMMA StopKeeps ==
    ASSUME ProcType, NEW w \in Workers, NEW g \in Threads,
           StopBegins(w, g) \/ StopMarksOffline(w, g) \/ StopMarkFails(w, g)
    PROVE  \A v \in Workers : SameControl(proc'[v], proc[v])
<1>. DEFINE begun == [proc[w] EXCEPT !.mu = g, !.stopping = TRUE]
            marked == [proc[w] EXCEPT !.isWorking = FALSE, !.mu = "free"]
            failed == [proc[w] EXCEPT !.mu = "free"]
<1>1. /\ SameControl(begun, proc[w])
      /\ SameControl(marked, proc[w])
      /\ SameControl(failed, proc[w])
  BY KeptFields, Zenon DEF ProcType
<1>2. \/ proc' = [proc EXCEPT ![w] = begun]
      \/ proc' = [proc EXCEPT ![w] = marked]
      \/ proc' = [proc EXCEPT ![w] = failed]
  BY DEF StopBegins, StopMarksOffline, StopMarkFails
<1>. HIDE DEF begun, marked, failed
<1>. QED
  BY <1>1, <1>2, KeptProc

LEMMA WorkKeeps ==
    ASSUME ProcType, NEW w \in Workers,
           Register(w) \/ RegisterFails(w) \/ ReportStopped(w)
    PROVE  \A v \in Workers : SameControl(proc'[v], proc[v])
<1>1. CASE Register(w)
  BY <1>1, KeptProc, KeptFields, Zenon DEF Register, ProcType
<1>2. CASE RegisterFails(w) \/ ReportStopped(w)
  BY <1>2, KeptProc, KeptFields, Zenon DEF RegisterFails, ReportStopped, ProcType
<1>. QED
  BY <1>1, <1>2

LEMMA MainKeeps ==
    ASSUME ProcType, NEW w \in Workers, MainReadsStopped(w) \/ CloseConnections(w)
    PROVE  \A v \in Workers : SameControl(proc'[v], proc[v])
<1>. DEFINE read == [proc[w] EXCEPT !.errCh = << >>, !.attempts = 0]
            closed == [proc[w] EXCEPT !.connUp = FALSE]
<1>1. SameControl(read, proc[w]) /\ SameControl(closed, proc[w])
  BY KeptFields, Zenon DEF ProcType
<1>2. proc' = [proc EXCEPT ![w] = read] \/ proc' = [proc EXCEPT ![w] = closed]
  BY Zenon DEF MainReadsStopped, CloseConnections
<1>. HIDE DEF read, closed
<1>. QED
  BY <1>1, <1>2, KeptProc

(* main calls close, or makes another attempt to reconnect.                *)
LEMMA MainCloses ==
    ASSUME ProcType, NEW w \in Workers,
           \/ MainSignalled(w) \/ MainReadsFailure(w)
           \/ ReconnectSucceeds(w) \/ ReconnectFails(w)
    PROVE  \E p \in Process :
             /\ SameControl(p, proc[w])
             /\ pc[w]["main"] # "off"
             /\ UNCHANGED task
             /\ \/ \E why \in {"ok", "error", "resume"} : BeginClose(w, why, p)
                \/ proc' = [proc EXCEPT ![w] = p] /\ UNCHANGED pc
<1>. DEFINE heard == [proc[w] EXCEPT !.signal = FALSE]
            read == [proc[w] EXCEPT !.errCh = << >>]
            failed == [proc[w] EXCEPT !.attempts = @ + 1, !.signal = FALSE]
<1>1. /\ heard \in Process /\ SameControl(heard, proc[w])
      /\ read \in Process /\ SameControl(read, proc[w])
      /\ failed \in Process /\ SameControl(failed, proc[w])
      /\ proc[w] \in Process /\ SameControl(proc[w], proc[w])
  <2>1. proc[w] \in Process
    BY DEF ProcType
  <2>2. SameControl(proc[w], proc[w])
    BY DEF SameControl
  <2>3. heard \in Process /\ read \in Process /\ failed \in Process
    BY <2>1, ProcessUpdates, Zenon
  <2>4. SameControl(heard, proc[w]) /\ SameControl(read, proc[w])
    BY <2>1, KeptFields, Zenon
  <2>5. SameControl(failed, proc[w])
    BY <2>1, KeptFields, Zenon
  <2>. QED
    BY <2>1, <2>2, <2>3, <2>4, <2>5
<1>2. /\ pc[w]["main"] # "off"
      /\ UNCHANGED task
      /\ \/ BeginClose(w, "ok", heard)
         \/ BeginClose(w, "error", read)
         \/ BeginClose(w, "resume", proc[w])
         \/ BeginClose(w, "error", failed)
         \/ proc' = [proc EXCEPT ![w] = failed] /\ UNCHANGED pc
  BY DEF MainSignalled, MainReadsFailure, ReconnectSucceeds, ReconnectFails, taskVars
<1>. HIDE DEF heard, read, failed
<1>. QED
  BY <1>1, <1>2

(* A consumer moves from one place to another; main and work do not.       *)
LEMMA TaskKeeps ==
    ASSUME ProcType, NEW w \in Workers, NEW t \in OrderTypes, TaskStep(w, t)
    PROVE  /\ UNCHANGED pc
           /\ task[w][t] \notin {"none", "done"}
           /\ \E place : task' = [task EXCEPT ![w][t] = place]
           /\ \A v \in Workers : SameControl(proc'[v], proc[v])
<1>1. UNCHANGED pc
  BY DEF TaskStep, Subscribe, SubscribeFails, ConsumeReturns, Receive, CheckStopping,
         AddActive, SetOrderStatus, SetStatusFails, PublishUpdate, CountProcessed,
         Acknowledge, Reject
<1>2. task[w][t] \notin {"none", "done"}
  BY DEF TaskStep, Subscribe, SubscribeFails, ConsumeReturns, Receive, CheckStopping,
         AddActive, SetOrderStatus, SetStatusFails, PublishUpdate, CountProcessed,
         Acknowledge, Reject, HandlerErrors
<1>3. \E place : task' = [task EXCEPT ![w][t] = place]
  BY DEF TaskStep, Subscribe, SubscribeFails, ConsumeReturns, Receive, CheckStopping,
         AddActive, SetOrderStatus, SetStatusFails, PublishUpdate, CountProcessed,
         Acknowledge, Reject, NextMessage, At
<1>4. \A v \in Workers : SameControl(proc'[v], proc[v])
  <2>1. CASE UNCHANGED proc
    BY <2>1 DEF SameControl
  <2>2. CASE Subscribe(w, t) \/ SubscribeFails(w, t)
    BY <2>2, KeptProc, KeptFields, Zenon DEF Subscribe, SubscribeFails, ProcType
  <2>. QED
    BY <2>1, <2>2
    DEF TaskStep, ConsumeReturns, Receive, CheckStopping, AddActive, SetOrderStatus,
        SetStatusFails, PublishUpdate, CountProcessed, Acknowledge, Reject
<1>. QED
  BY <1>1, <1>2, <1>3, <1>4

(* A thread of w moves on; nothing else that ControlInv speaks of changes. *)
LEMMA ControlMove ==
    ASSUME TypeOK, ControlInv, NEW w \in Workers, NEW g \in Threads,
           NEW place \in ThreadPc \ {"register"}, Goto(w, g, place), UNCHANGED task,
           pc[w][g] # "off",
           \A v \in Workers : SameControl(proc'[v], proc[v]),
           place = "stop_mark" => proc[w].cancelled,
           g = "main" /\ place \in Closing => pc[w]["main"] \in Closing
    PROVE  ControlInv'
<1>. USE TypeParts DEF PcType, SameControl
<1>1. NoConsumersWhenIdle'
  BY DEF ControlInv, NoConsumersWhenIdle, Goto, Running, Threads
<1>2. ClosingHasReason'
  BY DEF ControlInv, ClosingHasReason, Goto, Threads
<1>3. MarkedAfterCancel'
  BY DEF ControlInv, MarkedAfterCancel, Goto
<1>4. EndedHasNoThreads'
  BY DEF ControlInv, EndedHasNoThreads, Goto, Running
<1>. QED
  BY <1>1, <1>2, <1>3, <1>4 DEF ControlInv

LEMMA ControlStay ==
    ASSUME TypeOK, ControlInv, UNCHANGED <<pc, task>>,
           \A v \in Workers : SameControl(proc'[v], proc[v])
    PROVE  ControlInv'
  BY DEF ControlInv, NoConsumersWhenIdle, EndedHasNoThreads, ClosingHasReason,
         MarkedAfterCancel, Running, SameControl

(* close begins.                                                           *)
LEMMA ControlBeginClose ==
    ASSUME TypeOK, ControlInv, NEW w \in Workers, NEW why \in {"ok", "error", "resume"},
           NEW p \in Process, SameControl(p, proc[w]), BeginClose(w, why, p), UNCHANGED task,
           pc[w]["main"] # "off"
    PROVE  ControlInv'
<1>. DEFINE q == [p EXCEPT !.after = why, !.expired = FALSE]
<1>1. q.exit = proc[w].exit /\ q.cancelled = proc[w].cancelled /\ q.after = why
  BY CloseFields DEF SameControl
<1>2. proc' = [proc EXCEPT ![w] = q] /\ pc' = [pc EXCEPT ![w]["main"] = "stop_lock"]
  BY DEF BeginClose, Goto
<1>. HIDE DEF q
<1>. USE TypeParts DEF PcType, ProcType
<1>3. NoConsumersWhenIdle'
  BY <1>1, <1>2 DEF ControlInv, NoConsumersWhenIdle, Running, Threads
<1>4. ClosingHasReason'
  BY <1>1, <1>2 DEF ControlInv, ClosingHasReason, Threads
<1>5. MarkedAfterCancel'
  BY <1>1, <1>2 DEF ControlInv, MarkedAfterCancel, Threads
<1>6. EndedHasNoThreads'
  BY <1>1, <1>2 DEF ControlInv, EndedHasNoThreads, Running, Threads
<1>. QED
  BY <1>3, <1>4, <1>5, <1>6 DEF ControlInv

(* The process ends, or a new one takes over.                              *)
LEMMA ControlReplace ==
    ASSUME TypeOK, ControlInv, NEW w \in Workers, NEW p,
           task' = [task EXCEPT ![w] = NoTasks],
           NEW threads \in {NoThreads, StartedThreads},
           pc' = [pc EXCEPT ![w] = threads],
           proc' = [proc EXCEPT ![w] = p],
           threads = NoThreads \/ p.exit = "running"
    PROVE  ControlInv'
<1>1. /\ threads["main"] \notin Closing
      /\ \A g \in Threads : threads[g] # "stop_mark"
  BY DEF NoThreads, StartedThreads, Closing, Threads
<1>. USE TypeParts DEF PcType, ProcType, TaskType
<1>2. NoConsumersWhenIdle'
  BY DEF ControlInv, NoConsumersWhenIdle, Running
<1>3. ClosingHasReason'
  BY <1>1 DEF ControlInv, ClosingHasReason
<1>4. MarkedAfterCancel'
  BY <1>1 DEF ControlInv, MarkedAfterCancel
<1>5. EndedHasNoThreads'
  BY DEF ControlInv, EndedHasNoThreads, Running, NoThreads
<1>. QED
  BY <1>2, <1>3, <1>4, <1>5 DEF ControlInv

LEMMA ControlDie ==
    ASSUME TypeOK, ControlInv, NEW w \in Workers, NEW how, Die(w, how)
    PROVE  ControlInv'
  BY ControlReplace DEF Die, DropConsumers

LEMMA ControlEnvironment ==
    ASSUME TypeOK, ControlInv, Environment
    PROVE  ControlInv'
<1>. USE TypeParts
<1>1. CASE UNCHANGED <<pc, task, proc>>
  BY <1>1, ControlStay DEF SameControl
<1>2. ASSUME NEW w \in Workers, StartWorker(w)
      PROVE  ControlInv'
  <2>1. task' = [task EXCEPT ![w] = NoTasks]
    BY <1>2 DEF StartWorker, ControlInv, NoConsumersWhenIdle, taskVars, TaskType
  <2>. QED
    BY <1>2, <2>1, ControlReplace DEF StartWorker, NewProcess
<1>3. ASSUME NEW w \in Workers, Signal(w) \/ CloseTimeout(w) \/ ConnLost(w)
      PROVE  ControlInv'
  BY <1>3, SurroundingsKeep, ControlStay DEF Signal, CloseTimeout, ConnLost, taskVars
<1>4. ASSUME NEW w \in Workers, Crash(w)
      PROVE  ControlInv'
  BY <1>4, ControlDie DEF Crash
<1>. QED
  BY <1>1, <1>2, <1>3, <1>4 DEF Environment, OrderPlaced, Lapse, Deliver, taskVars

LEMMA ControlStop ==
    ASSUME TypeOK, ControlInv, NEW w \in Workers, NEW g \in Threads, StopStep(w, g)
    PROVE  ControlInv'
<1>. USE TypeParts
<1>1. CASE StopReturns(w, g) \/ StopWaited(w, g)
  BY <1>1, ControlMove
  DEF StopReturns, StopWaited, AfterStop, ThreadPc, Closing, SameControl, taskVars
<1>2. CASE StopBegins(w, g)
  <2>1. \A v \in Workers : SameControl(proc'[v], proc[v])
    BY <1>2, StopKeeps
  <2>. QED
    BY <1>2, <2>1, ControlMove DEF StopBegins, ThreadPc, Closing, taskVars
<1>3. CASE StopCancels(w, g)
  <2>1. /\ proc'[w].exit = proc[w].exit /\ proc'[w].after = proc[w].after
        /\ proc'[w].cancelled
        /\ \A v \in Workers : v # w => proc'[v] = proc[v]
    BY <1>3 DEF StopCancels, ProcType, Process
  <2>2. pc[w][g] = "stop_cancel" /\ pc' = [pc EXCEPT ![w][g] = "stop_mark"] /\ UNCHANGED task
    BY <1>3 DEF StopCancels, Goto, taskVars
  <2>3. NoConsumersWhenIdle'
    BY <2>1, <2>2 DEF ControlInv, NoConsumersWhenIdle, Running, PcType, Threads
  <2>4. ClosingHasReason'
    BY <2>1, <2>2 DEF ControlInv, ClosingHasReason, Closing, PcType, Threads
  <2>5. MarkedAfterCancel'
    BY <2>1, <2>2 DEF ControlInv, MarkedAfterCancel, PcType
  <2>6. EndedHasNoThreads'
    BY <2>1, <2>2 DEF ControlInv, EndedHasNoThreads, Running, PcType
  <2>. QED
    BY <2>3, <2>4, <2>5, <2>6 DEF ControlInv
<1>4. CASE StopPanics(w, g)
  BY <1>4, ControlDie DEF StopPanics
<1>5. CASE StopMarksOffline(w, g) \/ StopMarkFails(w, g)
  <2>1. \A v \in Workers : SameControl(proc'[v], proc[v])
    BY <1>5, StopKeeps
  <2>2. Goto(w, g, AfterStop(g)) /\ pc[w][g] = "stop_mark" /\ UNCHANGED task
    BY <1>5 DEF StopMarksOffline, StopMarkFails, taskVars
  <2>. QED
    BY <2>1, <2>2, ControlMove DEF AfterStop, ThreadPc, Closing
<1>. QED
  BY <1>1, <1>2, <1>3, <1>4, <1>5 DEF StopStep

LEMMA ControlWork ==
    ASSUME TypeOK, ControlInv, NEW w \in Workers, WorkStep(w)
    PROVE  ControlInv'
<1>. USE TypeParts
<1>1. CASE Register(w)
  <2>1. \A v \in Workers : SameControl(proc'[v], proc[v])
    BY <1>1, WorkKeeps
  <2>2. /\ pc[w]["work"] = "register"
        /\ pc' = [pc EXCEPT ![w]["work"] = "wait"]
        /\ \A v \in Workers : v # w => task'[v] = task[v]
    BY <1>1 DEF Register, Goto, TaskType
  <2>3. Running(w)
    BY <2>2 DEF ControlInv, EndedHasNoThreads, Threads
  <2>4. NoConsumersWhenIdle'
    BY <2>1, <2>2, <2>3
    DEF ControlInv, NoConsumersWhenIdle, Running, SameControl, PcType, Threads
  <2>5. EndedHasNoThreads'
    BY <2>1, <2>2, <2>3 DEF ControlInv, EndedHasNoThreads, Running, SameControl, PcType
  <2>6. ClosingHasReason'
    BY <2>1, <2>2 DEF ControlInv, ClosingHasReason, SameControl, PcType, Threads
  <2>7. MarkedAfterCancel'
    BY <2>1, <2>2 DEF ControlInv, MarkedAfterCancel, SameControl, PcType
  <2>. QED
    BY <2>4, <2>5, <2>6, <2>7 DEF ControlInv
<1>2. CASE RegisterFails(w) \/ ReportStopped(w)
  <2>1. \A v \in Workers : SameControl(proc'[v], proc[v])
    BY <1>2, WorkKeeps
  <2>2. /\ pc[w]["work"] # "off"
        /\ Goto(w, "work", "stop_lock") \/ Goto(w, "work", "gone")
        /\ UNCHANGED task
    BY <1>2 DEF RegisterFails, ReportStopped, taskVars
  <2>. QED
    BY <2>1, <2>2, ControlMove DEF ThreadPc, Threads
<1>3. CASE ConsumersDone(w)
  BY <1>3, ControlMove DEF ConsumersDone, ThreadPc, Threads, SameControl, taskVars
<1>. QED
  BY <1>1, <1>2, <1>3, ControlStop DEF WorkStep, Threads

LEMMA ControlMain ==
    ASSUME TypeOK, ControlInv, NEW w \in Workers, MainStep(w)
    PROVE  ControlInv'
<1>. USE TypeParts
<1>1. CASE \/ MainSignalled(w) \/ MainReadsFailure(w)
           \/ ReconnectSucceeds(w) \/ ReconnectFails(w)
  BY <1>1, MainCloses, ControlBeginClose, ControlStay, KeptProc
<1>2. CASE MainReadsStopped(w)
  <2>1. \A v \in Workers : SameControl(proc'[v], proc[v])
    BY <1>2, MainKeeps
  <2>. QED
    BY <1>2, <2>1, ControlMove DEF MainReadsStopped, ThreadPc, Closing, Threads, taskVars
<1>3. CASE CloseConnections(w)
  <2>1. \A v \in Workers : SameControl(proc'[v], proc[v])
    BY <1>3, MainKeeps
  <2>. QED
    BY <1>3, <2>1, ControlMove DEF CloseConnections, ThreadPc, Closing, Threads
<1>4. CASE Leave(w)
  <2>1. [NewProcess EXCEPT !.signal = proc[w].signal, !.orphan = TRUE].exit = "running"
    BY DEF NewProcess
  <2>. QED
    BY <1>4, <2>1, ControlDie, ControlReplace DEF Leave, DropConsumers
<1>. QED
  BY <1>1, <1>2, <1>3, <1>4, ControlStop DEF MainStep, Threads

LEMMA ControlTask ==
    ASSUME TypeOK, ControlInv, NEW w \in Workers, NEW t \in OrderTypes, TaskStep(w, t)
    PROVE  ControlInv'
<1>1. /\ UNCHANGED pc
      /\ task[w][t] # "none"
      /\ \E place : task' = [task EXCEPT ![w][t] = place]
      /\ \A v \in Workers : SameControl(proc'[v], proc[v])
  BY TaskKeeps, TypeParts
<1>2. NoConsumersWhenIdle'
  BY <1>1, TypeParts
  DEF ControlInv, NoConsumersWhenIdle, Running, NoTasks, TaskType, SameControl
<1>3. EndedHasNoThreads' /\ ClosingHasReason' /\ MarkedAfterCancel'
  BY <1>1
  DEF ControlInv, EndedHasNoThreads, ClosingHasReason, MarkedAfterCancel, Running, SameControl
<1>. QED
  BY <1>2, <1>3 DEF ControlInv

-----------------------------------------------------------------------------
(* The invariant that every later proof starts from.                       *)

Core == TypeOK /\ HandlesOwn /\ ControlInv

LEMMA CoreInit == Init => Core
<1>. SUFFICES ASSUME Init PROVE Core
  OBVIOUS
<1>1. TypeOK
  BY TypeInit
<1>2. HandlesOwn
  BY DEF Init, HandlesOwn, NoTasks, NothingTaken, Busy, InHandler, HandlerErrors
<1>3. \A w \in Workers, g \in Threads : pc[w][g] = "off"
  BY DEF Init, NoThreads
<1>4. ControlInv
  BY <1>3
  DEF Init, ControlInv, NoConsumersWhenIdle, EndedHasNoThreads, ClosingHasReason, Closing,
      MarkedAfterCancel, Threads
<1>. QED
  BY <1>1, <1>2, <1>4 DEF Core

LEMMA CoreStep == Core /\ [Next]_vars => Core'
<1>. SUFFICES ASSUME Core, [Next]_vars PROVE Core'
  OBVIOUS
<1>. USE DEF Core
<1>1. HandlesOwn'
  BY HandlesOwnStep DEF ControlInv
<1>2. CASE UNCHANGED vars
  <2>1. TypeOK'
    BY <1>2, TypeFrame, TypeFromParts DEF vars, storeVars, brokerVars
  <2>2. ControlInv'
    BY <1>2, ControlStay DEF vars, SameControl
  <2>. QED
    BY <1>1, <2>1, <2>2
<1>3. CASE Environment
  <2>1. TypeOK'
    BY <1>3, TypeOrderPlaced, TypeDeliver, TypeSurroundings DEF Environment
  <2>. QED
    BY <1>1, <1>3, <2>1, ControlEnvironment
<1>4. CASE \E w \in Workers : MainStep(w)
  BY <1>1, <1>4, TypeMain, ControlMain DEF ControlInv
<1>5. CASE \E w \in Workers : WorkStep(w)
  BY <1>1, <1>5, TypeWork, ControlWork
<1>6. CASE \E w \in Workers, t \in OrderTypes : TaskStep(w, t)
  BY <1>1, <1>6, TypeTask, ControlTask
<1>. QED
  BY <1>2, <1>3, <1>4, <1>5, <1>6 DEF Next

(* In every behaviour of the workers the state is well typed, a consumer   *)
(* holds a message of its own type exactly while it handles one, an ended  *)
(* process has no goroutine left, and Stop marks only after cancelling.    *)
THEOREM CoreInvariant == Spec => []Core
  BY CoreInit, CoreStep, PTL DEF Spec

(* Type correctness: in particular close always has a reason when the      *)
(* process leaves (Start returns nil or an error, or is resumed).          *)
THEOREM TypeCorrect == Spec => []TypeOK
<1>1. Core => TypeOK
  BY DEF Core
<1>. QED
  BY <1>1, CoreInvariant, PTL
=============================================================================
