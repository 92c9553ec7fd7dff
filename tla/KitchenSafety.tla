---------------------------- MODULE KitchenSafety ---------------------------
(***************************************************************************)
(* The safety properties of Kitchen as theorems, on top of the invariant   *)
(* Core of KitchenProofs: who holds and settles a message, and then what   *)
(* the workers write, the status log, the completion of orders, the status *)
(* updates they publish and the orders they count.  At the end: every      *)
(* behaviour of the kitchen is one of OrderLifecycle, for every set of     *)
(* workers, orders and types and over all disturbances.                    *)
(***************************************************************************)
EXTENDS KitchenProofs, LifecycleLemmas, FiniteSetTheorems

-----------------------------------------------------------------------------
(* Messages.                                                               *)

(* What a step can do to the messages, their holders and the consumers     *)
(* that have them: nothing, or one of the operations named here.           *)
LEMMA MessageEffect ==
    ASSUME [Next]_vars
    PROVE  \/ UNCHANGED <<message, holder, cur, buf, sub>>
           \/ \E o \in Orders : OrderPlaced(o)
           \/ \E w \in Workers :
                /\ RequeueDeliveries(w)
                /\ buf' = [buf EXCEPT ![w] = {}]
                /\ sub' = [sub EXCEPT ![w] = {}]
                /\ UNCHANGED cur \/ cur' = [cur EXCEPT ![w] = NothingTaken]
           \/ \E w \in Workers, o \in Orders : Deliver(w, o)
           \/ \E w \in Workers, t \in OrderTypes :
                \/ Subscribe(w, t)
                \/ \E o \in Orders : Receive(w, t, o)
                \/ Acknowledge(w, t)
                \/ Reject(w, t)
<1>. DEFINE Same == UNCHANGED <<message, holder, cur, buf, sub>>
            Requeued(w) ==
                /\ RequeueDeliveries(w)
                /\ buf' = [buf EXCEPT ![w] = {}]
                /\ sub' = [sub EXCEPT ![w] = {}]
                /\ UNCHANGED cur \/ cur' = [cur EXCEPT ![w] = NothingTaken]
<1>1. CASE UNCHANGED vars
  BY <1>1 DEF vars
<1>2. ASSUME NEW w \in Workers, NEW how, Die(w, how)
      PROVE  Requeued(w)
  BY <1>2 DEF Die, DropConsumers
<1>3. CASE Environment
  <2>1. ASSUME NEW w \in Workers,
               \/ StartWorker(w) \/ Signal(w) \/ Lapse(w) \/ CloseTimeout(w)
        PROVE  Same
    BY <2>1 DEF StartWorker, Signal, Lapse, CloseTimeout, taskVars, brokerVars
  <2>2. ASSUME NEW w \in Workers, Crash(w) \/ ConnLost(w)
        PROVE  Requeued(w)
    BY <1>2, <2>2 DEF Crash, ConnLost
  <2>. QED
    BY <1>3, <2>1, <2>2 DEF Environment
<1>4. ASSUME NEW w \in Workers, NEW g \in Threads, StopStep(w, g)
      PROVE  Same \/ Requeued(w)
  <2>1. CASE StopPanics(w, g)
    BY <1>2, <2>1 DEF StopPanics
  <2>. QED
    BY <1>4, <2>1 DEF StopStep, StopReturns, StopBegins, StopWaited, StopCancels,
        StopMarksOffline, StopMarkFails, taskVars, brokerVars
<1>5. ASSUME NEW w \in Workers, MainStep(w)
      PROVE  Same \/ Requeued(w)
  <2>1. CASE CloseConnections(w) \/ Leave(w)
    BY <1>2, <2>1 DEF CloseConnections, Leave, DropConsumers
  <2>2. CASE StopStep(w, "main")
    BY <1>4, <2>2 DEF Threads
  <2>. QED
    BY <1>5, <2>1, <2>2 DEF MainStep, MainSignalled, MainReadsFailure, MainReadsStopped,
        ReconnectSucceeds, ReconnectFails, taskVars, brokerVars
<1>6. ASSUME NEW w \in Workers, WorkStep(w)
      PROVE  Same \/ Requeued(w)
  <2>1. CASE StopStep(w, "work")
    BY <1>4, <2>1 DEF Threads
  <2>. QED
    BY <1>6, <2>1 DEF WorkStep, Register, RegisterFails, ConsumersDone, ReportStopped,
        taskVars, brokerVars
<1>7. ASSUME NEW w \in Workers, NEW t \in OrderTypes, TaskStep(w, t)
      PROVE  \/ Same
             \/ Subscribe(w, t)
             \/ \E o \in Orders : Receive(w, t, o)
             \/ Acknowledge(w, t)
             \/ Reject(w, t)
  BY <1>7 DEF TaskStep, SubscribeFails, ConsumeReturns, CheckStopping, AddActive,
      SetOrderStatus, SetStatusFails, PublishUpdate, CountProcessed, brokerVars
<1>. QED
  BY <1>1, <1>3, <1>5, <1>6, <1>7 DEF Next

LEMMA NoStrandedInit == Init => NoStrandedMessage
  BY DEF Init, BrokerInit, NoStrandedMessage

(* Settling a message takes it out of the hands of the consumer together   *)
(* with the delivery.                                                      *)
LEMMA NoStrandedSettle ==
    ASSUME Core, NoStrandedMessage, NEW w \in Workers, NEW t \in OrderTypes,
           cur[w][t] \in Orders, TypeOf[cur[w][t]] = t,
           NEW to \in {"ready", "acked", "dead"}, Settle(cur[w][t], w, to),
           cur' = [cur EXCEPT ![w][t] = NoOrder], UNCHANGED <<buf, sub>>
    PROVE  NoStrandedMessage'
<1>. USE TypeParts DEF Core, BrokerTypeOK, CurType, BufType, SubType
<1>. SUFFICES ASSUME NEW o \in Orders, message'[o] = "unacked"
              PROVE  /\ holder'[o] \in Workers
                     /\ TypeOf[o] \in sub'[holder'[o]]
                     /\ o \in buf'[holder'[o]] \/ cur'[holder'[o]][TypeOf[o]] = o
  BY DEF NoStrandedMessage
<1>1. message[o] = "unacked" /\ holder'[o] = holder[o]
  BY DEF Settle, HeldBy, brokerVars
<1>2. ~(o = cur[w][t] /\ holder[o] = w)
  BY <1>1 DEF Settle, HeldBy
<1>. QED
  BY <1>1, <1>2, DomainAssumption DEF NoStrandedMessage

LEMMA NoStrandedStep ==
    ASSUME Core, NoStrandedMessage, [Next]_vars
    PROVE  NoStrandedMessage'
<1>. USE TypeParts DEF Core, BrokerTypeOK, CurType, BufType, SubType, TaskType
<1>1. CASE UNCHANGED <<message, holder, cur, buf, sub>>
  BY <1>1 DEF NoStrandedMessage
<1>2. ASSUME NEW o \in Orders, OrderPlaced(o)
      PROVE  NoStrandedMessage'
  BY <1>2 DEF OrderPlaced, Publish, NoStrandedMessage, taskVars
<1>3. ASSUME NEW w \in Workers, RequeueDeliveries(w),
             buf' = [buf EXCEPT ![w] = {}], sub' = [sub EXCEPT ![w] = {}],
             UNCHANGED cur \/ cur' = [cur EXCEPT ![w] = NothingTaken]
      PROVE  NoStrandedMessage'
  <2>. SUFFICES ASSUME NEW o \in Orders, message'[o] = "unacked"
                PROVE  /\ holder'[o] \in Workers
                       /\ TypeOf[o] \in sub'[holder'[o]]
                       /\ o \in buf'[holder'[o]] \/ cur'[holder'[o]][TypeOf[o]] = o
    BY DEF NoStrandedMessage
  <2>1. message[o] = "unacked" /\ holder'[o] = holder[o] /\ holder[o] # w
    BY <1>3 DEF RequeueDeliveries, HeldBy
  <2>. QED
    BY <1>3, <2>1 DEF NoStrandedMessage
<1>4. ASSUME NEW w \in Workers, NEW o \in Orders, Deliver(w, o)
      PROVE  NoStrandedMessage'
  BY <1>4 DEF Deliver, PushTo, NoStrandedMessage
<1>5. ASSUME NEW w \in Workers, NEW t \in OrderTypes, Subscribe(w, t)
      PROVE  NoStrandedMessage'
  BY <1>5 DEF Subscribe, NoStrandedMessage, brokerVars
<1>6. ASSUME NEW w \in Workers, NEW t \in OrderTypes, NEW o \in Orders, Receive(w, t, o)
      PROVE  NoStrandedMessage'
  <2>1. cur[w][t] = NoOrder
    BY <1>6 DEF Receive, HandlesOwn, Busy, InHandler, HandlerErrors
  <2>. QED
    BY <1>6, <2>1, DomainAssumption DEF Receive, NoStrandedMessage, brokerVars
<1>7. ASSUME NEW w \in Workers, NEW t \in OrderTypes, Acknowledge(w, t) \/ Reject(w, t)
      PROVE  NoStrandedMessage'
  <2>1. cur[w][t] \in Orders /\ TypeOf[cur[w][t]] = t
    BY <1>7 DEF Acknowledge, Reject, HandlesOwn, Busy
  <2>2. \E to \in {"ready", "acked", "dead"} : Settle(cur[w][t], w, to)
    BY <1>7 DEF Acknowledge, Reject
  <2>. QED
    BY <1>7, <2>1, <2>2, NoStrandedSettle DEF Acknowledge, Reject, NextMessage
<1>. QED
  BY <1>1, <1>2, <1>3, <1>4, <1>5, <1>6, <1>7, MessageEffect

(* No message is stranded: whatever connections break, processes crash or  *)
(* panic and services are closed or replaced, a message the broker waits   *)
(* for is with a subscribed consumer of its worker.                        *)
THEOREM NothingStranded == Spec => []NoStrandedMessage
<1>1. Core /\ NoStrandedMessage /\ [Next]_vars => NoStrandedMessage'
  BY NoStrandedStep
<1>. QED
  BY <1>1, NoStrandedInit, CoreInvariant, PTL DEF Spec
-----------------------------------------------------------------------------
(* Settling.                                                               *)

(* A message that becomes acked or dead was settled by the consumer that   *)
(* holds it.                                                               *)
LEMMA SettledByHolder ==
    ASSUME Core, [Next]_vars, NEW o \in Orders,
           message'[o] \in {"acked", "dead"}, message[o] # message'[o]
    PROVE  /\ message[o] = "unacked"
           /\ cur[holder[o]][TypeOf[o]] = o
           /\ task[holder[o]][TypeOf[o]] \in HandlerErrors \cup {"ack"}
<1>. USE TypeParts DEF Core, BrokerTypeOK
<1>1. PICK w \in Workers, t \in OrderTypes : Acknowledge(w, t) \/ Reject(w, t)
  <2>1. ASSUME NEW v \in Orders, OrderPlaced(v) PROVE FALSE
    BY <2>1 DEF OrderPlaced, Publish
  <2>2. ASSUME NEW w \in Workers, RequeueDeliveries(w) PROVE FALSE
    BY <2>2 DEF RequeueDeliveries
  <2>3. ASSUME NEW w \in Workers, NEW v \in Orders, Deliver(w, v) PROVE FALSE
    BY <2>3 DEF Deliver, PushTo
  <2>4. ASSUME NEW w \in Workers, NEW t \in OrderTypes,
               Subscribe(w, t) \/ \E v \in Orders : Receive(w, t, v)
        PROVE  FALSE
    BY <2>4 DEF Subscribe, Receive, brokerVars
  <2>. QED
    BY <2>1, <2>2, <2>3, <2>4, MessageEffect
<1>2. o = cur[w][t] /\ o \in HeldBy(w)
  BY <1>1 DEF Acknowledge, Reject, Settle, brokerVars
<1>3. task[w][t] \in HandlerErrors \cup {"ack"} /\ TypeOf[o] = t
  BY <1>1, <1>2 DEF Acknowledge, Reject, HandlesOwn, Busy
<1>. QED
  BY <1>2, <1>3 DEF HeldBy

(* Only the consumer that a message was last delivered to settles it, and  *)
(* only while it handles it: handlers that outlive their connection cannot *)
(* acknowledge or dead-letter what another worker has received since.      *)
THEOREM OnlyHolder == Spec => OnlyHolderSettles
<1>1. Core /\ [Next]_vars =>
        [\A o \in Orders :
          message'[o] \in {"acked", "dead"} /\ message[o] # message'[o] =>
              /\ message[o] = "unacked"
              /\ cur[holder[o]][TypeOf[o]] = o
              /\ task[holder[o]][TypeOf[o]] \in HandlerErrors \cup {"ack"}]_vars
  BY SettledByHolder
<1>. QED
  BY <1>1, CoreInvariant, PTL DEF Spec, OnlyHolderSettles

-----------------------------------------------------------------------------
(* The table workers.                                                      *)

(* Only Stop makes a worker offline.                                       *)
LEMMA StatusKept ==
    ASSUME WorkerStoreTypeOK, NEW w \in Workers,
           \/ UNCHANGED workers
           \/ MarkOnline(w) \/ IncrOrdersProcessed(w) \/ LastSeenLapses(w)
    PROVE  \A v \in Workers :
             workers'[v].status = "offline" => workers[v].status = "offline"
<1>1. CASE UNCHANGED workers
  BY <1>1
<1>2. CASE MarkOnline(w)
  BY <1>2 DEF WorkerStoreTypeOK, WorkerRow, MarkOnline
<1>3. CASE IncrOrdersProcessed(w)
  BY <1>3 DEF WorkerStoreTypeOK, WorkerRow, IncrOrdersProcessed
<1>4. CASE LastSeenLapses(w)
  BY <1>4 DEF WorkerStoreTypeOK, WorkerRow, LastSeenLapses
<1>. QED
  BY <1>1, <1>2, <1>3, <1>4

(* No consumer moves, no context is revived.                               *)
LEMMA OfflineStay ==
    ASSUME Core, OfflineIsCancelled, UNCHANGED task,
           \A v \in Workers : proc[v].cancelled => proc'[v].cancelled,
           \A v \in Workers :
               workers'[v].status = "offline" =>
                   workers[v].status = "offline" \/ proc'[v].cancelled
    PROVE  OfflineIsCancelled'
  BY DEF OfflineIsCancelled

(* The consumers of w are gone.                                            *)
LEMMA OfflineDrop ==
    ASSUME Core, OfflineIsCancelled, NEW w \in Workers, NEW p,
           task' = [task EXCEPT ![w] = NoTasks],
           proc' = [proc EXCEPT ![w] = p],
           UNCHANGED workers
    PROVE  OfflineIsCancelled'
  BY TypeParts DEF Core, OfflineIsCancelled, NoTasks, TaskType, ProcType

LEMMA OfflineEnvironment ==
    ASSUME Core, OfflineIsCancelled, Environment
    PROVE  OfflineIsCancelled'
<1>. USE TypeParts DEF Core
<1>1. ASSUME NEW o \in Orders, OrderPlaced(o)
      PROVE  OfflineIsCancelled'
  BY <1>1, OfflineStay DEF OrderPlaced, taskVars
<1>2. ASSUME NEW w \in Workers, StartWorker(w)
      PROVE  OfflineIsCancelled'
  <2>1. task' = [task EXCEPT ![w] = NoTasks]
    BY <1>2 DEF StartWorker, ControlInv, NoConsumersWhenIdle, taskVars, TaskType
  <2>. QED
    BY <1>2, <2>1, OfflineDrop DEF StartWorker
<1>3. ASSUME NEW w \in Workers, Signal(w) \/ CloseTimeout(w) \/ ConnLost(w)
      PROVE  OfflineIsCancelled'
  <2>1. UNCHANGED <<task, workers>>
    BY <1>3 DEF Signal, CloseTimeout, ConnLost, taskVars
  <2>. QED
    BY <1>3, <2>1, SurroundingsKeep, OfflineStay DEF SameControl
<1>4. ASSUME NEW w \in Workers, Crash(w)
      PROVE  OfflineIsCancelled'
  BY <1>4, OfflineDrop DEF Crash, Die, DropConsumers
<1>5. ASSUME NEW w \in Workers, Lapse(w) \/ \E o \in Orders : Deliver(w, o)
      PROVE  OfflineIsCancelled'
  <2>1. UNCHANGED <<task, proc>> /\ (UNCHANGED workers \/ LastSeenLapses(w))
    BY <1>5 DEF Lapse, Deliver, taskVars
  <2>. QED
    BY <2>1, StatusKept, OfflineStay
<1>. QED
  BY <1>1, <1>2, <1>3, <1>4, <1>5 DEF Environment

(* Stop marks the worker offline where MarkedAfterCancel speaks of it.     *)
LEMMA OfflineStop ==
    ASSUME Core, OfflineIsCancelled, NEW w \in Workers, NEW g \in Threads, StopStep(w, g)
    PROVE  OfflineIsCancelled'
<1>. USE TypeParts DEF Core
<1>1. CASE StopReturns(w, g) \/ StopWaited(w, g)
  BY <1>1, OfflineStay DEF StopReturns, StopWaited, taskVars
<1>2. CASE StopBegins(w, g)
  <2>1. UNCHANGED <<task, workers>>
    BY <1>2 DEF StopBegins, taskVars
  <2>. QED
    BY <1>2, <2>1, StopKeeps, OfflineStay DEF SameControl
<1>3. CASE StopCancels(w, g)
  <2>1. \A v \in Workers : proc[v].cancelled => proc'[v].cancelled
    BY <1>3 DEF StopCancels, ProcType, Process
  <2>. QED
    BY <1>3, <2>1, OfflineStay DEF StopCancels, taskVars
<1>4. CASE StopPanics(w, g)
  BY <1>4, OfflineDrop DEF StopPanics, Die, DropConsumers
<1>5. CASE StopMarksOffline(w, g) \/ StopMarkFails(w, g)
  <2>1. \A v \in Workers : SameControl(proc'[v], proc[v])
    BY <1>5, StopKeeps
  <2>2. UNCHANGED task /\ proc[w].cancelled
    BY <1>5
    DEF StopMarksOffline, StopMarkFails, taskVars, ControlInv, MarkedAfterCancel
  <2>3. \A v \in Workers : v # w => workers'[v] = workers[v]
    BY <1>5
    DEF StopMarksOffline, StopMarkFails, MarkOffline, WorkerStoreTypeOK
  <2>. QED
    BY <2>1, <2>2, <2>3, OfflineStay DEF SameControl
<1>. QED
  BY <1>1, <1>2, <1>3, <1>4, <1>5 DEF StopStep

LEMMA OfflineMain ==
    ASSUME Core, OfflineIsCancelled, NEW w \in Workers, MainStep(w)
    PROVE  OfflineIsCancelled'
<1>. USE TypeParts DEF Core
<1>1. CASE \/ MainSignalled(w) \/ MainReadsFailure(w)
           \/ ReconnectSucceeds(w) \/ ReconnectFails(w)
  <2>1. UNCHANGED <<task, workers>>
    BY <1>1 DEF MainSignalled, MainReadsFailure, ReconnectSucceeds, ReconnectFails, taskVars
  <2>2. PICK p \in Process :
          /\ SameControl(p, proc[w])
          /\ \/ \E why \in {"ok", "error", "resume"} : BeginClose(w, why, p)
             \/ proc' = [proc EXCEPT ![w] = p] /\ UNCHANGED pc
    BY <1>1, MainCloses
  <2>3. \E q : q.cancelled = p.cancelled /\ proc' = [proc EXCEPT ![w] = q]
    BY <2>2, CloseFields DEF BeginClose
  <2>4. \A v \in Workers : proc[v].cancelled => proc'[v].cancelled
    BY <2>2, <2>3 DEF ProcType, SameControl
  <2>. QED
    BY <2>1, <2>4, OfflineStay
<1>2. CASE MainReadsStopped(w) \/ CloseConnections(w)
  <2>1. UNCHANGED <<task, workers>>
    BY <1>2 DEF MainReadsStopped, CloseConnections, taskVars
  <2>. QED
    BY <1>2, <2>1, MainKeeps, OfflineStay DEF SameControl
<1>3. CASE Leave(w)
  BY <1>3, OfflineDrop DEF Leave, Die, DropConsumers
<1>. QED
  BY <1>1, <1>2, <1>3, OfflineStop DEF MainStep, Threads

LEMMA OfflineWork ==
    ASSUME Core, OfflineIsCancelled, NEW w \in Workers, WorkStep(w)
    PROVE  OfflineIsCancelled'
<1>. USE TypeParts DEF Core
<1>1. CASE Register(w)
  <2>1. /\ workers'[w].status # "offline"
        /\ \A v \in Workers : v # w => workers'[v] = workers[v]
    BY <1>1 DEF Register, MarkOnline, WorkerStoreTypeOK, WorkerRow
  <2>2. \A v \in Workers : v # w => task'[v] = task[v]
    BY <1>1 DEF Register, TaskType
  <2>3. \A v \in Workers : SameControl(proc'[v], proc[v])
    BY <1>1, WorkKeeps
  <2>. QED
    BY <2>1, <2>2, <2>3 DEF OfflineIsCancelled, SameControl
<1>2. CASE RegisterFails(w) \/ ReportStopped(w)
  <2>1. UNCHANGED task /\ (UNCHANGED workers \/ MarkOnline(w))
    BY <1>2 DEF RegisterFails, ReportStopped, taskVars
  <2>. QED
    BY <1>2, <2>1, WorkKeeps, StatusKept, OfflineStay DEF SameControl
<1>3. CASE ConsumersDone(w)
  BY <1>3, OfflineStay DEF ConsumersDone, taskVars
<1>. QED
  BY <1>1, <1>2, <1>3, OfflineStop DEF WorkStep, Threads

LEMMA OfflineTask ==
    ASSUME Core, OfflineIsCancelled, NEW w \in Workers, NEW t \in OrderTypes, TaskStep(w, t)
    PROVE  OfflineIsCancelled'
<1>. USE TypeParts DEF Core
<1>1. UNCHANGED workers \/ IncrOrdersProcessed(w)
  BY DEF TaskStep, Subscribe, SubscribeFails, ConsumeReturns, Receive, CheckStopping,
         AddActive, SetOrderStatus, SetStatusFails, PublishUpdate, CountProcessed,
         Acknowledge, Reject
<1>2. \A v \in Workers :
        workers'[v].status = "offline" => workers[v].status = "offline"
  BY <1>1, StatusKept
<1>3. /\ task[w][t] \notin {"none", "done"}
      /\ \E place : task' = [task EXCEPT ![w][t] = place]
      /\ \A v \in Workers : SameControl(proc'[v], proc[v])
  BY TaskKeeps
<1>. QED
  BY <1>2, <1>3 DEF OfflineIsCancelled, SameControl, TaskType

(* A worker whose process still consumes is shown offline only once its    *)
(* context is cancelled, over every interleaving of the two calls of Stop, *)
(* restarts and failed registrations.                                      *)
THEOREM OfflineAfterCancel == Spec => []OfflineIsCancelled
<1>1. Init => OfflineIsCancelled
  BY DEF Init, OfflineIsCancelled, NoTasks
<1>2. Core /\ OfflineIsCancelled /\ [Next]_vars => OfflineIsCancelled'
  <2>. SUFFICES ASSUME Core, OfflineIsCancelled, [Next]_vars
                PROVE  OfflineIsCancelled'
    OBVIOUS
  <2>1. CASE UNCHANGED vars
    BY <2>1, OfflineStay DEF vars
  <2>. QED
    BY <2>1, OfflineEnvironment, OfflineMain, OfflineWork, OfflineTask DEF Next
<1>. QED
  BY <1>1, <1>2, CoreInvariant, PTL DEF Spec

-----------------------------------------------------------------------------
(* What a step does to the tables and the queues together: nothing, or one *)
(* of the operations named here.                                           *)

Requeues(w) == RequeueDeliveries(w) /\ UNCHANGED storeVars

Writes(w, t) ==
    /\ task[w][t] \in {"set_cooking", "cooking"}
    /\ Exists(cur[w][t])
    /\ SetStatus(cur[w][t], w, StatusAt[task[w][t]])
    /\ UNCHANGED brokerVars

(* Every step of the kitchen and of its environment is one of them.        *)
LEMMA StepEffect ==
    ASSUME [Next]_vars
    PROVE  \/ UNCHANGED <<storeVars, brokerVars>>
           \/ \E o \in Orders : OrderPlaced(o)
           \/ \E w \in Workers : Requeues(w)
           \/ \E w \in Workers, o \in Orders : Deliver(w, o)
           \/ \E w \in Workers, t \in OrderTypes :
                Writes(w, t) \/ Acknowledge(w, t) \/ Reject(w, t)
<1>. DEFINE Same == UNCHANGED <<storeVars, brokerVars>>
<1>1. CASE UNCHANGED vars
  BY <1>1 DEF vars, storeVars, brokerVars
<1>2. ASSUME NEW w \in Workers, NEW how, Die(w, how)
      PROVE  RequeueDeliveries(w)
  BY <1>2 DEF Die, DropConsumers
<1>3. CASE Environment
  <2>1. ASSUME NEW w \in Workers,
               \/ StartWorker(w) \/ Signal(w) \/ Lapse(w) \/ CloseTimeout(w)
        PROVE  Same
    BY <2>1 DEF StartWorker, Signal, Lapse, CloseTimeout
  <2>2. ASSUME NEW w \in Workers, Crash(w) \/ ConnLost(w)
        PROVE  Requeues(w)
    BY <1>2, <2>2 DEF Crash, ConnLost, Requeues
  <2>. QED
    BY <1>3, <2>1, <2>2 DEF Environment
<1>4. ASSUME NEW w \in Workers, NEW g \in Threads, StopStep(w, g)
      PROVE  Same \/ Requeues(w)
  <2>1. CASE StopPanics(w, g)
    BY <1>2, <2>1 DEF StopPanics, Requeues
  <2>. QED
    BY <1>4, <2>1 DEF StopStep, StopReturns, StopBegins, StopWaited, StopCancels,
        StopMarksOffline, StopMarkFails
<1>5. ASSUME NEW w \in Workers, MainStep(w)
      PROVE  Same \/ Requeues(w)
  <2>1. CASE CloseConnections(w) \/ Leave(w)
    BY <1>2, <2>1 DEF CloseConnections, Leave, DropConsumers, Requeues
  <2>2. CASE StopStep(w, "main")
    BY <1>4, <2>2 DEF Threads
  <2>. QED
    BY <1>5, <2>1, <2>2 DEF MainStep, MainSignalled, MainReadsFailure, MainReadsStopped,
        ReconnectSucceeds, ReconnectFails
<1>6. ASSUME NEW w \in Workers, WorkStep(w)
      PROVE  Same \/ Requeues(w)
  <2>1. CASE StopStep(w, "work")
    BY <1>4, <2>1 DEF Threads
  <2>. QED
    BY <1>6, <2>1 DEF WorkStep, Register, RegisterFails, ConsumersDone, ReportStopped
<1>7. ASSUME NEW w \in Workers, NEW t \in OrderTypes, TaskStep(w, t)
      PROVE  Same \/ Writes(w, t) \/ Acknowledge(w, t) \/ Reject(w, t)
  <2>1. CASE SetOrderStatus(w, t) \/ SetStatusFails(w, t)
    BY <2>1 DEF SetOrderStatus, SetStatusFails, Writes
  <2>. QED
    BY <1>7, <2>1 DEF TaskStep, Subscribe, SubscribeFails, ConsumeReturns, Receive,
        CheckStopping, AddActive, PublishUpdate, CountProcessed
<1>. QED
  BY <1>1, <1>3, <1>5, <1>6, <1>7 DEF Next

-----------------------------------------------------------------------------
(* The log only grows.                                                     *)

(* A step writes one log entry at most: that of a new order, or that of a  *)
(* handler about to write a status.                                        *)
LEMMA StoreEffect ==
    ASSUME [Next]_vars
    PROVE  \/ UNCHANGED storeVars
           \/ \E o \in Orders : Create(o)
           \/ \E w \in Workers, t \in OrderTypes :
                /\ task[w][t] \in {"set_cooking", "cooking"}
                /\ SetStatus(cur[w][t], w, StatusAt[task[w][t]])
  BY StepEffect DEF Requeues, Writes, OrderPlaced, Deliver, Acknowledge, Reject

(* Append leaves the entries before it where they are.                     *)
LEMMA AppendKeeps ==
    ASSUME StoreTypeOK, NEW o, NEW e \in LogEntry,
           statusLog' = [statusLog EXCEPT ![o] = Append(@, e)]
    PROVE  \A v \in Orders :
             /\ DOMAIN statusLog[v] \subseteq DOMAIN statusLog'[v]
             /\ \A i \in DOMAIN statusLog[v] : statusLog'[v][i] = statusLog[v][i]
  BY DEF StoreTypeOK

LEMMA CreateEntry == [status |-> "received", by |-> NoWorker] \in LogEntry
  BY DEF LogEntry, OrderStatuses

LEMMA StatusEntry ==
    ASSUME NEW w \in Workers, NEW place \in {"set_cooking", "cooking"}
    PROVE  [status |-> StatusAt[place], by |-> w] \in LogEntry
  BY DEF LogEntry, OrderStatuses, StatusAt

(* No log entry is changed or removed.                                     *)
LEMMA LogGrows ==
    ASSUME Core, [Next]_vars
    PROVE  \A v \in Orders :
             /\ DOMAIN statusLog[v] \subseteq DOMAIN statusLog'[v]
             /\ \A i \in DOMAIN statusLog[v] : statusLog'[v][i] = statusLog[v][i]
<1>1. CASE UNCHANGED storeVars
  BY <1>1 DEF storeVars
<1>2. CASE \E o \in Orders : Create(o)
  BY <1>2, AppendKeeps, CreateEntry, TypeParts DEF Core, Create
<1>3. ASSUME NEW w \in Workers, NEW t \in OrderTypes,
             task[w][t] \in {"set_cooking", "cooking"},
             SetStatus(cur[w][t], w, StatusAt[task[w][t]])
      PROVE  \A v \in Orders :
               /\ DOMAIN statusLog[v] \subseteq DOMAIN statusLog'[v]
               /\ \A i \in DOMAIN statusLog[v] : statusLog'[v][i] = statusLog[v][i]
  BY <1>3, AppendKeeps, StatusEntry, TypeParts DEF Core, SetStatus
<1>. QED
  BY <1>1, <1>2, <1>3, StoreEffect

(* What was logged stays so.                                               *)
LEMMA LoggedKept ==
    ASSUME Core, [Next]_vars, NEW o \in Orders, NEW w, NEW s, Logged(o, w, s)
    PROVE  Logged(o, w, s)'
  BY LogGrows DEF Logged

(* completed_at is never taken back.                                       *)
LEMMA CompletedKept ==
    ASSUME Core, [Next]_vars, NEW o \in Orders, orders[o].completed
    PROVE  orders'[o].completed
<1>. USE TypeParts DEF Core, StoreTypeOK
<1>1. CASE UNCHANGED storeVars
  BY <1>1 DEF storeVars
<1>2. CASE \E v \in Orders : Create(v)
  BY <1>2 DEF Create, OrderRow
<1>3. ASSUME NEW w \in Workers, NEW t \in OrderTypes,
             SetStatus(cur[w][t], w, StatusAt[task[w][t]])
      PROVE  orders'[o].completed
  BY <1>3 DEF SetStatus
<1>. QED
  BY <1>1, <1>2, <1>3, StoreEffect

(* What SetStatus of an existing order leaves behind.                      *)
LEMMA SetStatusWrites ==
    ASSUME StoreTypeOK, NEW o \in Orders, NEW w \in Workers,
           NEW s \in {"cooking", "ready"}, SetStatus(o, w, s)
    PROVE  /\ Logged(o, w, s)'
           /\ s = "ready" => orders'[o].completed
<1>1. [status |-> s, by |-> w] \in LogEntry
  BY DEF LogEntry, OrderStatuses
<1>2. Len(statusLog[o]) + 1 \in DOMAIN statusLog'[o]
  BY <1>1 DEF StoreTypeOK, SetStatus
<1>3. statusLog'[o][Len(statusLog[o]) + 1] = [status |-> s, by |-> w]
  BY <1>1 DEF StoreTypeOK, SetStatus
<1>4. Logged(o, w, s)'
  BY <1>2, <1>3 DEF Logged
<1>5. s = "ready" => orders'[o].completed
  BY DEF StoreTypeOK, SetStatus
<1>. QED
  BY <1>4, <1>5
-----------------------------------------------------------------------------
(* What a handler has committed when it is at a given place.               *)

AfterCooking == {"pub_cooking", "cooking", "pub_ready", "incr", "ack"}
AfterReady == {"pub_ready", "incr", "ack"}

(* The handler of w and t is entitled to be where it is.                   *)
Entitled(w, t) ==
    /\ task[w][t] \in AfterCooking => Logged(cur[w][t], w, "cooking")
    /\ task[w][t] \in AfterReady =>
          Logged(cur[w][t], w, "ready") /\ orders[cur[w][t]].completed

HandlerInv == \A w \in Workers, t \in OrderTypes : Entitled(w, t)

LEMMA HandlerInvMeaning == HandlerInv <=> CookingIsLogged /\ ReadyIsLogged
  BY DEF HandlerInv, Entitled, AfterCooking, AfterReady, CookingIsLogged, ReadyIsLogged

(* A consumer that another goroutine's step leaves where it is.            *)
LEMMA EntitledKept ==
    ASSUME Core, [Next]_vars, NEW w \in Workers, NEW t \in OrderTypes, Entitled(w, t),
           cur'[w][t] = cur[w][t],
           task'[w][t] \in AfterCooking => task[w][t] \in AfterCooking,
           task'[w][t] \in AfterReady => task[w][t] \in AfterReady
    PROVE  Entitled(w, t)'
<1>1. PICK o : o = cur[w][t]
  OBVIOUS
<1>2. /\ task[w][t] \in AfterCooking => o \in Orders
      /\ AfterReady \subseteq AfterCooking
  BY <1>1 DEF Core, HandlesOwn, AfterCooking, AfterReady, Busy, InHandler
<1>3. task'[w][t] \in AfterCooking => Logged(o, w, "cooking")'
  BY <1>1, <1>2, LoggedKept DEF Entitled
<1>4. task'[w][t] \in AfterReady => Logged(o, w, "ready")' /\ orders'[o].completed
  BY <1>1, <1>2, LoggedKept, CompletedKept DEF Entitled
<1>5. o = cur'[w][t]
  BY <1>1
<1>. QED
  BY <1>3, <1>4, <1>5 DEF Entitled, Logged

(* A step of one consumer leaves the others where they are.                *)
LEMMA OtherTasks ==
    ASSUME Core, NEW w \in Workers, NEW t \in OrderTypes, TaskStep(w, t),
           NEW v \in Workers, NEW u \in OrderTypes, v # w \/ u # t
    PROVE  task'[v][u] = task[v][u] /\ cur'[v][u] = cur[v][u]
<1>. USE TypeParts DEF Core, TaskType, CurType
<1>1. task'[v][u] = task[v][u]
  BY TaskKeeps
<1>2. \/ UNCHANGED cur
      \/ \E o : cur' = [cur EXCEPT ![w][t] = o]
  BY DEF TaskStep, Subscribe, SubscribeFails, ConsumeReturns, Receive, CheckStopping,
         AddActive, SetOrderStatus, SetStatusFails, PublishUpdate, CountProcessed,
         Acknowledge, Reject, NextMessage
<1>. QED
  BY <1>1, <1>2

(* The step of the consumer itself.                                        *)
LEMMA EntitledStep ==
    ASSUME Core, [Next]_vars, NEW w \in Workers, NEW t \in OrderTypes, Entitled(w, t),
           TaskStep(w, t)
    PROVE  Entitled(w, t)'
<1>. USE TypeParts DEF Core, TaskType, CurType
<1>1. CASE task'[w][t] \notin AfterCooking
  BY <1>1 DEF Entitled, AfterCooking, AfterReady
<1>2. CASE PublishUpdate(w, t) \/ CountProcessed(w, t)
  BY <1>2, EntitledKept
  DEF PublishUpdate, CountProcessed, At, AfterPublish, AfterCooking, AfterReady
<1>3. CASE SetOrderStatus(w, t)
  <2>1. PICK o : o = cur[w][t]
    OBVIOUS
  <2>2. /\ o \in Orders
        /\ o = cur'[w][t]
        /\ task[w][t] \in {"set_cooking", "cooking"}
        /\ SetStatus(o, w, StatusAt[task[w][t]])
        /\ task'[w][t] = AfterStatus[task[w][t]]
    BY <1>3, <2>1 DEF SetOrderStatus, At, HandlesOwn, Busy, InHandler
  <2>3. CASE task[w][t] = "set_cooking"
    <3>1. SetStatus(o, w, "cooking") /\ task'[w][t] = "pub_cooking"
      BY <2>2, <2>3 DEF StatusAt, AfterStatus
    <3>2. Logged(o, w, "cooking")'
      BY <2>2, <3>1, SetStatusWrites
    <3>. QED
      BY <2>2, <3>1, <3>2 DEF Entitled, AfterReady, Logged
  <2>4. CASE task[w][t] = "cooking"
    <3>1. SetStatus(o, w, "ready") /\ task'[w][t] = "pub_ready"
      BY <2>2, <2>4 DEF StatusAt, AfterStatus
    <3>2. Logged(o, w, "ready")' /\ orders'[o].completed
      BY <2>2, <3>1, SetStatusWrites
    <3>3. Logged(o, w, "cooking")'
      BY <2>1, <2>2, <2>4, LoggedKept DEF Entitled, AfterCooking
    <3>. QED
      BY <2>2, <3>2, <3>3 DEF Entitled, Logged
  <2>. QED
    BY <2>2, <2>3, <2>4
<1>4. TaskStep(w, t) =>
        \/ task'[w][t] \notin AfterCooking
        \/ PublishUpdate(w, t) \/ CountProcessed(w, t)
        \/ SetOrderStatus(w, t)
  BY DEF TaskStep, Subscribe, SubscribeFails, ConsumeReturns, Receive, CheckStopping,
         AddActive, SetStatusFails, Acknowledge, Reject, NextMessage, At, AfterCooking
<1>. QED
  BY <1>1, <1>2, <1>3, <1>4

LEMMA HandlerInvStep ==
    ASSUME Core, HandlerInv, [Next]_vars
    PROVE  HandlerInv'
<1>. SUFFICES ASSUME NEW w \in Workers, NEW t \in OrderTypes
              PROVE  Entitled(w, t)'
  BY DEF HandlerInv
<1>. USE TypeParts DEF Core, TaskType, CurType
<1>1. Entitled(w, t)
  BY DEF HandlerInv
<1>2. CASE UNCHANGED <<task, cur>>
  BY <1>1, <1>2, EntitledKept
<1>3. CASE task'[w][t] \notin AfterCooking
  BY <1>3 DEF Entitled, AfterCooking, AfterReady
<1>4. ASSUME NEW v \in Workers, DropConsumers(v)
      PROVE  Entitled(w, t)'
  <2>1. CASE v = w
    BY <1>3, <1>4, <2>1 DEF DropConsumers, NoTasks, AfterCooking
  <2>2. CASE v # w
    BY <1>1, <1>4, <2>2, EntitledKept DEF DropConsumers
  <2>. QED
    BY <2>1, <2>2
<1>5. ASSUME NEW v \in Workers, Register(v)
      PROVE  Entitled(w, t)'
  <2>1. CASE v = w
    BY <1>3, <1>5, <2>1 DEF Register, AfterCooking
  <2>2. CASE v # w
    BY <1>1, <1>5, <2>2, EntitledKept DEF Register
  <2>. QED
    BY <2>1, <2>2
<1>6. ASSUME NEW v \in Workers, NEW u \in OrderTypes, TaskStep(v, u)
      PROVE  Entitled(w, t)'
  <2>1. CASE v = w /\ u = t
    BY <1>1, <1>6, <2>1, EntitledStep
  <2>2. CASE v # w \/ u # t
    BY <1>1, <1>6, <2>2, OtherTasks, EntitledKept
  <2>. QED
    BY <2>1, <2>2
<1>. QED
  BY <1>2, <1>4, <1>5, <1>6, ConsumerEffect

LEMMA HandlerInvariant == Spec => [](Core /\ HandlerInv)
<1>1. Init => HandlerInv
  BY DEF Init, HandlerInv, Entitled, NoTasks, AfterCooking, AfterReady
<1>2. Core /\ HandlerInv /\ [Next]_vars => HandlerInv'
  BY HandlerInvStep
<1>. QED
  BY <1>1, <1>2, CoreInvariant, PTL DEF Spec

(* The conjunction of everything the proofs know of the control state and  *)
(* of the handlers holds in every reachable state.                         *)
THEOREM InductiveInvariant == Spec => []IndInv
<1>1. Core /\ HandlerInv => IndInv
  BY HandlerInvMeaning DEF Core, ControlInv, IndInv
<1>. QED
  BY <1>1, HandlerInvariant, PTL

-----------------------------------------------------------------------------
(* The theorems.                                                           *)

(* An acknowledged message stays so, with the same holder; a message       *)
(* becomes acknowledged at a handler that is done.                         *)
LEMMA AckEffect ==
    ASSUME Core, [Next]_vars, NEW o \in Orders, message'[o] = "acked"
    PROVE  \/ message[o] = "acked" /\ holder'[o] = holder[o]
           \/ \E w \in Workers, t \in OrderTypes :
                Acknowledge(w, t) /\ cur[w][t] = o /\ holder'[o] = w
<1>. USE TypeParts DEF Core, BrokerTypeOK
<1>1. CASE UNCHANGED <<message, holder>>
  BY <1>1
<1>2. ASSUME NEW v \in Orders, OrderPlaced(v)
      PROVE  message[o] = "acked" /\ holder'[o] = holder[o]
  BY <1>2 DEF OrderPlaced, Publish
<1>3. ASSUME NEW w \in Workers, RequeueDeliveries(w)
      PROVE  message[o] = "acked" /\ holder'[o] = holder[o]
  BY <1>3 DEF RequeueDeliveries, HeldBy
<1>4. ASSUME NEW w \in Workers, NEW v \in Orders, Deliver(w, v)
      PROVE  message[o] = "acked" /\ holder'[o] = holder[o]
  BY <1>4 DEF Deliver, PushTo
<1>5. ASSUME NEW w \in Workers, NEW t \in OrderTypes,
             Subscribe(w, t) \/ \E v \in Orders : Receive(w, t, v)
      PROVE  UNCHANGED <<message, holder>>
  BY <1>5 DEF Subscribe, Receive, brokerVars
<1>6. ASSUME NEW w \in Workers, NEW t \in OrderTypes, Acknowledge(w, t)
      PROVE  \/ message[o] = "acked" /\ holder'[o] = holder[o]
             \/ cur[w][t] = o /\ holder'[o] = w
  BY <1>6 DEF Acknowledge, Settle, HeldBy, brokerVars
<1>7. ASSUME NEW w \in Workers, NEW t \in OrderTypes, Reject(w, t)
      PROVE  message[o] = "acked" /\ holder'[o] = holder[o]
  BY <1>7 DEF Reject, Settle, HeldBy, brokerVars
<1>. QED
  BY <1>1, <1>2, <1>3, <1>4, <1>5, <1>6, <1>7, MessageEffect

(* Consume acknowledges an order only after its own handler committed the  *)
(* status ready and the completion, over crashes and redeliveries.         *)
THEOREM AckedAfterCompletion == Spec => []AckedIsCompleted
<1>1. Init => AckedIsCompleted
  BY DEF Init, BrokerInit, AckedIsCompleted
<1>2. ASSUME Core, HandlerInv, AckedIsCompleted, [Next]_vars
      PROVE  AckedIsCompleted'
  <2>. SUFFICES ASSUME NEW o \in Orders, message'[o] = "acked"
                PROVE  orders'[o].completed /\ Logged(o, holder[o], "ready")'
    BY DEF AckedIsCompleted
  <2>1. PICK w : w = holder'[o]
    OBVIOUS
  <2>2. Logged(o, w, "ready") /\ orders[o].completed
    <3>1. CASE message[o] = "acked" /\ holder'[o] = holder[o]
      BY <1>2, <2>1, <3>1 DEF AckedIsCompleted
    <3>2. ASSUME NEW v \in Workers, NEW t \in OrderTypes,
                 Acknowledge(v, t), cur[v][t] = o, holder'[o] = v
          PROVE  Logged(o, w, "ready") /\ orders[o].completed
      BY <1>2, <2>1, <3>2 DEF Acknowledge, HandlerInv, Entitled, AfterReady
    <3>. QED
      BY <1>2, <3>1, <3>2, AckEffect
  <2>3. Logged(o, w, "ready")' /\ orders'[o].completed
    BY <1>2, <2>2, LoggedKept, CompletedKept
  <2>. QED
    BY <2>1, <2>3 DEF Logged
<1>. QED
  BY <1>1, <1>2, HandlerInvariant, PTL DEF Spec

(* Subscribers are told only of status changes that were committed.        *)
THEOREM NotifiedAfterCommit == Spec => []NotifiedIsLogged
<1>1. Init => NotifiedIsLogged
  BY DEF Init, NotifiedIsLogged
<1>2. ASSUME Core, HandlerInv, NotifiedIsLogged, [Next]_vars
      PROVE  NotifiedIsLogged'
  <2>1. \/ UNCHANGED notes
        \/ \E w \in Workers, t \in OrderTypes : PublishUpdate(w, t)
    <3>1. CASE UNCHANGED vars
      BY <3>1 DEF vars
    <3>2. CASE Environment
      BY <3>2 DEF Environment, OrderPlaced, StartWorker, Signal, Crash, ConnLost, Lapse,
                  CloseTimeout, Deliver
    <3>3. ASSUME NEW w \in Workers, NEW g \in Threads, StopStep(w, g)
          PROVE  UNCHANGED notes
      BY <3>3 DEF StopStep, StopReturns, StopBegins, StopPanics, StopWaited, StopCancels,
                  StopMarksOffline, StopMarkFails
    <3>4. ASSUME NEW w \in Workers, MainStep(w) \/ WorkStep(w)
          PROVE  UNCHANGED notes
      BY <3>3, <3>4 DEF MainStep, MainSignalled, MainReadsFailure, MainReadsStopped,
                  ReconnectSucceeds, ReconnectFails, CloseConnections, Leave, WorkStep,
                  Register, RegisterFails, ConsumersDone, ReportStopped, Threads
    <3>5. ASSUME NEW w \in Workers, NEW t \in OrderTypes, TaskStep(w, t)
          PROVE  UNCHANGED notes \/ PublishUpdate(w, t)
      BY <3>5 DEF TaskStep, Subscribe, SubscribeFails, ConsumeReturns, Receive,
                  CheckStopping, AddActive, SetOrderStatus, SetStatusFails,
                  CountProcessed, Acknowledge, Reject
    <3>. QED
      BY <1>2, <3>1, <3>2, <3>4, <3>5 DEF Next
  <2>2. \A n \in notes : n[1] \in Orders
    BY <1>2, TypeParts DEF Core, NotesType
  <2>3. \A n \in notes' :
          \/ n \in notes
          \/ n[1] \in Orders /\ Logged(n[1], n[3], n[2])
    <3>. SUFFICES ASSUME NEW w \in Workers, NEW t \in OrderTypes, PublishUpdate(w, t)
                  PROVE  \A n \in notes' :
                           n \in notes \/ (n[1] \in Orders /\ Logged(n[1], n[3], n[2]))
      BY <2>1
    <3>1. cur[w][t] \in Orders
      BY <1>2 DEF Core, PublishUpdate, HandlesOwn, Busy, InHandler
    <3>2. Logged(cur[w][t], w, NotedAt[task[w][t]])
      BY <1>2
      DEF PublishUpdate, HandlerInv, Entitled, AfterCooking, AfterReady, NotedAt
    <3>. QED
      BY <3>1, <3>2 DEF PublishUpdate
  <2>4. \A n \in notes' : n[1] \in Orders /\ Logged(n[1], n[3], n[2])
    BY <1>2, <2>2, <2>3 DEF NotifiedIsLogged
  <2>. SUFFICES ASSUME NEW n \in notes'
                PROVE  Logged(n[1], n[3], n[2])'
    BY DEF NotifiedIsLogged
  <2>. QED
    BY <1>2, <2>4, LoggedKept
<1>. QED
  BY <1>1, <1>2, HandlerInvariant, PTL DEF Spec

(* No worker makes an order ready that it had not begun to cook, over      *)
(* every redelivery to the same or to another worker.                      *)
THEOREM CookedBeforeReady == Spec => []ReadyAfterCooking
<1>1. Init => ReadyAfterCooking
  BY DEF Init, StoreInit, ReadyAfterCooking
<1>2. ASSUME Core, HandlerInv, ReadyAfterCooking, [Next]_vars
      PROVE  ReadyAfterCooking'
  <2>. USE <1>2, TypeParts DEF Core, StoreTypeOK
  <2>1. CASE UNCHANGED storeVars
    BY <2>1 DEF storeVars, ReadyAfterCooking
  <2>2. ASSUME NEW o \in Orders, NEW e \in LogEntry,
               statusLog' = [statusLog EXCEPT ![o] = Append(@, e)],
               e.status = "ready" => Logged(o, e.by, "cooking")
        PROVE  ReadyAfterCooking'
    <3>. SUFFICES ASSUME NEW v \in Orders, NEW i \in DOMAIN statusLog'[v],
                         statusLog'[v][i].status = "ready"
                  PROVE  \E j \in 1 .. i - 1 : statusLog'[v][j] =
                           [status |-> "cooking", by |-> statusLog'[v][i].by]
      BY Zenon DEF ReadyAfterCooking
    <3>1. \A j \in DOMAIN statusLog[v] : statusLog'[v][j] = statusLog[v][j]
      BY <2>2, AppendKeeps
    <3>2. DOMAIN statusLog[v] = 1 .. Len(statusLog[v]) /\ Len(statusLog[v]) \in Nat
      OBVIOUS
    <3>3. CASE i \in DOMAIN statusLog[v]
      <4>1. statusLog'[v][i] = statusLog[v][i] /\ i \in 1 .. Len(statusLog[v])
        BY <3>1, <3>2, <3>3
      <4>2. PICK j \in 1 .. i - 1 :
              statusLog[v][j] = [status |-> "cooking", by |-> statusLog[v][i].by]
        BY <3>3, <4>1, Zenon DEF ReadyAfterCooking
      <4>3. j \in DOMAIN statusLog[v]
        BY <3>2, <4>1
      <4>. QED
        BY <3>1, <4>1, <4>2, <4>3
    <3>4. CASE i \notin DOMAIN statusLog[v]
      <4>1. v = o /\ i = Len(statusLog[o]) + 1 /\ statusLog'[o][i] = e
        BY <2>2, <3>4
      <4>2. PICK j \in DOMAIN statusLog[o] :
              statusLog[o][j] = [status |-> "cooking", by |-> e.by]
        BY <2>2, <4>1 DEF Logged
      <4>. QED
        BY <3>1, <3>2, <4>1, <4>2
    <3>. QED
      BY <3>3, <3>4
  <2>3. CASE \E o \in Orders : Create(o)
    BY <2>2, <2>3, CreateEntry DEF Create
  <2>4. ASSUME NEW w \in Workers, NEW t \in OrderTypes,
               task[w][t] \in {"set_cooking", "cooking"},
               SetStatus(cur[w][t], w, StatusAt[task[w][t]])
        PROVE  ReadyAfterCooking'
    <3>1. PICK o \in Orders : o = cur[w][t]
      BY <2>4 DEF HandlesOwn, Busy, InHandler
    <3>2. PICK e : e = [status |-> StatusAt[task[w][t]], by |-> w]
      OBVIOUS
    <3>3. e \in LogEntry
      BY <2>4, <3>2, StatusEntry
    <3>4. e.by = w /\ (e.status = "ready" => task[w][t] = "cooking")
      BY <2>4, <3>2 DEF StatusAt
    <3>5. task[w][t] = "cooking" => Logged(o, w, "cooking")
      BY <3>1 DEF HandlerInv, Entitled, AfterCooking
    <3>6. e.status = "ready" => Logged(o, e.by, "cooking")
      BY <3>4, <3>5
    <3>7. statusLog' = [statusLog EXCEPT ![o] = Append(@, e)]
      BY <2>4, <3>1, <3>2 DEF SetStatus
    <3>. QED
      BY <2>2, <3>3, <3>6, <3>7
  <2>. QED
    BY <2>1, <2>3, <2>4, StoreEffect
<1>. QED
  BY <1>1, <1>2, HandlerInvariant, PTL DEF Spec

-----------------------------------------------------------------------------
(* orders_processed.                                                       *)

(* The consumers of w that have logged an order as ready and not counted   *)
(* it yet.                                                                 *)
Uncounted(w) == {t \in OrderTypes : task[w][t] \in {"pub_ready", "incr"}}

(* What w has counted and is about to count has been logged.               *)
CountInv ==
    \A w \in Workers :
        /\ IsFiniteSet(Uncounted(w))
        /\ IsFiniteSet(ReadyEntries(w))
        /\ workers[w].processed + Cardinality(Uncounted(w)) <= Cardinality(ReadyEntries(w))

(* An element of ReadyEntries(w) names an order and a place in its log.    *)
LEMMA ReadyEntry ==
    ASSUME StoreTypeOK, NEW w, NEW e
    PROVE  e \in ReadyEntries(w) <=>
             \E o \in Orders : \E i \in DOMAIN statusLog[o] :
               e = <<o, i>> /\ statusLog[o][i] = [status |-> "ready", by |-> w]
  BY DEF ReadyEntries

(* The log of o gets one more entry, which counts for w if it says ready   *)
(* and w.                                                                  *)
LEMMA ReadyAppend ==
    ASSUME StoreTypeOK, StoreTypeOK', NEW o \in Orders, NEW x \in LogEntry,
           statusLog' = [statusLog EXCEPT ![o] = Append(@, x)], NEW w
    PROVE  /\ <<o, Len(statusLog[o]) + 1>> \notin ReadyEntries(w)
           /\ ReadyEntries(w)' =
                IF x = [status |-> "ready", by |-> w]
                THEN ReadyEntries(w) \cup {<<o, Len(statusLog[o]) + 1>>}
                ELSE ReadyEntries(w)
<1>. DEFINE n == Len(statusLog[o]) + 1
<1>1. /\ n \notin DOMAIN statusLog[o]
      /\ DOMAIN statusLog'[o] = DOMAIN statusLog[o] \cup {n}
      /\ statusLog'[o][n] = x
  BY DEF StoreTypeOK
<1>2. \A v \in Orders : v # o => statusLog'[v] = statusLog[v]
  BY DEF StoreTypeOK
<1>3. \A i \in DOMAIN statusLog[o] : statusLog'[o][i] = statusLog[o][i]
  BY DEF StoreTypeOK
<1>. HIDE DEF n
<1>4. <<o, n>> \notin ReadyEntries(w)
  <2>. SUFFICES ASSUME <<o, n>> \in ReadyEntries(w) PROVE FALSE
    OBVIOUS
  <2>1. PICK v \in Orders : \E i \in DOMAIN statusLog[v] : <<o, n>> = <<v, i>>
    BY DEF ReadyEntries
  <2>. QED
    BY <1>1, <2>1
<1>5. \A e : e \in ReadyEntries(w)' <=>
             \E v \in Orders : \E i \in DOMAIN statusLog'[v] :
               e = <<v, i>> /\ statusLog'[v][i] = [status |-> "ready", by |-> w]
  BY DEF ReadyEntries
<1>6. \A e : e \in ReadyEntries(w)' <=>
             \/ e \in ReadyEntries(w)
             \/ e = <<o, n>> /\ x = [status |-> "ready", by |-> w]
  <2>. TAKE e
  <2>1. ASSUME e \in ReadyEntries(w)'
        PROVE  e \in ReadyEntries(w) \/ (e = <<o, n>> /\ x = [status |-> "ready", by |-> w])
    <3>1. PICK v \in Orders : \E i \in DOMAIN statusLog'[v] :
               e = <<v, i>> /\ statusLog'[v][i] = [status |-> "ready", by |-> w]
      BY <1>5, <2>1
    <3>2. CASE v # o
      BY <1>2, <3>1, <3>2, ReadyEntry
    <3>3. CASE v = o
      BY <1>1, <1>3, <3>1, <3>3, ReadyEntry
    <3>. QED
      BY <3>2, <3>3
  <2>2. ASSUME e \in ReadyEntries(w)
        PROVE  e \in ReadyEntries(w)'
    <3>1. PICK v \in Orders : \E i \in DOMAIN statusLog[v] :
               e = <<v, i>> /\ statusLog[v][i] = [status |-> "ready", by |-> w]
      BY <2>2, ReadyEntry
    <3>2. \A i \in DOMAIN statusLog[v] :
            i \in DOMAIN statusLog'[v] /\ statusLog'[v][i] = statusLog[v][i]
      BY <1>1, <1>2, <1>3
    <3>. QED
      BY <1>5, <3>1, <3>2
  <2>3. ASSUME e = <<o, n>>, x = [status |-> "ready", by |-> w]
        PROVE  e \in ReadyEntries(w)'
    BY <1>1, <1>5, <2>3
  <2>. QED
    BY <2>1, <2>2, <2>3
<1>. QED
  BY <1>4, <1>6 DEF n

(* What a step adds to the entries of w: nothing, or one of a handler of w *)
(* that is about to write ready.                                           *)
LEMMA ReadyEffect ==
    ASSUME Core, Core', [Next]_vars, NEW w \in Workers
    PROVE  \/ ReadyEntries(w)' = ReadyEntries(w)
           \/ \E e : e \notin ReadyEntries(w) /\ ReadyEntries(w)' = ReadyEntries(w) \cup {e}
<1>. USE TypeParts DEF Core
<1>1. StoreTypeOK /\ StoreTypeOK'
  BY DEF TypeOK
<1>2. CASE UNCHANGED storeVars
  BY <1>2 DEF storeVars, ReadyEntries
<1>3. CASE \E o \in Orders : Create(o)
  BY <1>1, <1>3, ReadyAppend, CreateEntry DEF Create
<1>4. ASSUME NEW v \in Workers, NEW t \in OrderTypes,
             task[v][t] \in {"set_cooking", "cooking"},
             SetStatus(cur[v][t], v, StatusAt[task[v][t]])
      PROVE  \/ ReadyEntries(w)' = ReadyEntries(w)
             \/ \E e : e \notin ReadyEntries(w) /\ ReadyEntries(w)' = ReadyEntries(w) \cup {e}
  <2>1. cur[v][t] \in Orders
    BY <1>4 DEF HandlesOwn, Busy, InHandler
  <2>. QED
    BY <1>1, <1>4, <2>1, ReadyAppend, StatusEntry DEF SetStatus
<1>. QED
  BY <1>2, <1>3, <1>4, StoreEffect

(* A handler that goes from cooking to the publication has logged ready.   *)
LEMMA ReadyWritten ==
    ASSUME Core, Core', NEW w \in Workers, NEW t \in OrderTypes,
           SetOrderStatus(w, t), task[w][t] = "cooking"
    PROVE  \E e : e \notin ReadyEntries(w) /\ ReadyEntries(w)' = ReadyEntries(w) \cup {e}
<1>1. StoreTypeOK /\ StoreTypeOK'
  BY DEF Core, TypeOK
<1>2. cur[w][t] \in Orders
  BY DEF Core, HandlesOwn, Busy, InHandler
<1>3. statusLog' = [statusLog EXCEPT ![cur[w][t]] = Append(@, [status |-> "ready", by |-> w])]
  BY DEF SetOrderStatus, SetStatus, StatusAt
<1>4. [status |-> "ready", by |-> w] \in LogEntry
  BY DEF LogEntry, OrderStatuses
<1>. QED
  BY <1>1, <1>2, <1>3, <1>4, ReadyAppend

(* Only CountProcessed changes the count of a worker.                      *)
LEMMA ProcessedEffect ==
    ASSUME Core, [Next]_vars, NEW w \in Workers
    PROVE  \/ workers'[w].processed = workers[w].processed
           \/ \E t \in OrderTypes :
                CountProcessed(w, t) /\ workers'[w].processed = workers[w].processed + 1
<1>. DEFINE Same == workers'[w].processed = workers[w].processed
<1>. USE TypeParts DEF Core
<1>1. ASSUME NEW v \in Workers,
             UNCHANGED workers \/ MarkOnline(v) \/ MarkOffline(v) \/ LastSeenLapses(v)
      PROVE  Same
  BY <1>1 DEF WorkerStoreTypeOK, WorkerRow, MarkOnline, MarkOffline, LastSeenLapses
<1>2. CASE UNCHANGED vars
  BY <1>2 DEF vars
<1>3. CASE Environment
  <2>1. UNCHANGED workers \/ \E v \in Workers : LastSeenLapses(v)
    BY <1>3 DEF Environment, OrderPlaced, StartWorker, Signal, Crash, ConnLost, Lapse,
                CloseTimeout, Deliver
  <2>. QED
    BY <1>1, <2>1
<1>4. ASSUME NEW v \in Workers, NEW g \in Threads, StopStep(v, g)
      PROVE  UNCHANGED workers \/ MarkOffline(v)
  BY <1>4 DEF StopStep, StopReturns, StopBegins, StopPanics, StopWaited, StopCancels,
              StopMarksOffline, StopMarkFails
<1>5. ASSUME NEW v \in Workers, MainStep(v) \/ WorkStep(v)
      PROVE  Same
  <2>1. UNCHANGED workers \/ MarkOnline(v) \/ MarkOffline(v)
    BY <1>4, <1>5 DEF MainStep, MainSignalled, MainReadsFailure, MainReadsStopped,
                ReconnectSucceeds, ReconnectFails, CloseConnections, Leave, WorkStep,
                Register, RegisterFails, ConsumersDone, ReportStopped, Threads
  <2>. QED
    BY <1>1, <2>1
<1>6. ASSUME NEW v \in Workers, NEW t \in OrderTypes, TaskStep(v, t)
      PROVE  Same \/ (v = w /\ CountProcessed(v, t)
                           /\ workers'[w].processed = workers[w].processed + 1)
  <2>1. UNCHANGED workers \/ (CountProcessed(v, t) /\ IncrOrdersProcessed(v))
    BY <1>6 DEF TaskStep, Subscribe, SubscribeFails, ConsumeReturns, Receive,
                CheckStopping, AddActive, SetOrderStatus, SetStatusFails,
                PublishUpdate, CountProcessed, Acknowledge, Reject
  <2>. QED
    BY <2>1 DEF IncrOrdersProcessed, WorkerStoreTypeOK, WorkerRow
<1>. QED
  BY <1>2, <1>3, <1>5, <1>6 DEF Next

(* What a step does to the consumers of w that have yet to count.          *)
LEMMA UncountedEffect ==
    ASSUME Core, [Next]_vars, NEW w \in Workers
    PROVE  \/ Uncounted(w)' \subseteq Uncounted(w)
           \/ \E t \in OrderTypes :
                /\ SetOrderStatus(w, t)
                /\ task[w][t] = "cooking"
                /\ Uncounted(w)' = Uncounted(w) \cup {t}
                /\ t \notin Uncounted(w)
<1>. USE TypeParts DEF Core, TaskType
<1>1. CASE UNCHANGED <<task, cur>>
  BY <1>1 DEF Uncounted
<1>2. ASSUME NEW v \in Workers, DropConsumers(v)
      PROVE  Uncounted(w)' \subseteq Uncounted(w)
  BY <1>2 DEF DropConsumers, NoTasks, Uncounted
<1>3. ASSUME NEW v \in Workers, Register(v)
      PROVE  Uncounted(w)' \subseteq Uncounted(w)
  BY <1>3 DEF Register, Uncounted
<1>4. ASSUME NEW v \in Workers, NEW t \in OrderTypes, TaskStep(v, t)
      PROVE  \/ Uncounted(w)' \subseteq Uncounted(w)
             \/ /\ v = w
                /\ SetOrderStatus(w, t)
                /\ task[w][t] = "cooking"
                /\ Uncounted(w)' = Uncounted(w) \cup {t}
                /\ t \notin Uncounted(w)
  <2>1. \A u \in OrderTypes : v # w \/ u # t => task'[w][u] = task[w][u]
    BY <1>4, OtherTasks
  <2>2. \/ task'[v][t] \notin {"pub_ready", "incr"}
        \/ task[v][t] \in {"pub_ready", "incr"}
        \/ SetOrderStatus(v, t) /\ task[v][t] = "cooking" /\ task'[v][t] = "pub_ready"
    BY <1>4 DEF TaskStep, Subscribe, SubscribeFails, ConsumeReturns, Receive,
         CheckStopping, AddActive, SetOrderStatus, SetStatusFails, PublishUpdate,
         CountProcessed, Acknowledge, Reject, NextMessage, At, AfterStatus, AfterPublish
  <2>. QED
    BY <2>1, <2>2 DEF Uncounted
<1>. QED
  BY <1>1, <1>2, <1>3, <1>4, ConsumerEffect

(* Writing ready adds one to both sides, counting moves one from the       *)
(* handlers to the counter, and everything else only lowers the left side. *)
LEMMA CountInvStep ==
    ASSUME Core, Core', CountInv, [Next]_vars
    PROVE  CountInv'
<1>. SUFFICES ASSUME NEW w \in Workers
              PROVE  /\ IsFiniteSet(Uncounted(w))'
                     /\ IsFiniteSet(ReadyEntries(w))'
                     /\ workers'[w].processed + Cardinality(Uncounted(w)')
                           <= Cardinality(ReadyEntries(w)')
  BY DEF CountInv
<1>. DEFINE U == Uncounted(w)
            R == ReadyEntries(w)
            p == workers[w].processed
<1>1. /\ IsFiniteSet(U) /\ IsFiniteSet(R)
      /\ p + Cardinality(U) <= Cardinality(R)
  BY DEF CountInv
<1>2. p \in Nat
  BY TypeParts DEF Core, WorkerStoreTypeOK, WorkerRow
<1>3. Cardinality(U) \in Nat /\ Cardinality(R) \in Nat
  BY <1>1, FS_CardinalityType
<1>4. IsFiniteSet(R') /\ Cardinality(R') \in Nat /\ Cardinality(R) <= Cardinality(R')
  <2>1. CASE R' = R
    BY <1>1, <1>3, <2>1
  <2>2. ASSUME NEW e, e \notin R, R' = R \cup {e}
        PROVE  IsFiniteSet(R') /\ Cardinality(R') \in Nat /\ Cardinality(R) <= Cardinality(R')
    <3>. HIDE DEF R
    <3>. QED
      BY <1>1, <1>3, <2>2, FS_AddElement
  <2>. QED
    BY <2>1, <2>2, ReadyEffect
<1>5. ASSUME NEW t \in OrderTypes, SetOrderStatus(w, t), task[w][t] = "cooking",
             U' = U \cup {t}, t \notin U
      PROVE  IsFiniteSet(U') /\ p' + Cardinality(U') <= Cardinality(R')
  <2>1. p' = p
    BY <1>5 DEF SetOrderStatus
  <2>2. PICK e : e \notin R /\ R' = R \cup {e}
    BY <1>5, ReadyWritten
  <2>. HIDE DEF R, U, p
  <2>3. Cardinality(R') = Cardinality(R) + 1
    BY <1>1, <2>2, FS_AddElement
  <2>4. IsFiniteSet(U') /\ Cardinality(U') = Cardinality(U) + 1
    BY <1>1, <1>5, FS_AddElement
  <2>. QED
    BY <1>1, <1>2, <1>3, <2>1, <2>3, <2>4
<1>6. ASSUME U' \subseteq U, p' = p
      PROVE  IsFiniteSet(U') /\ p' + Cardinality(U') <= Cardinality(R')
  <2>. HIDE DEF R, U, p
  <2>1. IsFiniteSet(U') /\ Cardinality(U') <= Cardinality(U)
    BY <1>1, <1>6, FS_Subset
  <2>2. Cardinality(U') \in Nat
    BY <2>1, FS_CardinalityType
  <2>. QED
    BY <1>1, <1>2, <1>3, <1>4, <1>6, <2>1, <2>2
<1>7. ASSUME NEW t \in OrderTypes, CountProcessed(w, t), p' = p + 1
      PROVE  IsFiniteSet(U') /\ p' + Cardinality(U') <= Cardinality(R')
  <2>1. U' = U \ {t} /\ t \in U
    BY <1>7, TypeParts DEF CountProcessed, At, Uncounted, Core, TaskType
  <2>. HIDE DEF R, U, p
  <2>2. IsFiniteSet(U') /\ Cardinality(U') = Cardinality(U) - 1
    BY <1>1, <2>1, FS_RemoveElement
  <2>. QED
    BY <1>1, <1>2, <1>3, <1>4, <1>7, <2>2
<1>8. \/ U' \subseteq U /\ p' = p
      \/ \E t \in OrderTypes : CountProcessed(w, t) /\ p' = p + 1
      \/ \E t \in OrderTypes :
           SetOrderStatus(w, t) /\ task[w][t] = "cooking" /\ U' = U \cup {t} /\ t \notin U
  BY UncountedEffect, ProcessedEffect
<1>. QED
  BY <1>4, <1>5, <1>6, <1>7, <1>8

(* No worker is credited with more orders than it logged as ready, over    *)
(* redeliveries, restarts, failed increments and any number of handlers    *)
(* between their last write and the counter.                               *)
THEOREM CountsAreEarned == Spec => []NeverOvercounted
<1>1. Init => CountInv
  <2>. SUFFICES ASSUME Init, NEW w \in Workers
                PROVE  /\ Uncounted(w) = {} /\ ReadyEntries(w) = {}
                       /\ workers[w].processed = 0
    BY FS_EmptySet DEF CountInv
  <2>1. Uncounted(w) = {}
    BY DEF Init, NoTasks, Uncounted
  <2>2. ReadyEntries(w) = {}
    BY DEF Init, StoreInit, ReadyEntries
  <2>. QED
    BY <2>1, <2>2 DEF Init, WorkerStoreInit
<1>2. Core /\ Core' /\ CountInv /\ [Next]_vars => CountInv'
  BY CountInvStep
<1>3. Core /\ CountInv => NeverOvercounted
  <2>. SUFFICES ASSUME Core, CountInv, NEW w \in Workers
                PROVE  workers[w].processed <= Cardinality(ReadyEntries(w))
    BY DEF NeverOvercounted
  <2>1. /\ Cardinality(Uncounted(w)) \in Nat /\ Cardinality(ReadyEntries(w)) \in Nat
        /\ workers[w].processed + Cardinality(Uncounted(w)) <= Cardinality(ReadyEntries(w))
    BY FS_CardinalityType DEF CountInv
  <2>2. workers[w].processed \in Nat
    BY TypeParts DEF Core, WorkerStoreTypeOK, WorkerRow
  <2>. QED
    BY <2>1, <2>2
<1>. QED
  BY <1>1, <1>2, <1>3, CoreInvariant, PTL DEF Spec
-----------------------------------------------------------------------------
(* An order that has no row has no message.                                *)
PlacedIsStored == \A o \in Orders : message[o] # "none" => Exists(o)

(* Create commits before PublishCreateOrder, and no row is ever deleted.   *)
LEMMA PlacedIsStoredStep ==
    ASSUME Core, PlacedIsStored, [Next]_vars
    PROVE  PlacedIsStored'
<1>. USE TypeParts DEF Core, StoreTypeOK, BrokerTypeOK, PlacedIsStored, Exists
<1>1. CASE UNCHANGED <<storeVars, brokerVars>>
  BY <1>1 DEF storeVars, brokerVars
<1>2. ASSUME NEW o \in Orders, OrderPlaced(o)
      PROVE  PlacedIsStored'
  BY <1>2 DEF OrderPlaced, Create, Publish, OrderRow
<1>3. ASSUME NEW w \in Workers, Requeues(w)
      PROVE  PlacedIsStored'
  BY <1>3 DEF Requeues, RequeueDeliveries, HeldBy, storeVars
<1>4. ASSUME NEW w \in Workers, NEW o \in Orders, Deliver(w, o)
      PROVE  PlacedIsStored'
  BY <1>4 DEF Deliver, PushTo, storeVars
<1>5. ASSUME NEW w \in Workers, NEW t \in OrderTypes, Writes(w, t)
      PROVE  PlacedIsStored'
  <2>1. StatusAt[task[w][t]] # "absent"
    BY <1>5 DEF Writes, StatusAt
  <2>. QED
    BY <1>5, <2>1 DEF Writes, SetStatus, brokerVars
<1>6. ASSUME NEW w \in Workers, NEW t \in OrderTypes, Acknowledge(w, t) \/ Reject(w, t)
      PROVE  PlacedIsStored'
  BY <1>6 DEF Acknowledge, Reject, Settle, HeldBy, storeVars, brokerVars
<1>. QED
  BY <1>1, <1>2, <1>3, <1>4, <1>5, <1>6, StepEffect

(* Acknowledged orders stay ready.                                         *)

(* A consumer goroutine exists only for the types of its worker.           *)
OwnTypes ==
    \A w \in Workers, t \in OrderTypes : task[w][t] # "none" => t \in Handles[w]

(* Register starts consumers for the types of its worker only.             *)
LEMMA OwnTypesStep ==
    ASSUME Core, OwnTypes, [Next]_vars
    PROVE  OwnTypes'
<1>. USE TypeParts DEF Core, TaskType, OwnTypes
<1>1. CASE UNCHANGED <<task, cur>>
  BY <1>1
<1>2. ASSUME NEW v \in Workers, DropConsumers(v)
      PROVE  OwnTypes'
  BY <1>2 DEF DropConsumers, NoTasks
<1>3. ASSUME NEW v \in Workers, Register(v)
      PROVE  OwnTypes'
  BY <1>3 DEF Register
<1>4. ASSUME NEW v \in Workers, NEW u \in OrderTypes, TaskStep(v, u)
      PROVE  OwnTypes'
  <2>1. task[v][u] # "none" /\ \E place : task' = [task EXCEPT ![v][u] = place]
    BY <1>4, TaskKeeps
  <2>. QED
    BY <2>1
<1>. QED
  BY <1>1, <1>2, <1>3, <1>4, ConsumerEffect

(* What waits in the buffer of a worker, or is in the hands of a consumer  *)
(* that is subscribed, is a delivery the broker knows of; it is not in     *)
(* both places.                                                            *)
DeliveriesHeld ==
    \A w \in Workers, o \in Orders :
        /\ o \in buf[w] => o \in HeldBy(w) /\ cur[w][TypeOf[o]] # o
        /\ TypeOf[o] \in sub[w] /\ cur[w][TypeOf[o]] = o => o \in HeldBy(w)

(* A worker subscribes only when the handler of the type is gone, so       *)
(* nothing is delivered to it that it still handles.                       *)
LEMMA DeliveriesHeldStep ==
    ASSUME Core, PlacedIsStored, DeliveriesHeld, [Next]_vars
    PROVE  DeliveriesHeld'
<1>. USE TypeParts, DomainAssumption DEF Core, BrokerTypeOK, CurType, BufType, SubType
<1>1. CASE UNCHANGED <<message, holder, cur, buf, sub>>
  BY <1>1 DEF DeliveriesHeld, HeldBy
<1>2. ASSUME NEW v \in Orders, OrderPlaced(v)
      PROVE  DeliveriesHeld'
  <2>1. \A w \in Workers : v \notin HeldBy(w)
    BY <1>2 DEF OrderPlaced, PlacedIsStored, HeldBy
  <2>2. \A w \in Workers, o \in Orders : o \in HeldBy(w) => o \in HeldBy(w)'
    BY <1>2, <2>1 DEF OrderPlaced, Publish, HeldBy
  <2>. QED
    BY <1>2, <2>2 DEF OrderPlaced, taskVars, DeliveriesHeld
<1>3. ASSUME NEW v \in Workers, RequeueDeliveries(v),
             buf' = [buf EXCEPT ![v] = {}], sub' = [sub EXCEPT ![v] = {}],
             UNCHANGED cur \/ cur' = [cur EXCEPT ![v] = NothingTaken]
      PROVE  DeliveriesHeld'
  <2>1. \A w \in Workers, o \in Orders : w # v /\ o \in HeldBy(w) => o \in HeldBy(w)'
    BY <1>3 DEF RequeueDeliveries, HeldBy
  <2>2. /\ buf'[v] = {} /\ sub'[v] = {}
        /\ \A w \in Workers : w # v => /\ buf'[w] = buf[w]
                                       /\ sub'[w] = sub[w]
                                       /\ cur'[w] = cur[w]
    BY <1>3
  <2>. QED
    BY <2>1, <2>2 DEF DeliveriesHeld
<1>4. ASSUME NEW v \in Workers, NEW d \in Orders, Deliver(v, d)
      PROVE  DeliveriesHeld'
  <2>1. /\ \A w \in Workers : d \notin HeldBy(w)
        /\ d \in HeldBy(v)'
        /\ \A w \in Workers, o \in Orders : o \in HeldBy(w) => o \in HeldBy(w)'
    BY <1>4 DEF Deliver, PushTo, HeldBy
  <2>2. cur[v][TypeOf[d]] # d
    BY <1>4, <2>1 DEF Deliver, DeliveriesHeld
  <2>. QED
    BY <1>4, <2>1, <2>2 DEF Deliver, DeliveriesHeld
<1>5. ASSUME NEW v \in Workers, NEW t \in OrderTypes, Subscribe(v, t)
      PROVE  DeliveriesHeld'
  <2>1. cur[v][t] = NoOrder
    BY <1>5 DEF Subscribe, HandlesOwn, Busy, InHandler, HandlerErrors
  <2>. QED
    BY <1>5, <2>1 DEF Subscribe, brokerVars, DeliveriesHeld, HeldBy
<1>6. ASSUME NEW v \in Workers, NEW t \in OrderTypes, NEW d \in Orders, Receive(v, t, d)
      PROVE  DeliveriesHeld'
  <2>1. d \in HeldBy(v) /\ TypeOf[d] = t
    BY <1>6 DEF Receive, DeliveriesHeld
  <2>. QED
    BY <1>6, <2>1 DEF Receive, brokerVars, DeliveriesHeld, HeldBy
<1>7. ASSUME NEW v \in Workers, NEW t \in OrderTypes, Acknowledge(v, t) \/ Reject(v, t)
      PROVE  DeliveriesHeld'
  <2>1. cur[v][t] \in Orders /\ TypeOf[cur[v][t]] = t
    BY <1>7 DEF Acknowledge, Reject, HandlesOwn, Busy
  <2>2. \A w \in Workers, o \in Orders :
          o \in HeldBy(w) => o \in HeldBy(w)' \/ (w = v /\ o = cur[v][t])
    BY <1>7 DEF Acknowledge, Reject, Settle, HeldBy, brokerVars
  <2>3. /\ UNCHANGED <<buf, sub>>
        /\ cur' = [cur EXCEPT ![v][t] = NoOrder]
    BY <1>7 DEF Acknowledge, Reject, NextMessage
  <2>. QED
    BY <2>1, <2>2, <2>3 DEF DeliveriesHeld
<1>. QED
  BY <1>1, <1>2, <1>3, <1>4, <1>5, <1>6, <1>7, MessageEffect

(* Every order type is handled by one worker at most.                      *)
Specialised == \A v, w \in Workers : Handles[v] \cap Handles[w] # {} => v = w

(* Nobody handles an acknowledged order, not even a handler that has       *)
(* outlived its connection.                                                *)
AckedIsFree ==
    \A o \in Orders : message[o] = "acked" =>
        \A w \in Workers, t \in OrderTypes : cur[w][t] # o

(* A handler that has made its order ready finds it so.                    *)
ReadyStays ==
    \A w \in Workers, t \in OrderTypes :
        task[w][t] \in AfterReady => orders[cur[w][t]].status = "ready"

(* Two consumers do not handle the same order.                             *)
LEMMA OneConsumer ==
    ASSUME Specialised, Core, OwnTypes, NEW o \in Orders,
           NEW v \in Workers, NEW u \in OrderTypes, cur[v][u] = o,
           NEW w \in Workers, NEW t \in OrderTypes, cur[w][t] = o
    PROVE  v = w /\ u = t
<1>1. task[v][u] \in Busy /\ task[w][t] \in Busy /\ TypeOf[o] = u /\ TypeOf[o] = t
  BY DomainAssumption DEF Core, HandlesOwn
<1>2. u \in Handles[v] /\ t \in Handles[w]
  BY <1>1 DEF OwnTypes, Busy, InHandler, HandlerErrors
<1>. QED
  BY <1>1, <1>2 DEF Specialised

(* A consumer gets a new order only from its buffer.                       *)
LEMMA TakenEffect ==
    ASSUME Core, [Next]_vars, NEW o \in Orders,
           NEW w \in Workers, NEW t \in OrderTypes, cur'[w][t] = o
    PROVE  cur[w][t] = o \/ o \in buf[w]
<1>. USE TypeParts, DomainAssumption DEF Core, CurType
<1>1. CASE UNCHANGED cur
  BY <1>1
<1>2. ASSUME NEW v \in Workers, cur' = [cur EXCEPT ![v] = NothingTaken]
      PROVE  cur[w][t] = o
  BY <1>2 DEF NothingTaken
<1>3. ASSUME NEW v \in Workers, NEW u \in OrderTypes, NEW d \in Orders, Receive(v, u, d)
      PROVE  cur[w][t] = o \/ o \in buf[w]
  BY <1>3 DEF Receive
<1>4. ASSUME NEW v \in Workers, NEW u \in OrderTypes, Acknowledge(v, u) \/ Reject(v, u)
      PROVE  cur[w][t] = o
  BY <1>4 DEF Acknowledge, Reject, NextMessage
<1>5. ASSUME NEW v \in Workers, NEW u \in OrderTypes, Subscribe(v, u)
      PROVE  UNCHANGED cur
  BY <1>5 DEF Subscribe
<1>. QED
  BY <1>1, <1>2, <1>3, <1>4, <1>5, MessageEffect DEF OrderPlaced, Deliver, taskVars

(* An acknowledged order is in no buffer, so nobody takes it up again.     *)
LEMMA AckedIsFreeStep ==
    ASSUME Specialised, Core, OwnTypes, DeliveriesHeld, AckedIsFree, [Next]_vars
    PROVE  AckedIsFree'
<1>. SUFFICES ASSUME NEW o \in Orders, message'[o] = "acked",
                     NEW w \in Workers, NEW t \in OrderTypes, cur'[w][t] = o
              PROVE  FALSE
  BY DEF AckedIsFree
<1>1. cur[w][t] = o \/ o \in buf[w]
  BY TakenEffect
<1>2. message[o] # "acked"
  BY <1>1 DEF AckedIsFree, DeliveriesHeld, HeldBy
<1>3. PICK v \in Workers, u \in OrderTypes : Acknowledge(v, u) /\ cur[v][u] = o
  BY <1>2, AckEffect
<1>4. UNCHANGED buf /\ cur' = [cur EXCEPT ![v][u] = NoOrder] /\ TypeOf[o] = u
  BY <1>3 DEF Acknowledge, NextMessage, Core, HandlesOwn, Busy
<1>5. cur[w][t] = o
  BY <1>4, TypeParts, DomainAssumption DEF Core, CurType
<1>6. v = w /\ u = t
  BY <1>3, <1>5, OneConsumer
<1>. QED
  BY <1>4, <1>6, TypeParts, DomainAssumption DEF Core, CurType

(* Only a handler of the order changes the status of an order with a row.  *)
LEMMA StatusKeptUnless ==
    ASSUME Core, [Next]_vars, NEW o \in Orders, orders[o].status = "ready",
           \A w \in Workers, t \in OrderTypes :
             task[w][t] \in {"set_cooking", "cooking"} => cur[w][t] # o
    PROVE  orders'[o].status = "ready"
<1>. USE TypeParts DEF Core, StoreTypeOK
<1>1. CASE UNCHANGED storeVars
  BY <1>1 DEF storeVars
<1>2. ASSUME NEW d \in Orders, OrderPlaced(d)
      PROVE  orders'[o].status = "ready"
  BY <1>2 DEF OrderPlaced, Exists, Create
<1>3. ASSUME NEW w \in Workers, NEW t \in OrderTypes, Writes(w, t)
      PROVE  orders'[o].status = "ready"
  BY <1>3 DEF Writes, SetStatus
<1>. QED
  BY <1>1, <1>2, <1>3, StepEffect
  DEF Requeues, Deliver, Acknowledge, Reject

(* Nobody else writes the status of the order a handler has.               *)
LEMMA ReadyStaysStep ==
    ASSUME Specialised, Core, OwnTypes, ReadyStays, [Next]_vars
    PROVE  ReadyStays'
<1>. SUFFICES ASSUME NEW w \in Workers, NEW t \in OrderTypes, task'[w][t] \in AfterReady
              PROVE  orders'[cur'[w][t]].status = "ready"
  BY DEF ReadyStays
<1>. USE TypeParts DEF Core, TaskType, CurType
<1>1. CASE task[w][t] \in AfterReady /\ cur'[w][t] = cur[w][t]
  <2>1. cur[w][t] \in Orders /\ orders[cur[w][t]].status = "ready"
    BY <1>1 DEF HandlesOwn, Busy, InHandler, AfterReady, ReadyStays
  <2>2. ASSUME NEW v \in Workers, NEW u \in OrderTypes,
               task[v][u] \in {"set_cooking", "cooking"}, cur[v][u] = cur[w][t]
        PROVE  FALSE
    <3>1. v = w /\ u = t
      BY <2>1, <2>2, OneConsumer
    <3>. QED
      BY <1>1, <2>2, <3>1 DEF AfterReady
  <2>. QED
    BY <1>1, <2>1, <2>2, StatusKeptUnless
<1>2. CASE SetOrderStatus(w, t)
  <2>1. task[w][t] = "cooking"
    BY <1>2 DEF SetOrderStatus, At, AfterStatus, AfterReady
  <2>2. cur[w][t] \in Orders /\ cur'[w][t] = cur[w][t]
    BY <1>2 DEF SetOrderStatus, HandlesOwn, Busy, InHandler
  <2>. QED
    BY <1>2, <2>1, <2>2 DEF SetOrderStatus, SetStatus, StatusAt, StoreTypeOK
<1>3. ASSUME NEW v \in Workers, DropConsumers(v) \/ Register(v)
      PROVE  v # w /\ UNCHANGED <<task[w], cur[w]>>
  <2>1. v # w
    BY <1>3 DEF DropConsumers, Register, NoTasks, AfterReady
  <2>. QED
    BY <1>3, <2>1 DEF DropConsumers, Register
<1>4. ASSUME NEW v \in Workers, NEW u \in OrderTypes, TaskStep(v, u), v # w \/ u # t
      PROVE  task'[w][t] = task[w][t] /\ cur'[w][t] = cur[w][t]
  BY <1>4, OtherTasks
<1>5. CASE TaskStep(w, t) /\ ~SetOrderStatus(w, t)
  BY <1>1, <1>5 DEF TaskStep, Subscribe, SubscribeFails, ConsumeReturns, Receive,
         CheckStopping, AddActive, SetStatusFails, PublishUpdate,
         CountProcessed, Acknowledge, Reject, NextMessage, At, AfterPublish, AfterReady
<1>6. \/ task[w][t] \in AfterReady /\ cur'[w][t] = cur[w][t]
      \/ TaskStep(w, t)
  <2>1. CASE UNCHANGED <<task, cur>>
    BY <2>1
  <2>2. ASSUME NEW v \in Workers, DropConsumers(v) \/ Register(v)
        PROVE  task[w][t] \in AfterReady /\ cur'[w][t] = cur[w][t]
    BY <1>3, <2>2
  <2>. QED
    BY <1>4, <2>1, <2>2, ConsumerEffect
<1>. QED
  BY <1>1, <1>2, <1>5, <1>6

SettledInv ==
    /\ PlacedIsStored /\ OwnTypes /\ DeliveriesHeld
    /\ AckedIsFree /\ ReadyStays /\ SettledOrderIsReady

(* The acknowledgement follows ready, and nobody writes afterwards.        *)
LEMMA SettledStep ==
    ASSUME Core, AckedIsFree, ReadyStays, SettledOrderIsReady, [Next]_vars
    PROVE  SettledOrderIsReady'
<1>. SUFFICES ASSUME NEW o \in Orders, message'[o] = "acked"
              PROVE  orders'[o].status = "ready"
  BY DEF SettledOrderIsReady
<1>1. CASE message[o] = "acked"
  BY <1>1, StatusKeptUnless DEF AckedIsFree, SettledOrderIsReady
<1>2. CASE message[o] # "acked"
  <2>1. PICK w \in Workers, t \in OrderTypes : Acknowledge(w, t) /\ cur[w][t] = o
    BY <1>2, AckEffect
  <2>. QED
    BY <2>1 DEF Acknowledge, storeVars, ReadyStays, AfterReady
<1>. QED
  BY <1>1, <1>2

(* If no two workers handle the same type of order, an acknowledged order  *)
(* stays ready: every redelivery happens after the handler of the delivery *)
(* before it is gone, over lost connections, crashes and restarts.         *)
THEOREM SettledStaysReady ==
    ASSUME Specialised
    PROVE  Spec => []SettledOrderIsReady
<1>1. Init => SettledInv
  BY DomainAssumption
  DEF Init, BrokerInit, NoTasks, NothingTaken, SettledInv, PlacedIsStored, OwnTypes,
      DeliveriesHeld, AckedIsFree, ReadyStays, AfterReady, SettledOrderIsReady
<1>2. Core /\ SettledInv /\ [Next]_vars => SettledInv'
  BY PlacedIsStoredStep, OwnTypesStep, DeliveriesHeldStep, AckedIsFreeStep,
     ReadyStaysStep, SettledStep
  DEF SettledInv
<1>3. SettledInv => SettledOrderIsReady
  BY DEF SettledInv
<1>. QED
  BY <1>1, <1>2, <1>3, CoreInvariant, PTL DEF Spec

-----------------------------------------------------------------------------
(* Every operation on the tables and queues is a step of OrderLifecycle.   *)

(* Create and PublishCreateOrder place the order.                          *)
LEMMA PlacedMaps ==
    ASSUME Core, PlacedIsStored, NEW o \in Orders, OrderPlaced(o)
    PROVE  Lifecycle!Place(o)
<1>. USE TypeParts DEF Core
<1>1. Stage[o] = "unknown"
  BY StageMeaning DEF OrderPlaced, PlacedIsStored
<1>2. Known' = Known \cup {o} /\ UNCHANGED <<Begun, Cooked>>
  BY CreateMakesKnown DEF OrderPlaced
<1>3. Stage' = [Stage EXCEPT ![o] = "waiting"] /\ UNCHANGED holder
  BY StageMoves, StageNames DEF OrderPlaced, Publish, MessageStates
<1>. QED
  BY <1>1, <1>2, <1>3 DEF Lifecycle!Place

(* A closed channel returns the unacked orders of its worker.              *)
LEMMA RequeuesMaps ==
    ASSUME Core, NEW w \in Workers, Requeues(w)
    PROVE  Lifecycle!Return(w)
<1>. USE TypeParts DEF Core, Requeues
<1>1. UNCHANGED <<Known, Begun, Cooked>>
  BY SameTables
<1>2. \A o \in Orders : o \in Lifecycle!AssignedTo(w) <=> o \in HeldBy(w)
  BY StageMeaning DEF Lifecycle!AssignedTo, HeldBy
<1>3. Stage' = [o \in Orders |-> IF o \in Lifecycle!AssignedTo(w) THEN "waiting" ELSE Stage[o]]
  BY <1>2, StageNames DEF RequeueDeliveries, Stage
<1>4. holder' = [o \in Orders |-> IF o \in Lifecycle!AssignedTo(w) THEN NoWorker ELSE holder[o]]
  BY <1>2 DEF RequeueDeliveries
<1>. QED
  BY <1>1, <1>3, <1>4 DEF Lifecycle!Return

(* A delivery assigns a waiting order.                                     *)
LEMMA DeliverMaps ==
    ASSUME Core, NEW w \in Workers, NEW o \in Orders, Deliver(w, o)
    PROVE  Lifecycle!Assign(o, w)
<1>. USE TypeParts DEF Core, Deliver, PushTo
<1>1. UNCHANGED <<Known, Begun, Cooked>>
  BY SameTables
<1>2. Stage[o] = "waiting"
  BY StageMeaning
<1>3. Stage' = [Stage EXCEPT ![o] = "assigned"]
  BY StageMoves, StageNames DEF MessageStates
<1>. QED
  BY <1>1, <1>2, <1>3 DEF Lifecycle!Assign

(* An Ack serves an order its holder has cooked, or settles nothing.       *)
LEMMA AcknowledgeMaps ==
    ASSUME Core, HandlerInv, NEW w \in Workers, NEW t \in OrderTypes, Acknowledge(w, t)
    PROVE  (\E o \in Orders : Lifecycle!Serve(o)) \/ UNCHANGED Lifecycle!vars
<1>. USE TypeParts DEF Core
<1>1. UNCHANGED <<Known, Begun, Cooked>>
  BY SameTables DEF Acknowledge
<1>2. CASE cur[w][t] \notin HeldBy(w)
  BY <1>1, <1>2, SameQueues DEF Acknowledge, Settle, Lifecycle!vars
<1>3. CASE cur[w][t] \in HeldBy(w)
  <2>1. PICK o \in Orders : o = cur[w][t] /\ message[o] = "unacked" /\ holder[o] = w
    BY <1>3 DEF HeldBy
  <2>2. Stage[o] = "assigned"
    BY <2>1, StageMeaning
  <2>3. Logged(o, w, "ready")
    BY <2>1 DEF Acknowledge, HandlerInv, Entitled, AfterReady
  <2>4. holder[o] \in Cooked[o]
    BY <2>1, <2>3 DEF Cooked, HaveLogged
  <2>5. Stage' = [Stage EXCEPT ![o] = "served"]
    BY <1>3, <2>1, StageMoves, StageNames DEF Acknowledge, Settle, MessageStates
  <2>6. UNCHANGED holder
    BY <1>3, <2>1 DEF Acknowledge, Settle, BrokerTypeOK
  <2>. QED
    BY <1>1, <2>2, <2>4, <2>5, <2>6 DEF Lifecycle!Serve
<1>. QED
  BY <1>2, <1>3

(* A Nack gives an order up, or settles nothing.                           *)
LEMMA RejectMaps ==
    ASSUME Core, NEW w \in Workers, NEW t \in OrderTypes, Reject(w, t)
    PROVE  (\E o \in Orders : Lifecycle!GiveUp(o)) \/ UNCHANGED Lifecycle!vars
<1>. USE TypeParts DEF Core
<1>1. UNCHANGED <<Known, Begun, Cooked>>
  BY SameTables DEF Reject
<1>2. Settle(cur[w][t], w, "dead")
  BY DEF Reject, HandlerErrors, isRecoverableError
<1>3. CASE cur[w][t] \notin HeldBy(w)
  BY <1>1, <1>2, <1>3, SameQueues DEF Settle, Lifecycle!vars
<1>4. CASE cur[w][t] \in HeldBy(w)
  <2>1. PICK o \in Orders : o = cur[w][t] /\ message[o] = "unacked"
    BY <1>4 DEF HeldBy
  <2>2. Stage[o] = "assigned"
    BY <2>1, StageMeaning
  <2>3. Stage' = [Stage EXCEPT ![o] = "given_up"]
    BY <1>2, <1>4, <2>1, StageMoves, StageNames DEF Settle, MessageStates
  <2>4. holder' = [holder EXCEPT ![o] = NoWorker]
    BY <1>2, <1>4, <2>1 DEF Settle
  <2>. QED
    BY <1>1, <2>2, <2>3, <2>4 DEF Lifecycle!GiveUp
<1>. QED
  BY <1>3, <1>4

(* SetStatus begins an order, or finishes one its worker has begun.        *)
LEMMA WritesMaps ==
    ASSUME Core, HandlerInv, NEW w \in Workers, NEW t \in OrderTypes, Writes(w, t)
    PROVE  \E o \in Orders : Lifecycle!Begin(o, w) \/ Lifecycle!Finish(o, w)
<1>. USE TypeParts DEF Core
<1>1. UNCHANGED <<Stage, holder>>
  BY SameQueues DEF Writes
<1>2. PICK o \in Orders : o = cur[w][t]
  BY DEF Writes, HandlesOwn, Busy, InHandler
<1>3. PICK s \in {"cooking", "ready"} : s = StatusAt[task[w][t]]
  BY DEF Writes, StatusAt
<1>4. o \in Known
  BY <1>2 DEF Writes, Known
<1>5. UNCHANGED Known
  BY <1>2, <1>3, <1>4 DEF Writes, SetStatus, Known, Exists, StoreTypeOK
<1>6. \A v \in Orders, x \in Workers, r \in {"cooking", "ready"} :
        Logged(v, x, r)' <=> Logged(v, x, r) \/ (v = o /\ r = s /\ x = w)
  <2>. SUFFICES ASSUME NEW v \in Orders, NEW x \in Workers, NEW r \in {"cooking", "ready"}
                PROVE  Logged(v, x, r)' <=> Logged(v, x, r) \/ (v = o /\ r = s /\ x = w)
    OBVIOUS
  <2>1. [status |-> s, by |-> w] \in LogEntry
    BY DEF LogEntry, OrderStatuses
  <2>2. [status |-> s, by |-> w] = [status |-> r, by |-> x] <=> r = s /\ x = w
    OBVIOUS
  <2>3. statusLog' = [statusLog EXCEPT ![o] = Append(@, [status |-> s, by |-> w])]
    BY <1>2, <1>3 DEF Writes, SetStatus
  <2>4. StoreTypeOK
    OBVIOUS
  <2>5. Logged(v, x, r)' <=>
          Logged(v, x, r) \/ (v = o /\ [status |-> s, by |-> w] = [status |-> r, by |-> x])
    BY <2>1, <2>3, <2>4, LoggedAfterAppend, Zenon
  <2>. QED
    BY <2>2, <2>5
<1>7. CASE s = "cooking"
  <2>1. Begun' = [Begun EXCEPT ![o] = @ \cup {w}] /\ UNCHANGED Cooked
    BY <1>6, <1>7 DEF Begun, Cooked, HaveLogged
  <2>. QED
    BY <1>1, <1>4, <1>5, <2>1 DEF Lifecycle!Begin
<1>8. CASE s = "ready"
  <2>1. Cooked' = [Cooked EXCEPT ![o] = @ \cup {w}] /\ UNCHANGED Begun
    BY <1>6, <1>8 DEF Begun, Cooked, HaveLogged
  <2>2. task[w][t] = "cooking"
    BY <1>3, <1>8 DEF Writes, StatusAt
  <2>3. w \in Begun[o]
    BY <1>2, <2>2 DEF HandlerInv, Entitled, AfterCooking, Begun, HaveLogged
  <2>. QED
    BY <1>1, <1>5, <2>1, <2>3 DEF Lifecycle!Finish
<1>. QED
  BY <1>7, <1>8

-----------------------------------------------------------------------------
(* The kitchen implements the abstract life of an order: competing and     *)
(* stale handlers, redeliveries, lost connections, crashes and unclear     *)
(* commits (Consume, proccessOrder, SetStatus) never serve an order that   *)
(* its holder did not cook, and never revive a settled one.                *)
THEOREM KitchenImplementsLifecycle == Spec => ImplementsLifecycle
<1>1. Init => Lifecycle!Init /\ PlacedIsStored
  BY EmptyMaps DEF Init, BrokerInit, PlacedIsStored
<1>2. Core /\ PlacedIsStored /\ [Next]_vars => PlacedIsStored'
  BY PlacedIsStoredStep
<1>3. Core /\ HandlerInv /\ PlacedIsStored /\ [Next]_vars => [Lifecycle!Next]_(Lifecycle!vars)
  <2>. SUFFICES ASSUME Core, HandlerInv, PlacedIsStored, [Next]_vars
                PROVE  Lifecycle!Next \/ UNCHANGED Lifecycle!vars
    OBVIOUS
  <2>1. CASE UNCHANGED <<storeVars, brokerVars>>
    BY <2>1, SameTables, SameQueues DEF Lifecycle!vars
  <2>2. CASE \E o \in Orders : OrderPlaced(o)
    BY <2>2, PlacedMaps DEF Lifecycle!Next
  <2>3. CASE \E w \in Workers : Requeues(w)
    BY <2>3, RequeuesMaps DEF Lifecycle!Next
  <2>4. CASE \E w \in Workers, o \in Orders : Deliver(w, o)
    BY <2>4, DeliverMaps DEF Lifecycle!Next
  <2>5. CASE \E w \in Workers, t \in OrderTypes : Writes(w, t)
    BY <2>5, WritesMaps DEF Lifecycle!Next
  <2>6. CASE \E w \in Workers, t \in OrderTypes : Acknowledge(w, t)
    BY <2>6, AcknowledgeMaps DEF Lifecycle!Next
  <2>7. CASE \E w \in Workers, t \in OrderTypes : Reject(w, t)
    BY <2>7, RejectMaps DEF Lifecycle!Next
  <2>. QED
    BY <2>1, <2>2, <2>3, <2>4, <2>5, <2>6, <2>7, StepEffect
<1>. QED
  BY <1>1, <1>2, <1>3, HandlerInvariant, PTL DEF Spec, ImplementsLifecycle, Lifecycle!Spec
=============================================================================
