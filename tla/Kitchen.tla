------------------------------- MODULE Kitchen ------------------------------
(***************************************************************************)
(* The kitchen-worker service.  A worker is one operating-system process   *)
(* per name, made of three kinds of goroutine:                             *)
(*                                                                         *)
(*   "main"   KitchenService.Start: waits for a signal or for errCh, then  *)
(*            reconnects or closes the service;                            *)
(*   "work"   KitchenWorker.Work: registers the worker, starts one         *)
(*            consumer per order type, waits for them, stops the worker;   *)
(*   task t   OrderConsumer.Consume of the queue of type t, which calls    *)
(*            processOrderWrapper for one message at a time.               *)
(*                                                                         *)
(* They share the fields of KitchenWorker (mu, isWorking, stopping, the    *)
(* cancel function), the channel errCh and one RabbitMQ connection.  A     *)
(* step is the code between two points where another goroutine, the        *)
(* broker or the database can intervene.                                   *)
(***************************************************************************)
EXTENDS OrderStore, OrderBroker, WorkerStore

CONSTANTS
    Handles,           \* the order types each worker was started with
    Prefetch,          \* --prefetch, the limit of unsettled deliveries
    ReconnectAttempt,  \* KITCHEN_RECONNECT_ATTEMPT
    Limit              \* how often each kind of disturbance may happen

Disturbances == {"start", "signal", "crash", "conn", "db", "publish"}

ASSUME KitchenAssumption ==
    /\ Handles \in [Workers -> SUBSET OrderTypes]
    /\ Prefetch \in Nat
    /\ ReconnectAttempt \in Nat
    /\ Limit \in [Disturbances -> Nat]

VARIABLES
    pc,      \* where the goroutines main and work of a worker are
    task,    \* where the consumer goroutine of a worker and a type is
    cur,     \* the order that goroutine handles
    buf,     \* deliveries that wait in the client library for the goroutine
    sub,     \* order types whose deliveries arrive: basic.consume is active
    proc,    \* the other state of a worker's process
    notes,   \* status updates published to notifications_fanout
    spent    \* disturbances so far

taskVars == <<task, cur, buf, sub>>
vars == <<orders, statusLog, message, holder, workers, pc, task, cur, buf, sub,
          proc, notes, spent>>

Threads == {"main", "work"}

(* "stop_..." are the places inside KitchenWorker.Stop.                    *)
ThreadPc == {"off", "select", "reconnect", "register", "wait", "stop_lock", "stop_wait",
             "stop_cancel", "stop_mark", "send", "gone", "close", "leave"}

(* What processOrderWrapper can return besides nil; a consumer that has    *)
(* one of them to settle is at the place of that name.                     *)
HandlerErrors == {"ErrStopping", "ErrSetStatus"}

(* The places inside proccessOrder: between Add and Done of activeOrders.  *)
InHandler == {"set_cooking", "pub_cooking", "cooking", "pub_ready", "incr"}

TaskPc == {"none", "begin", "loop", "check", "add", "ack", "done"}
              \cup InHandler \cup HandlerErrors

(* Places at which the consumer holds a message it took from msgs.         *)
Busy == {"check", "add", "ack"} \cup InHandler \cup HandlerErrors

Process ==
    [exit: {"idle", "running", "ok", "error", "panic", "killed"}, \* how it ended
     mu: Threads \cup {"free"},      \* KitchenWorker.mu
     isWorking: BOOLEAN,
     stopping: BOOLEAN,              \* the channel stopping is closed
     cancelled: BOOLEAN,             \* Work's context is cancelled
     expired: BOOLEAN,               \* the 10 s context of close is over
     connUp: BOOLEAN,                \* the connection of the order consumer
     errCh: {<< >>, <<"stopped">>, <<"failure">>},
     signal: BOOLEAN,                \* shutdownCh holds a signal
     after: {"none", "ok", "error", "resume"},  \* what follows close
     orphan: BOOLEAN,                \* Work reports on a channel nobody reads
     attempts: Nat]                  \* failed attempts of reconnect

TypeOK ==
    /\ StoreTypeOK
    /\ BrokerTypeOK
    /\ WorkerStoreTypeOK
    /\ pc \in [Workers -> [Threads -> ThreadPc]]
    /\ task \in [Workers -> [OrderTypes -> TaskPc]]
    /\ cur \in [Workers -> [OrderTypes -> Orders \cup {NoOrder}]]
    /\ buf \in [Workers -> SUBSET Orders]
    /\ sub \in [Workers -> SUBSET OrderTypes]
    /\ proc \in [Workers -> Process]
    /\ notes \subseteq Orders \X {"cooking", "ready"} \X Workers
    /\ spent \in [Disturbances -> Nat]

NewProcess ==
    [exit |-> "running", mu |-> "free", isWorking |-> FALSE, stopping |-> FALSE,
     cancelled |-> FALSE, expired |-> FALSE, connUp |-> TRUE, errCh |-> << >>,
     signal |-> FALSE, after |-> "none", orphan |-> FALSE, attempts |-> 0]

Ended(how) == [NewProcess EXCEPT !.exit = how, !.connUp = FALSE]

NoThreads == [g \in Threads |-> "off"]
StartedThreads == [g \in Threads |-> IF g = "main" THEN "select" ELSE "register"]
NoTasks == [t \in OrderTypes |-> "none"]
NothingTaken == [t \in OrderTypes |-> NoOrder]

Init ==
    /\ StoreInit
    /\ BrokerInit
    /\ WorkerStoreInit
    /\ pc = [w \in Workers |-> NoThreads]
    /\ task = [w \in Workers |-> NoTasks]
    /\ cur = [w \in Workers |-> NothingTaken]
    /\ buf = [w \in Workers |-> {}]
    /\ sub = [w \in Workers |-> {}]
    /\ proc = [w \in Workers |-> Ended("idle")]
    /\ notes = {}
    /\ spent = [d \in Disturbances |-> 0]

Running(w) == proc[w].exit = "running"

(* activeOrders: the handlers that Stop waits for.                         *)
ActiveOrders(w) == {t \in OrderTypes : task[w][t] \in InHandler}

Disturb(d) ==
    /\ spent[d] < Limit[d]
    /\ spent' = [spent EXCEPT ![d] = @ + 1]

Goto(w, g, place) == pc' = [pc EXCEPT ![w][g] = place]

(* The consumers of a worker and their connection are gone.                *)
DropConsumers(w) ==
    /\ task' = [task EXCEPT ![w] = NoTasks]
    /\ cur' = [cur EXCEPT ![w] = NothingTaken]
    /\ buf' = [buf EXCEPT ![w] = {}]
    /\ sub' = [sub EXCEPT ![w] = {}]
    /\ RequeueDeliveries(w)

(* The process is gone.                                                    *)
Die(w, how) ==
    /\ pc' = [pc EXCEPT ![w] = NoThreads]
    /\ proc' = [proc EXCEPT ![w] = Ended(how)]
    /\ DropConsumers(w)

-----------------------------------------------------------------------------
(* The surroundings of the workers.                                        *)

(* The order service stored an order and published it (OrderService).      *)
OrderPlaced(o) ==
    /\ ~Exists(o)
    /\ Create(o)
    /\ Publish(o)
    /\ UNCHANGED <<workers, pc, taskVars, proc, notes, spent>>

(* NewKitchen succeeds and Start runs: Work starts in its own goroutine.   *)
StartWorker(w) ==
    /\ ~Running(w)
    /\ Disturb("start")
    /\ proc' = [proc EXCEPT ![w] = NewProcess]
    /\ pc' = [pc EXCEPT ![w] = StartedThreads]
    /\ UNCHANGED <<storeVars, brokerVars, workers, taskVars, notes>>

(* SIGINT or SIGTERM; shutdownCh holds one.                                *)
Signal(w) ==
    /\ Running(w)
    /\ ~proc[w].signal
    /\ Disturb("signal")
    /\ proc' = [proc EXCEPT ![w].signal = TRUE]
    /\ UNCHANGED <<storeVars, brokerVars, workers, pc, taskVars, notes>>

(* The process is killed.                                                  *)
Crash(w) ==
    /\ Running(w)
    /\ Disturb("crash")
    /\ Die(w, "killed")
    /\ UNCHANGED <<storeVars, workers, notes>>

(* The consumer's connection breaks: the channel msgs of every consumer is *)
(* closed, what waited in it is dropped and the broker requeues it all.  A *)
(* handler that runs goes on and does not notice.                          *)
ConnLost(w) ==
    /\ Running(w)
    /\ proc[w].connUp
    /\ Disturb("conn")
    /\ proc' = [proc EXCEPT ![w].connUp = FALSE]
    /\ buf' = [buf EXCEPT ![w] = {}]
    /\ sub' = [sub EXCEPT ![w] = {}]
    /\ RequeueDeliveries(w)
    /\ UNCHANGED <<storeVars, workers, pc, task, cur, notes>>

(* No heartbeat for two intervals.  heartbeatLoop updates last_seen every  *)
(* interval while the process runs, so this happens to ended processes.    *)
Lapse(w) ==
    /\ ~Running(w)
    /\ LastSeenLapses(w)
    /\ UNCHANGED <<storeVars, brokerVars, pc, taskVars, proc, notes, spent>>

(* The broker pushes a message to the consumer of its queue.               *)
Deliver(w, o) ==
    /\ TypeOf[o] \in sub[w]
    /\ Prefetch = 0 \/ Cardinality(InFlight(w, TypeOf[o])) < Prefetch
    /\ PushTo(o, w)
    /\ buf' = [buf EXCEPT ![w] = @ \cup {o}]
    /\ UNCHANGED <<storeVars, workers, pc, task, cur, sub, proc, notes, spent>>

-----------------------------------------------------------------------------
(* KitchenWorker.Work and the goroutine that runs it.                      *)

(* errCh after a send of m that finds it empty.                            *)
Report(w, m) == IF proc[w].orphan THEN proc[w].errCh ELSE <<m>>

(* markOnline, then one consumer goroutine per handled type.               *)
Register(w) ==
    /\ pc[w]["work"] = "register"
    /\ proc[w].mu = "free"
    /\ ~proc[w].isWorking
    /\ ~RegistrationRefused(w)
    /\ MarkOnline(w)
    /\ proc' = [proc EXCEPT ![w].isWorking = TRUE]
    /\ task' = [task EXCEPT ![w] =
                  [t \in OrderTypes |-> IF t \in Handles[w] THEN "begin" ELSE "none"]]
    /\ Goto(w, "work", "wait")
    /\ UNCHANGED <<storeVars, brokerVars, cur, buf, sub, notes, spent>>

(* markOnline fails: another registration is alive, or the database        *)
(* answers with an error, which does not tell whether the row was written. *)
RegisterFails(w) ==
    /\ pc[w]["work"] = "register"
    /\ proc[w].mu = "free"
    /\ \/ /\ proc[w].isWorking \/ RegistrationRefused(w)
          /\ UNCHANGED <<workers, spent>>
       \/ /\ Disturb("db")
          /\ \/ MarkOnline(w)
             \/ UNCHANGED workers
    /\ proc' = [proc EXCEPT ![w].errCh = Report(w, "failure")]
    /\ Goto(w, "work", "stop_lock")
    /\ UNCHANGED <<storeVars, brokerVars, taskVars, notes>>

(* wg.Wait returns and the deferred Stop begins.                           *)
ConsumersDone(w) ==
    /\ pc[w]["work"] = "wait"
    /\ \A t \in Handles[w] : task[w][t] = "done"
    /\ Goto(w, "work", "stop_lock")
    /\ UNCHANGED <<storeVars, brokerVars, workers, taskVars, proc, notes, spent>>

(* errCh <- ErrWorkerStopped, which waits for room in errCh.               *)
ReportStopped(w) ==
    /\ pc[w]["work"] = "send"
    /\ proc[w].orphan \/ proc[w].errCh = << >>
    /\ proc' = [proc EXCEPT ![w].errCh = Report(w, "stopped")]
    /\ Goto(w, "work", "gone")
    /\ UNCHANGED <<storeVars, brokerVars, workers, taskVars, notes, spent>>

-----------------------------------------------------------------------------
(* KitchenWorker.Stop, called by close in main and deferred in work.       *)

AfterStop(g) == IF g = "main" THEN "close" ELSE "send"

(* The context Stop was called with.  Work's deferred call passes its own  *)
(* ctx, which Stop itself cancels.                                         *)
ContextOver(w, g) == IF g = "main" THEN proc[w].expired ELSE proc[w].cancelled

(* The worker is not working.                                              *)
StopReturns(w, g) ==
    /\ pc[w][g] = "stop_lock"
    /\ proc[w].mu = "free"
    /\ ~proc[w].isWorking
    /\ Goto(w, g, AfterStop(g))
    /\ UNCHANGED <<storeVars, brokerVars, workers, taskVars, proc, notes, spent>>

(* close(s.stopping): no order is admitted from here on.                   *)
StopBegins(w, g) ==
    /\ pc[w][g] = "stop_lock"
    /\ proc[w].mu = "free"
    /\ proc[w].isWorking
    /\ ~proc[w].stopping
    /\ proc' = [proc EXCEPT ![w].mu = g, ![w].stopping = TRUE]
    /\ Goto(w, g, "stop_wait")
    /\ UNCHANGED <<storeVars, brokerVars, workers, taskVars, notes, spent>>

(* close(s.stopping) of a closed channel: the panic ends the process.      *)
StopPanics(w, g) ==
    /\ pc[w][g] = "stop_lock"
    /\ proc[w].mu = "free"
    /\ proc[w].isWorking
    /\ proc[w].stopping
    /\ Die(w, "panic")
    /\ UNCHANGED <<storeVars, workers, notes, spent>>

(* The slip of marking the worker offline before its context is cancelled. *)
StopWaitedNoCancel(w, g) ==
    /\ pc[w][g] = "stop_wait"
    /\ ActiveOrders(w) = {}
    /\ Goto(w, g, "stop_mark")
    /\ UNCHANGED <<storeVars, brokerVars, workers, taskVars, proc, notes, spent>>

(* activeOrders.Wait returns.                                              *)
StopWaited(w, g) ==
    /\ pc[w][g] = "stop_wait"
    /\ ActiveOrders(w) = {}
    /\ Goto(w, g, "stop_cancel")
    /\ UNCHANGED <<storeVars, brokerVars, workers, taskVars, proc, notes, spent>>

StopCancels(w, g) ==
    /\ pc[w][g] = "stop_cancel"
    /\ proc' = [proc EXCEPT ![w].cancelled = TRUE]
    /\ Goto(w, g, "stop_mark")
    /\ UNCHANGED <<storeVars, brokerVars, workers, taskVars, notes, spent>>

StopMarksOffline(w, g) ==
    /\ pc[w][g] = "stop_mark"
    /\ ~ContextOver(w, g)
    /\ MarkOffline(w)
    /\ proc' = [proc EXCEPT ![w].isWorking = FALSE, ![w].mu = "free"]
    /\ Goto(w, g, AfterStop(g))
    /\ UNCHANGED <<storeVars, brokerVars, taskVars, notes, spent>>

(* The slip of an early return that keeps the mutex.                       *)
StopMarkFailsLocked(w, g) ==
    /\ pc[w][g] = "stop_mark"
    /\ ContextOver(w, g)
    /\ Goto(w, g, AfterStop(g))
    /\ UNCHANGED <<storeVars, brokerVars, workers, taskVars, proc, notes, spent>>

(* MarkOffline fails and Stop returns early: isWorking stays TRUE.         *)
StopMarkFails(w, g) ==
    /\ pc[w][g] = "stop_mark"
    /\ \/ ContextOver(w, g) /\ UNCHANGED <<workers, spent>>
       \/ /\ ~ContextOver(w, g)
          /\ Disturb("db")
          /\ \/ MarkOffline(w)
             \/ UNCHANGED workers
    /\ proc' = [proc EXCEPT ![w].mu = "free"]
    /\ Goto(w, g, AfterStop(g))
    /\ UNCHANGED <<storeVars, brokerVars, taskVars, notes>>

-----------------------------------------------------------------------------
(* KitchenService.Start, close and reconnect.                              *)

(* The slip of a close that forgets what follows it.                       *)
BeginCloseForgetful(w, why, p) ==
    /\ proc' = [proc EXCEPT ![w] = [p EXCEPT !.expired = FALSE]]
    /\ Goto(w, "main", "stop_lock")

(* Start returns, or reconnect replaces the service: close begins with     *)
(* Stop under a fresh context of 10 seconds.                               *)
BeginClose(w, why, p) ==
    /\ proc' = [proc EXCEPT ![w] = [p EXCEPT !.after = why, !.expired = FALSE]]
    /\ Goto(w, "main", "stop_lock")

MainSignalled(w) ==
    /\ pc[w]["main"] = "select"
    /\ proc[w].signal
    /\ BeginClose(w, "ok", [proc[w] EXCEPT !.signal = FALSE])
    /\ UNCHANGED <<storeVars, brokerVars, workers, taskVars, notes, spent>>

MainReadsFailure(w) ==
    /\ pc[w]["main"] = "select"
    /\ proc[w].errCh = <<"failure">>
    /\ BeginClose(w, "error", [proc[w] EXCEPT !.errCh = << >>])
    /\ UNCHANGED <<storeVars, brokerVars, workers, taskVars, notes, spent>>

(* ErrWorkerStopped leads to reconnect, which without attempts returns nil.*)
MainReadsStopped(w) ==
    /\ pc[w]["main"] = "select"
    /\ proc[w].errCh = <<"stopped">>
    /\ proc' = [proc EXCEPT ![w].errCh = << >>, ![w].attempts = 0]
    /\ Goto(w, "main", IF ReconnectAttempt = 0 THEN "select" ELSE "reconnect")
    /\ UNCHANGED <<storeVars, brokerVars, workers, taskVars, notes, spent>>

(* NewKitchen succeeds; the old service is closed before it is replaced.   *)
ReconnectSucceeds(w) ==
    /\ pc[w]["main"] = "reconnect"
    /\ BeginClose(w, "resume", proc[w])
    /\ UNCHANGED <<storeVars, brokerVars, workers, taskVars, notes, spent>>

(* NewKitchen fails; a signal or the last attempt ends the service.        *)
ReconnectFails(w) ==
    /\ pc[w]["main"] = "reconnect"
    /\ LET failed == [proc[w] EXCEPT !.attempts = @ + 1, !.signal = FALSE] IN
       IF proc[w].signal \/ failed.attempts = ReconnectAttempt
       THEN BeginClose(w, "error", failed)
       ELSE /\ proc' = [proc EXCEPT ![w] = failed]
            /\ UNCHANGED pc
    /\ UNCHANGED <<storeVars, brokerVars, workers, taskVars, notes, spent>>

(* The ten seconds of close pass while Stop waits.                         *)
CloseTimeout(w) ==
    /\ pc[w]["main"] \in {"stop_lock", "stop_wait", "stop_cancel", "stop_mark"}
    /\ ~proc[w].expired
    /\ proc' = [proc EXCEPT ![w].expired = TRUE]
    /\ UNCHANGED <<storeVars, brokerVars, workers, pc, taskVars, notes, spent>>

(* consumer.Close and producer.Close: unsettled deliveries are requeued.   *)
CloseConnections(w) ==
    /\ pc[w]["main"] = "close"
    /\ proc' = [proc EXCEPT ![w].connUp = FALSE]
    /\ buf' = [buf EXCEPT ![w] = {}]
    /\ sub' = [sub EXCEPT ![w] = {}]
    /\ RequeueDeliveries(w)
    /\ Goto(w, "main", "leave")
    /\ UNCHANGED <<storeVars, workers, task, cur, notes, spent>>

(* close is over: the process exits, or the new service takes over and its *)
(* Work reports on a channel that nobody reads.                            *)
Leave(w) ==
    /\ pc[w]["main"] = "leave"
    /\ IF proc[w].after = "resume"
       THEN /\ proc' = [proc EXCEPT ![w] =
                          [NewProcess EXCEPT !.signal = proc[w].signal, !.orphan = TRUE]]
            /\ pc' = [pc EXCEPT ![w] = StartedThreads]
            /\ DropConsumers(w)
       ELSE Die(w, proc[w].after)
    /\ UNCHANGED <<storeVars, workers, notes, spent>>

-----------------------------------------------------------------------------
(* OrderConsumer.Consume of one queue, and the handler it calls.           *)

At(w, t, place) == task' = [task EXCEPT ![w][t] = place]

(* basic.qos and basic.consume, on a new connection if the old one is lost.*)
Subscribe(w, t) ==
    /\ task[w][t] = "begin"
    /\ proc' = [proc EXCEPT ![w].connUp = TRUE]
    /\ sub' = [sub EXCEPT ![w] = @ \cup {t}]
    /\ At(w, t, "loop")
    /\ UNCHANGED <<storeVars, brokerVars, workers, pc, cur, buf, notes, spent>>

(* No attempt to reconnect succeeds (retry hides it, basic.qos then fails).*)
(* The error is dropped if errCh is full.                                  *)
SubscribeFails(w, t) ==
    /\ task[w][t] = "begin"
    /\ ~proc[w].connUp
    /\ proc' = [proc EXCEPT ![w].errCh = IF @ = << >> THEN Report(w, "failure") ELSE @]
    /\ At(w, t, "done")
    /\ UNCHANGED <<storeVars, brokerVars, workers, pc, cur, buf, sub, notes, spent>>

(* The context is cancelled, or msgs is closed.  The broker is not told:   *)
(* deliveries keep arriving until the connection is closed.                *)
ConsumeReturns(w, t) ==
    /\ task[w][t] = "loop"
    /\ proc[w].cancelled \/ t \notin sub[w]
    /\ At(w, t, "done")
    /\ UNCHANGED <<storeVars, brokerVars, workers, pc, cur, buf, sub, proc, notes, spent>>

Receive(w, t, o) ==
    /\ task[w][t] = "loop"
    /\ o \in buf[w]
    /\ TypeOf[o] = t
    /\ buf' = [buf EXCEPT ![w] = @ \ {o}]
    /\ cur' = [cur EXCEPT ![w][t] = o]
    /\ At(w, t, "check")
    /\ UNCHANGED <<storeVars, brokerVars, workers, pc, sub, proc, notes, spent>>

(* The non-blocking read of stopping in processOrderWrapper.               *)
CheckStopping(w, t) ==
    /\ task[w][t] = "check"
    /\ At(w, t, IF proc[w].stopping THEN "ErrStopping" ELSE "add")
    /\ UNCHANGED <<storeVars, brokerVars, workers, pc, cur, buf, sub, proc, notes, spent>>

(* activeOrders.Add(1).                                                    *)
AddActive(w, t) ==
    /\ task[w][t] = "add"
    /\ At(w, t, "set_cooking")
    /\ UNCHANGED <<storeVars, brokerVars, workers, pc, cur, buf, sub, proc, notes, spent>>

(* The status a handler is about to write, and the place it goes to next.  *)
StatusAt == [set_cooking |-> "cooking", cooking |-> "ready"]
AfterStatus == [set_cooking |-> "pub_cooking", cooking |-> "pub_ready"]

(* SetStatus commits.  At "cooking" the order has been cooked, or ctx is   *)
(* done and the handler goes on all the same.                              *)
SetOrderStatus(w, t) ==
    /\ task[w][t] \in {"set_cooking", "cooking"}
    /\ ~proc[w].cancelled
    /\ Exists(cur[w][t])
    /\ SetStatus(cur[w][t], w, StatusAt[task[w][t]])
    /\ At(w, t, AfterStatus[task[w][t]])
    /\ UNCHANGED <<brokerVars, workers, pc, cur, buf, sub, proc, notes, spent>>

(* Slips: acknowledge an order whose status could not be written; log the  *)
(* error and go on, as is done for a failed publish.                       *)
StatusFailsAcked(w, t) ==
    /\ task[w][t] \in {"set_cooking", "cooking"}
    /\ Disturb("db")
    /\ At(w, t, "ack")
    /\ UNCHANGED <<storeVars, brokerVars, workers, pc, cur, buf, sub, proc, notes>>

StatusFailsIgnored(w, t) ==
    /\ task[w][t] \in {"set_cooking", "cooking"}
    /\ Disturb("db")
    /\ At(w, t, AfterStatus[task[w][t]])
    /\ UNCHANGED <<storeVars, brokerVars, workers, pc, cur, buf, sub, proc, notes>>

(* SetStatus returns an error: the context is cancelled, the order has no  *)
(* row, or the database fails, before or after the commit took effect.     *)
SetStatusFails(w, t) ==
    /\ task[w][t] \in {"set_cooking", "cooking"}
    /\ \/ /\ proc[w].cancelled \/ ~Exists(cur[w][t])
          /\ UNCHANGED <<storeVars, spent>>
       \/ /\ ~proc[w].cancelled /\ Exists(cur[w][t])
          /\ Disturb("db")
          /\ \/ SetStatus(cur[w][t], w, StatusAt[task[w][t]])
             \/ UNCHANGED storeVars
    /\ At(w, t, "ErrSetStatus")
    /\ UNCHANGED <<brokerVars, workers, pc, cur, buf, sub, proc, notes>>

NotedAt == [pub_cooking |-> "cooking", pub_ready |-> "ready"]
AfterPublish == [pub_cooking |-> "cooking", pub_ready |-> "incr"]

(* producer.StatusUpdate; a failure is only logged.                        *)
PublishUpdate(w, t) ==
    /\ task[w][t] \in {"pub_cooking", "pub_ready"}
    /\ \/ /\ notes' = notes \cup {<<cur[w][t], NotedAt[task[w][t]], w>>}
          /\ UNCHANGED spent
       \/ /\ Disturb("publish")
          /\ UNCHANGED notes
    /\ At(w, t, AfterPublish[task[w][t]])
    /\ UNCHANGED <<storeVars, brokerVars, workers, pc, cur, buf, sub, proc>>

(* IncrOrdersProcessed; a failure is only logged.  The handler returns nil *)
(* and activeOrders.Done runs, before the message is acknowledged.         *)
CountProcessed(w, t) ==
    /\ task[w][t] = "incr"
    /\ \/ /\ ~proc[w].cancelled
          /\ IncrOrdersProcessed(w)
          /\ UNCHANGED spent
       \/ /\ proc[w].cancelled
          /\ UNCHANGED <<workers, spent>>
       \/ /\ ~proc[w].cancelled
          /\ Disturb("db")
          /\ UNCHANGED workers
    /\ At(w, t, "ack")
    /\ UNCHANGED <<storeVars, brokerVars, pc, cur, buf, sub, proc, notes>>

NextMessage(w, t) ==
    /\ cur' = [cur EXCEPT ![w][t] = NoOrder]
    /\ At(w, t, "loop")

Acknowledge(w, t) ==
    /\ task[w][t] = "ack"
    /\ Settle(cur[w][t], w, "acked")
    /\ NextMessage(w, t)
    /\ UNCHANGED <<storeVars, workers, pc, buf, sub, proc, notes, spent>>

(* Only a nil order, which the consumer never passes on, is requeued.      *)
isRecoverableError(err) == err = "ErrNilOrder"

(* The slip of a handler error after which the loop just continues.        *)
RejectForgotten(w, t) ==
    /\ task[w][t] \in HandlerErrors
    /\ NextMessage(w, t)
    /\ UNCHANGED <<storeVars, brokerVars, workers, pc, buf, sub, proc, notes, spent>>

(* basic.nack, with requeue for a recoverable error only.                  *)
Reject(w, t) ==
    /\ task[w][t] \in HandlerErrors
    /\ Settle(cur[w][t], w, IF isRecoverableError(task[w][t]) THEN "ready" ELSE "dead")
    /\ NextMessage(w, t)
    /\ UNCHANGED <<storeVars, workers, pc, buf, sub, proc, notes, spent>>

-----------------------------------------------------------------------------
TaskStep(w, t) ==
    \/ Subscribe(w, t)
    \/ SubscribeFails(w, t)
    \/ ConsumeReturns(w, t)
    \/ \E o \in Orders : Receive(w, t, o)
    \/ CheckStopping(w, t)
    \/ AddActive(w, t)
    \/ SetOrderStatus(w, t)
    \/ SetStatusFails(w, t)
    \/ PublishUpdate(w, t)
    \/ CountProcessed(w, t)
    \/ Acknowledge(w, t)
    \/ Reject(w, t)

StopStep(w, g) ==
    \/ StopReturns(w, g)
    \/ StopBegins(w, g)
    \/ StopPanics(w, g)
    \/ StopWaited(w, g)
    \/ StopCancels(w, g)
    \/ StopMarksOffline(w, g)
    \/ StopMarkFails(w, g)

WorkStep(w) ==
    \/ Register(w)
    \/ RegisterFails(w)
    \/ ConsumersDone(w)
    \/ ReportStopped(w)
    \/ StopStep(w, "work")

MainStep(w) ==
    \/ MainSignalled(w)
    \/ MainReadsFailure(w)
    \/ MainReadsStopped(w)
    \/ ReconnectSucceeds(w)
    \/ ReconnectFails(w)
    \/ CloseConnections(w)
    \/ Leave(w)
    \/ StopStep(w, "main")

Environment ==
    \/ \E o \in Orders : OrderPlaced(o)
    \/ \E w \in Workers :
        \/ StartWorker(w)
        \/ Signal(w)
        \/ Crash(w)
        \/ ConnLost(w)
        \/ Lapse(w)
        \/ CloseTimeout(w)
        \/ \E o \in Orders : Deliver(w, o)

Next ==
    \/ Environment
    \/ \E w \in Workers :
        \/ MainStep(w)
        \/ WorkStep(w)
        \/ \E t \in OrderTypes : TaskStep(w, t)

Spec == Init /\ [][Next]_vars

(* A goroutine that can run does run: the Go scheduler starves none, the   *)
(* mutex and the channels are fair, cooking takes 8 to 12 seconds.  Nothing*)
(* is assumed of the surroundings.                                         *)
Fairness ==
    \A w \in Workers :
        /\ WF_vars(MainStep(w))
        /\ WF_vars(WorkStep(w))
        /\ \A t \in OrderTypes : WF_vars(TaskStep(w, t))

FairSpec == Spec /\ Fairness

-----------------------------------------------------------------------------
(* Properties.                                                             *)

(* A message the broker waits for is in the hands of a consumer that is    *)
(* connected: either in its buffer or with the goroutine that handles its  *)
(* type.  Connection loss, crashes, panics, close and reconnect (the calls *)
(* of consumer.Close and the ends of Consume) leave no message stranded.   *)
NoStrandedMessage ==
    \A o \in Orders : message[o] = "unacked" =>
        /\ holder[o] \in Workers
        /\ TypeOf[o] \in sub[holder[o]]
        /\ o \in buf[holder[o]] \/ cur[holder[o]][TypeOf[o]] = o

(* An acknowledged order was completed, and the worker that acknowledged   *)
(* it is one that logged it as ready: Consume acknowledges only what its   *)
(* own handler finished, whatever stale handlers of other workers did.     *)
AckedIsCompleted ==
    \A o \in Orders : message[o] = "acked" =>
        /\ orders[o].completed
        /\ Logged(o, holder[o], "ready")

(* In the status log no worker makes an order ready that it had not begun  *)
(* to cook before, over any redelivery.                                    *)
ReadyAfterCooking ==
    \A o \in Orders : \A i \in DOMAIN statusLog[o] :
        statusLog[o][i].status = "ready" =>
            \E j \in 1 .. i - 1 :
                statusLog[o][j] = [status |-> "cooking", by |-> statusLog[o][i].by]

(* Subscribers of notifications_fanout are only told of status changes     *)
(* that proccessOrder has committed.                                       *)
NotifiedIsLogged == \A n \in notes : Logged(n[1], n[3], n[2])

ReadyEntries(w) ==
    {e \in UNION {{o} \X DOMAIN statusLog[o] : o \in Orders} :
        statusLog[e[1]][e[2]] = [status |-> "ready", by |-> w]}

(* orders_processed counts no order that the worker did not finish, over   *)
(* redeliveries, restarts and failed increments.                           *)
NeverOvercounted ==
    \A w \in Workers : workers[w].processed <= Cardinality(ReadyEntries(w))

(* While a worker's process consumes, the table workers shows it offline   *)
(* only after its context was cancelled: Stop cancels before it marks.     *)
OfflineIsCancelled ==
    \A w \in Workers, t \in OrderTypes :
        task[w][t] \notin {"none", "done"} /\ workers[w].status = "offline"
            => proc[w].cancelled

(* A message leaves the broker only through the consumer it was last       *)
(* delivered to, while that consumer handles it: a handler that lost its   *)
(* connection settles nothing.                                             *)
OnlyHolderSettles ==
    [][\A o \in Orders :
          message'[o] \in {"acked", "dead"} /\ message[o] # message'[o] =>
              /\ message[o] = "unacked"
              /\ cur[holder[o]][TypeOf[o]] = o
              /\ task[holder[o]][TypeOf[o]] \in HandlerErrors \cup {"ack"}]_vars

(* Where no two workers handle the same type, an acknowledged order stays  *)
(* ready: every redelivery follows the end of the handler before it.       *)
SettledOrderIsReady ==
    \A o \in Orders : message[o] = "acked" => orders[o].status = "ready"

(* A process that got SIGTERM ends: no cycle of waits between main, work   *)
(* and the consumers (mu, errCh, activeOrders, wg) keeps it.               *)
SignalledExits ==
    \A w \in Workers : (Running(w) /\ proc[w].signal) ~> ~Running(w)

(* A delivered message is settled or goes back to its queue: none waits    *)
(* forever for a consumer that has stopped reading.                        *)
DeliveryResolves ==
    \A o \in Orders : message[o] = "unacked" ~> message[o] # "unacked"

-----------------------------------------------------------------------------
(* The parts of the inductive invariant behind the safety properties.      *)

(* A consumer goroutine has a message of its own type exactly when it is   *)
(* at a place where it handles one.                                        *)
HandlesOwn ==
    \A w \in Workers, t \in OrderTypes :
        IF task[w][t] \in Busy
        THEN cur[w][t] \in Orders /\ TypeOf[cur[w][t]] = t
        ELSE cur[w][t] = NoOrder

(* No consumer runs in a process that has ended or has yet to register.    *)
NoConsumersWhenIdle ==
    \A w \in Workers :
        ~Running(w) \/ pc[w]["work"] = "register" => task[w] = NoTasks

(* The goroutines main and work of a process that has ended are gone.      *)
EndedHasNoThreads ==
    \A w \in Workers, g \in Threads : ~Running(w) => pc[w][g] = "off"

(* The places of main inside close, and why close was called.              *)
Closing == {"stop_lock", "stop_wait", "stop_cancel", "stop_mark", "close", "leave"}
ClosingHasReason ==
    \A w \in Workers : pc[w]["main"] \in Closing => proc[w].after # "none"

(* What a handler has committed by the time it is at a given place.        *)
CookingIsLogged ==
    \A w \in Workers, t \in OrderTypes :
        task[w][t] \in {"pub_cooking", "cooking", "pub_ready", "incr", "ack"} =>
            Logged(cur[w][t], w, "cooking")
ReadyIsLogged ==
    \A w \in Workers, t \in OrderTypes :
        task[w][t] \in {"pub_ready", "incr", "ack"} =>
            Logged(cur[w][t], w, "ready") /\ orders[cur[w][t]].completed

(* Stop marks the worker offline only after it cancelled its context.      *)
MarkedAfterCancel ==
    \A w \in Workers, g \in Threads : pc[w][g] = "stop_mark" => proc[w].cancelled

(* All of them together: no action leads out of IndInv and TypeOK.         *)
IndInv ==
    /\ HandlesOwn
    /\ NoConsumersWhenIdle
    /\ EndedHasNoThreads
    /\ ClosingHasReason
    /\ CookingIsLogged
    /\ ReadyIsLogged
    /\ MarkedAfterCancel

-----------------------------------------------------------------------------
(* What the documentation says and the code does not do.                   *)

(* TASK.md: the program must not crash (any panics).  Stop closes the      *)
(* channel stopping, and a second Stop closes it again if MarkOffline      *)
(* failed in the first.                                                    *)
NoPanic == \A w \in Workers : proc[w].exit # "panic"

(* The comment on isRecoverableError: a processing step that fails is      *)
(* answered with requeue, and only invalid messages, of which there are    *)
(* none here, go to the dead-letter queue.                                 *)
FailureIsRequeued == \A o \in Orders : message[o] # "dead"

(* TASK.md, idempotency: a redelivered order that is already cooking is    *)
(* not set to cooking, nor logged, a second time.                          *)
NoRedundantCooking ==
    \A o \in Orders : \A i, j \in DOMAIN statusLog[o] :
        j = i + 1 => ~(statusLog[o][i].status = "cooking" /\ statusLog[o][j].status = "cooking")

(* TASK.md, graceful shutdown: the worker finishes its in-flight order.    *)
(* An order would then not be given up while it is cooking.                *)
InFlightIsFinished ==
    \A o \in Orders : message[o] = "dead" => orders[o].status # "cooking"
=============================================================================
