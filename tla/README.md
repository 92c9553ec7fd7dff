# Verification of the restaurant order system

The program is one Go binary with four modes: the **order service** takes orders
over HTTP, stores them in PostgreSQL and publishes them to RabbitMQ; **kitchen
workers** consume them, "cook" them and write their status; the **notification
subscriber** prints status changes; the **tracking service** answers queries.
This directory holds TLA+ models of the parts that keep state and run
concurrently, TLC configurations that check them on small instances, and TLAPS
proofs for any number of workers, orders, order types and processes.

`tlc -config <run>.cfg <MC module>` checks a run, `tlapm <module>.tla` a proof
module. `PROJECT.json` maps every definition to the lines it models.

## Inventory

| Component | State | Operations | What is hard | What makes it correct |
|---|---|---|---|---|
| Kitchen worker (`services/kitchen/service.go`, `app/services/kitchen-worker.go`) | `isWorking`, `mu`, `stopping`, `activeOrders`, the cancel function, `errCh`, `shutdownCh` | Work, Stop (from two goroutines), processOrderWrapper, proccessOrder, Start, close, reconnect | goroutines that wait on each other, a Stop that fails half-way, SIGTERM at any moment, the 10 s context of close | ends after a signal; never panics; an order in flight is finished |
| Order consumer (`adapter/rabbit/order-consumer.go`) | connection, subscription, prefetch, deliveries | Consume, reconnect, Close | lost connections, redelivery, handlers that outlive their delivery | no message lost or stranded; acknowledged only when done |
| Broker queues (`queue_init.go`, `pkg/rabbit`) | messages per queue, unacknowledged deliveries, dead letters | publish, deliver, ack, nack, requeue | at-least-once delivery, competing consumers | a delivery is settled by its holder only |
| Order repository (`adapter/postgres/order.go`) | `orders`, `order_status_log`, `order_sequences` | Create, SetStatus, GetAndIncrementSequence | commits with an unclear outcome, serialization failures | status and log agree; sequence numbers are unique |
| Worker repository (`adapter/postgres/worker.go`) | `workers` | MarkOnline, MarkOffline, UpdateLastSeen, IncrOrdersProcessed, List | crash and restart, stale `last_seen`, several processes of one name, statements that find the row by name only | counts and status tell the truth; a name has one live process; it is free again after a crash |
| Order service (`services/order`, `app/services/order.go`, `pkg/semaphore`, `adapter/http`) | semaphore, requests in progress | CreateOrder, Start, close | concurrent requests, partial failure between store and publish, shutdown under load | slots are returned; accepted orders are published; refused ones are not |
| Notification subscriber (`adapter/rabbit/notification-consumer.go`, `services/notification`) | channels `stop`, `connClose`, `outCh`, `errCh`; its queue | Notify, startConsuming, isAlive, reconnect, Close | four goroutines, one `stop` token with two readers, ack before print | in order, no gaps; failures end the process |
| Tracking service (`services/tracking`, `adapter/postgres/status.go`) | none | ListWorkers, GetOrderStatus, GetTrackingHistory | its own interval and its own clock against `last_seen` | shows live workers online and dead ones offline |
| Order rules (`models/order.go`, `dto/validate.go`) | none | validation, total, priority, number | boundaries, floats against decimals | agree with their documentation |
| HTTP server (`adapter/http`) | request id per request | middleware, readJSON, routes, Run, Stop | a listener that Stop does not stop; bodies of every kind | every request is answered and can be traced |
| Configuration, modes (`config`, `app`, `cmd`) | flags | parseFlags, NewKitchen's checks, Launch | defaults and boundaries | a process starts exactly with the flags its help allows |
| Infrastructure (`pkg/logger`, `pkg/configparser`, `pkg/postgres`) | none of interest | | | not modelled |

Interaction: the order service writes `orders` and publishes to `orders_topic`;
the consumers of a worker take messages from one queue per order type, call the
worker's handler, and settle the message with its result; the handler writes
`orders` and `order_status_log`, publishes to `notifications_fanout` and
increments `workers.orders_processed`; every notification subscriber has its own
queue on that exchange; tracking reads the tables. PROJECT.json lists the
hazards, each at its line.

## Modules

| Module | Models |
|---|---|
| `Domain` | orders, types, workers, statuses |
| `OrderStore` | tables `orders` and `order_status_log`; one operator per committed transaction |
| `OrderBroker` | the order queues, as the code uses RabbitMQ |
| `WorkerStore` | table `workers` |
| `Kitchen` | any number of kitchen workers over the three above |
| `OrderService` | concurrent CreateOrder, the sequence, the semaphore, the process; over `OrderStore` and `OrderBroker` |
| `NotificationSubscriber` | the subscriber process and its queue |
| `OrderLifecycle` | abstract: what the restaurant promises about an order |
| `LifecycleMap` | the refinement mapping from the tables and queues to `OrderLifecycle` |
| `WorkerRegistry` | one row of `workers` on a clock, all processes that claim its name, and what the tracking service shows of it |
| `OrderRules`, `CommandLine` | validation, price, priority, number; flags: operators without state |
| `OrderPath` | the processes' start, and one order from the HTTP body to the handler of a worker; uses the two above |
| `MCKitchen`, `MCOrderService`, `MCNotification`, `MCWorkerRegistry`, `MCOrderPath` | instances for TLC |
| `KitchenProofs`, `KitchenSafety` | theorems about `Kitchen`, the last: it implements `OrderLifecycle` |
| `ServiceProofs` | theorems about `OrderService`, the last: it implements `OrderLifecycle` |
| `LifecycleLemmas` | lemmas about `LifecycleMap` that both refinement proofs use |
| `SubscriberProofs` | theorems about `NotificationSubscriber` |
| `RegistryProofs` | theorems about `WorkerRegistry` |
| `RulesProofs` | lemmas: what the loops of `OrderRules` and `CommandLine` compute |
| `PathProofs` | theorems about `OrderPath` |

Operators whose comment calls them a *slip* are plausible mistakes; no
specification uses them. PROJECT.json names the property each of them breaks
when it takes the place of the real definition.

### Kitchen

A worker has the goroutines `main` (Start, close, reconnect), `work` (Work and
its deferred Stop) and one consumer per order type. `pc` and `task` hold their
places; a step is the code between two points at which another goroutine, the
broker or the database can intervene. `proc` holds the process: mutex,
`isWorking`, whether `stopping` is closed, whether Work's context and the
context of close are over, the connection, `errCh`, a pending signal.

* **Stop** is split at the lock, `activeOrders.Wait`, the cancel and
  MarkOffline, and is used by both goroutines. They differ in the context:
  `main` passes one of 10 seconds, which may end at any time (`CloseTimeout`),
  and Work's deferred call passes the context that Stop itself cancels, because
  line 86 assigns to the parameter the deferred function reads.
* **The handler** checks `stopping`, adds itself to `activeOrders`, and then
  writes cooking, publishes, cooks, writes ready, publishes and counts.
  `activeOrders.Done` comes before the ack.
* **A lost connection** empties the client's buffer, closes `msgs` and returns
  deliveries to their queues; a running handler goes on and settles nothing
  later. `reconnect` gives the new Work a channel nobody reads (`orphan`).
* **The database** may fail in every call, before or after the commit took
  effect; the caller cannot tell.

As the code stands, the branch of `Leave` that resumes with a new service is
never reached: a Work that registered always leaves `isWorking` true, so the
close inside `reconnect` panics (run `kitchen_panic`).

### OrderService

A request goes through the semaphore, the serializable transaction on
`order_sequences` (snapshot, row lock, commit or serialization failure), the
insert and the publish with its retries. Failures of the sequence lead to a
random number. After a signal the listener goes on while close runs, because
`Stop` shuts down a server that was never started.

### NotificationSubscriber

`consume` acknowledges, hands over through a channel of capacity 1, and
reconnects; `alive` reports a closed connection every five seconds; `notify`
prints; `main` closes. `Close` is called by `notify` and `main`, and puts one
token into `stop`, which either `consume` or `alive` takes. An acknowledgement
is on its way for a while and is lost with the connection.

### OrderLifecycle

An order is stored, placed, assigned to one worker at a time, and ends served or
given up. A worker that fails gives its orders back (`Return`). Nobody serves
what the worker that has the order did not cook, nobody finishes what it did not
begin, and nothing leaves the two final stages. `LifecycleMap` reads all of this
from the rows, the log and the message of an order, so one mapping does for both
implementations: `OrderService` takes the first steps (`Store`, then `Place`, or
never), `Kitchen` the others (its orders are stored and placed in one step). A
stale handler shows as a `Begin` or `Finish` of a worker the order is no longer
assigned to, which is allowed; its ack would show as a `Serve` by nobody, which
is not.

### WorkerRegistry

The statements of the worker repository select by name, so names do not
interfere and one row is enough. Instants are ages, counted in ticks: `row.age`
of `last_seen`, `phase` since a ticker fired, `quiet` since a process had the
name. `Register` is the upsert with its WHERE clause, `Heartbeat` a fired ticker
that reaches the database at most `Lag` late; `Stop` waits for orders while the
heartbeats go on, `Cancel` ends them, and `MarkOffline` follows within the 10
seconds of close (`StopLag`) or not at all. A database call may fail before or
after it took effect. `blame` records, for the properties only, what befell a
registration: a heartbeat that failed (`missed`), or a foreign MarkOffline
(`marked`).

`NoTwins` lists every way two processes come to work under one name. Two of them
need no failure: a newcomer whose interval is less than half as long as that of
the worker it replaces, and a process that stops late under a name that has
changed hands. `LiveIsShownOnline` and `DeadIsShownOffline` say what
GET /workers/status is worth: the first needs `Interval + Lag + Skew` of the
worker to fit into the interval of the tracking service, which with equal
intervals it does not, since the threshold is one interval (TASK.md:604 asks for
two): such a worker flickers.

### OrderRules, CommandLine, OrderPath

Texts are reduced to what is checked of them (length in characters and bytes,
plain or not), money is counted in tenths of a cent. A total carries the side on
which its float missed the exact sum, which matters only where the code compares
it with 50 and 100 or a column rounds half a cent. `SumIsExact` names the sums
that floats never miss: all prices multiples of an eighth of a dollar, or a
single item of whole cents, for which every product that could equal 50 or 100
dollars is exact. `--prefetch` is a flag like the others that no check looks at.
`OrderPath` starts the four processes with their flags, in any order, and follows
two requests: request id,
decoding, validation, number (from the sequence, or random), price and priority,
row, message, routing key, queue, and the handler's arguments. Failures appear
only as answers; their interleavings are in `OrderService` and `Kitchen`.

## Runs

| Run | Instance | States | Shows |
|---|---|---|---|
| `kitchen_lifecycle` | 1 worker, 2 types, 1 order; 2 starts, 1 signal, 1 crash, 1 lost connection, 1 database error | 200 511 | a signalled process ends (`SignalledExits`); no delivery waits forever (`DeliveryResolves`); `OfflineIsCancelled`; `SettledOrderIsReady` |
| `kitchen_faults` | 2 workers (symmetric), 2 orders of 1 type; 2 starts, 1 crash, lost connection, database error and failed publish each | 582 420 | the safety properties of messages, log, notifications and counters, the inductive invariant, and that `Kitchen` implements `OrderLifecycle` |
| `order_service` | 3 requests, 2 slots, 3 numbers of which 1 is random, 2 publish attempts; every disturbance once, failed publishes twice | 571 175 | slots, numbers, stored against published against answered; every request is answered; `OrderService` implements `OrderLifecycle` |
| `notification` | 2 updates, 2 reconnect attempts; 2 lost connections, 2 refused dials, 1 signal, 1 crash | 222 782 | order without gaps, `AckedIsInside`, `UpdateIsShown`, `FailureEndsProcess` |
| `worker_registry` | 4 processes with intervals of 3, 3 (symmetric), 6 and 2 ticks of 2.5 s, the last refused; 4 starts, 1 crash, 2 database failures | 903 026 | `NoTwins`, `LiveIsShownOnline`, `DeadIsShownOffline`, `NameIsFreed` |
| `order_path` | 2 requests; a usual deployment, and every scenario that differs from it in one respect: 499 | 145 944 | acceptance by the rules, priority, stored amounts, routing, contents, request ids, numbers, start of processes |
| `kitchen_panic`, `kitchen_dead_letter`, `kitchen_redelivery`, `kitchen_in_flight`, `order_shutdown`, `notification_shutdown` | one disturbance each | | the code does not do what its documents say (below) |

**Bounds.** `Limit`, `IntakeLimit` and `Budget` bound how often each kind of
disturbance happens, `MaxUpdates` the updates; `Prefetch`, `ReconnectAttempt`,
`MaxConcurrent` and the attempts are parameters of the program. Two workers and
two orders are the least at which a stale handler of one worker meets the
delivery of another, and at which one worker holds one order and prefetches
none; two types in `kitchen_lifecycle` are the least at which one consumer ends
while another runs. Three requests on two slots let one request be refused while
two compete for the row of `order_sequences`; numbers 1 and 2 come from the
sequence, 3 is the random range, so two random numbers must collide. Two lost
connections let the second one meet the `isAlive` started after the first; with
two updates `outCh` is full while the other update is in `consume`'s hand.
`SettledOrderIsReady` is checked with one worker, since it needs that no two
workers handle the same type: otherwise a handler that lost its connection
writes cooking over the ready of the other. In `worker_registry`
3 ticks is the shortest interval NewKitchen accepts (more than 5 s), 6 is too
slow for it, `StopLag` is 10 s, and `Horizon` exceeds every interval the code
compares an age with, so capped ages lose nothing; four starts let a name change
hands twice. In `order_path` every variant is a boundary of some check or its
neighbour, all sequences of up to three entries of `--order-types` are tried,
and the day's numbers start at 0 and just below 10, 100, 1 000, 10 000 and
100 000; 10 000 and 99 999 are the random numbers. Deadlock is checked in
`worker_registry`, where time never stops, and off elsewhere, since every
disturbance runs out and the services may stop.

**Fairness.** Weak fairness of each goroutine: the Go scheduler starves none,
mutexes and channels are fair, and cooking, backoff and ticks take bounded time.
In `NotificationSubscriber` the broker is also fair: it delivers what it has to
a connected consumer. Signals, failures, crashes, starts and new orders are
never assumed to happen.

`WorkerRegistry` and `OrderPath` state safety only; in the first, punctuality is a
guard of `Tick`, not fairness.

### Where the code and its documents disagree

Six are runs that expect a violation, and findings in PROJECT.json:

* `kitchen_panic`: after one lost connection the deferred Stop cancels its own
  context, MarkOffline fails, `isWorking` stays true, and the next Stop (of
  Start's deferred close, or of the close in `reconnect`) closes `stopping`
  again. TASK.md:38 excludes panics.
* `kitchen_dead_letter`: a database error dead-letters the order; the comment
  above `isRecoverableError` asks for requeue.
* `kitchen_redelivery`: a redelivered order is set to cooking and logged again;
  TASK.md:425 asks for the opposite.
* `kitchen_in_flight`: a Stop between the check of `stopping` and
  `activeOrders.Add` cancels an order that is cooking; TASK.md:466.
* `order_shutdown`: the order service exits between insert and publish;
  README.md:17 promises shutdown without data loss.
* `notification_shutdown`: the subscriber exits with an acknowledged update that
  was never printed; README.md:17.

Four smaller ones have a configuration each beside the runs, in which TLC finds
the documented property violated in the same way:

* `registry_takeover.cfg` (MCWorkerRegistry, `OnlineNameIsRefused`): a name
  whose row is marked online is taken over once `last_seen` is older than two
  intervals of the newcomer. TASK.md:401 refuses every name marked online; the
  comment above `MarkOnline` (worker.go:60) asks for the takeover. The two
  contradict each other, so each is stated: `NameIsFreed` is the comment's side,
  which the code implements and without which a crashed worker could never come
  back.
* `order_address.cfg` (MCOrderPath, `StoredByTheRules`): an address of 10 bytes
  and fewer characters is accepted, where validate.go:28, :120 and TASK.md:262
  ask for 10 characters.
* `order_priority.cfg` (MCOrderPath, `UrgentAboveHundred`): items that cost
  exactly 100 dollars get priority 10 if their sum of floats is above 100, as
  that of 4 times 0.01 and 3 times 33.32 is; order.go:62 says "greater than
  $100".
* `launch_flags.cfg` (MCOrderPath, `StartsAsDocumented`): `--max-concurrent 0`
  is accepted although config.go:131 says "between 1 and 1000". Two more command
  lines violate the same property: 5 seconds between heartbeats are refused
  (kitchen-worker.go:28 says "at least 5 seconds"), and a tracking service
  without `--port` tries to listen at -1 (help.go:34 says 3002).

The passing runs state what holds beside these. `AcceptedByTheRules` is the
documented rules, in characters: what meets them is not refused, and what is
stored meets them or is in the one gap it names, an address short of 10
characters that has 10 bytes (`ShortWithTenBytes`). `PriorityFollowsTotal` fixes
the priority of every total, 1 at exactly 50 dollars (order.go:63-64;
TASK.md:272 leaves it to taste) and 5 at exactly 100; the next higher one is
admitted only at these two and only if the sum is not `SumIsExact`.
`LaunchedAsDocumented` demands the documented outcome outside the gaps of
`launch_flags.cfg`, and inside them the opposite one (`AcceptedInstead`,
`RefusedInstead`), so that it fails when a gap is closed.

Two disagreements have no configuration. A heartbeat does not set the row online
(TASK.md:454), so a worker that another process set offline stays so; this is
the exception `marked` of `LiveIsShownOnline`. And TASK.md:303 and :305 give 400
for a request that fails validation and 200 for one that succeeds, where the
code answers 422 (errors.go:17) and 201 (order.go:72); the model has the code's.

## Proofs

### Kitchen

For every set of workers, orders and types, every prefetch, number of attempts
and limit. The assumptions are `DomainAssumption` and `KitchenAssumption`: the
types of the constants.

* `KitchenProofs`: `Core == TypeOK /\ HandlesOwn /\ ControlInv` is inductive
  (`CoreInvariant`), hence `TypeCorrect`. `HandlesOwn` says that a consumer holds
  a message of its own type exactly at the places that handle one; `ControlInv`
  says that ended or unregistered workers have no consumers and no goroutines,
  that close has a reason, and that Stop marks after it cancels. `TypeOK` alone
  is not inductive: `Leave` ends a process with `after`, which has to be a way
  to end, and settling reads `cur`, which has to be an order.
* `KitchenSafety`, on top of `Core`: `NothingStranded`, `OnlyHolder` (an action
  property) and `OfflineAfterCancel`.

  What the workers write: `StepEffect` reduces every step to one of six operations
  on the tables and queues, or to none. Hence the log only grows (`LogGrows`),
  so what a handler has committed stays committed. With `CookingIsLogged` and
  `ReadyIsLogged` this gives `InductiveInvariant`, and from it
  `AckedAfterCompletion`, `NotifiedAfterCommit` and `CookedBeforeReady`. These
  two are needed because an acknowledgement says nothing about the database by
  itself: the link is the place of the handler between them.

  `CountsAreEarned` (`NeverOvercounted`): the counter alone is not inductive,
  since a handler may be anywhere between its last write and the increment.
  `CountInv` adds the handlers that have written and not counted yet: their
  number and the counter together never exceed the ready entries of the worker.
  Nothing is assumed finite: both sets are empty at first and grow by one
  element a step.

  `SettledStaysReady` (`SettledOrderIsReady`) is the one theorem with a
  hypothesis on the deployment, `Specialised`: no two workers handle the same
  type. Then an acknowledged order is in nobody's hands (`AckedIsFree`), for
  which a message must never be in a buffer and in a handler at once
  (`DeliveriesHeld`: a consumer subscribes again only after its stale handler is
  gone), and a handler finds its order as it left it (`ReadyStays`). Without the
  hypothesis the property is false.

  `KitchenImplementsLifecycle`: each of the six operations of `StepEffect` is a
  step of `OrderLifecycle` under `LifecycleMap`. `Place` needs that an order
  without a row has no message (`PlacedIsStored`, inductive with `Core`); `Serve`
  and `Finish` need `HandlerInv`, what a handler has committed at its place.

### OrderService

For every finite set of requests, any number of slots and publish attempts, any
limit of disturbances and any range of random numbers. `IntakeAssumption` asks
that there is a number for every request: 1 to the number of requests are order
numbers, as an INTEGER column provides.

* `Core`: `SlotsMatchRequests` is the number of requests inside CreateOrder as a
  cardinality, one more at Acquire and one less at every answer. `TypeOK` is not
  inductive without a bound on the sequence: `CountInv` says that the sequence is
  not ahead of the requests that have asked it, and this in turn needs
  `LockInv`, that the transaction about to commit holds the row and its snapshot
  is current. `NumberInv` says that a number came from the sequence or from the
  random range.
* `SequenceIsUnique` (`OnlyRandomNumbersCollide`): the number that a commit gives
  is above all that were given.
* `PublisherInv` (a request that publishes has stored its order, alone, and has
  not published it) makes `PublishedIsStored`, `AcceptedIsPublished` and
  `PublishedIsAccepted` inductive; the last one says who published, and
  `RefusedAreNotPublished` follows from it.
* `ServiceImplementsLifecycle`: the insert is `Store`, the publish is `Place`, and
  every other step leaves tables and queues alone. `Store` needs that a row is
  new, `Place` needs `PublisherInv`.

### NotificationSubscriber

For every number of updates and reconnect attempts (at least one) and every
budget of disturbances.

An update travels from the queue through the client's buffer, `consume`, `outCh`
and `notify` to the terminal. A lost connection puts back what is not
acknowledged, and what is but whose acknowledgement was still on its way, so an
update can be in the queue again after a later one has passed. `FirstShownInOrder` speaks of the last
stop only. `PipeInv` says for each stop that whatever was published before the
update there is ahead of it: shown, missed for good (published while there was
no queue), or at a later stop. Delivery is where this is won: the broker delivers
the least update it has, and every update before it was acknowledged, hence by
`AckedIsInside` shown or inside the process, or is still unacknowledged, hence
by `QueueInv` in the buffer or with `consume`. `QueueInv` is also needed for a
queue that Close deleted: no delivery follows. `ControlInv` says when a goroutine
holds an update. `StepKinds` reduces the steps of the specification to those that
move an update.

### WorkerRegistry

For every set of processes, every interval of each, and every lag, skew and
limit. `RegistryAssumption` asks that the constants are numbers, that ages stop
growing only above every interval, and that `Lag < MinHeartbeat`: a heartbeat
reaches the database before the next one is due.

The properties compare `row.age` with intervals, and no step preserves such a
comparison by itself. `IndInv` bounds the age by the phase of every ticker that
missed nothing (`LastSeenIsRecent`): the phase while no heartbeat is due,
interval plus phase while one is. For time to preserve this, a ticker that fires
must have no heartbeat due, which follows from `Punctual` only if the interval
exceeds the lag: hence `AcceptedInterval` (NewKitchen's check) and `TickerRuns`.
`OnlineUnlessMarked` says that nothing but MarkOffline takes a live row offline,
and `QuietIsOld` that only registered processes write the row. At a
registration, `Refused` is false, so the row is offline (then every live process
is marked) or old (then it missed a heartbeat or is too slow): this is `NoTwins`.
`LiveWorkersAreShown`, `DeadWorkersAreNotShown` and `NamesAreFreed` follow from
`IndInv` without a further induction.

### OrderPath

For every finite set of requests, every set of scenarios and of random numbers.
`PathAssumption` asks what the program is given in any run: the fields of a
request have the types that decoding into `CreateOrderRequest` gives them, an
optional field has at most one value, an address has no more characters than
bytes, flags have the types that package `flag`
parses them to, a process with one of the modes is the process of that mode, and
the numbers are naturals. Nothing is assumed about their size, the number of
items, or the length of `--order-types`.

* `OnlyTheRules` (`AcceptedByTheRules`): `RulesAreChecked` shows, check by check,
  that `ValidateCreateOrderRequest` finds no error exactly if the documented
  rules but the length of the address are met, and the address has 10 bytes. So
  whatever meets the rules passes, an address of 10 characters having 10 bytes
  at least, and what passes meets them or has an address short of 10 characters,
  which `order_address.cfg` exhibits. `VerdictInv` carries the verdict of the handler from the answer
  back to the body, which no step changes.
* `OnePlaceForAnOrder` (`ReachesItsKitchen`): counting messages is not inductive
  by itself, because an order with a number in use would add to another order's
  count. `NumbersDiffer` and `SentInv` (every message is the order of an accepted
  request, in the queue of its type) make a free number unused in all queues
  (`FreeIsUnused`). The message of a new order is then the only one of its
  number, and the handler moves it from the one side of `Once` to the other
  (`HandleKeepsOnce`). That it is routed at all needs `ServiceIsRouted`: what
  passes the checks has one of the three types, and an order service that is up
  has bound all three queues.
* `NothingIsLost` (`HandlerGetsTheOrder`) and `TracedToItsRequest`
  (`RequestIsTraced`) follow from `HandledInv`; the second needs that no message
  lacks an id, for otherwise the handler would pass on the id of the message
  before.

What the loops compute is in `RulesProofs`, for inputs of any length. A loop is
a fold or a recursive function, and a library theorem for induction takes an
operator, which the provers cannot instantiate. `Induction` states it for a set
of naturals and follows from `WFMin`, the existence of a least element; the
induction hypothesis is then the definition of a set. `FoldExists` shows that
there is a function that satisfies the equation of a fold, without which nothing
could be said of its values. On these rest: that the order of summation does not
matter (`FoldAddsUp`), that rounding each of n terms moves the sum by at most n
times its error (`NearSum`), that digits spell their number and the number of
digits follows from the value (`DigitsSpell`, `LengthByValue`), and the invariant
of the loop of ValidateOrderTypes: after i entries it has read exactly the words
among them, each once (`TypesReadAsDocumented`).

The five theorems on values rest on `ValuesInv`, which adds two parts to the
invariant above. `StartInv`: a process came up exactly if its command line passed
the checks of the code. `RowInv`: a row is that of its request's order, with a
total CalucalteTotalAmount can return and a number that was random or is
`Recent`.

* `ComesUpAsDocumented` (`LaunchedAsDocumented`): the checks of the code and the
  documentation agree, mode by mode, outside the gaps the property names, and
  disagree in them (`CommandLinesAgree`).
* `PathTypes` (`TypeOK`), `PriorityOfCost` (`PriorityFollowsTotal`) and
  `TotalsAddUp` (`StoredTotalAddsUp`): the sum of floats is the exact sum, missed
  on either side by less than the grain of prices. So it decides a comparison
  only at equality, and there only for a sum that is not `SumIsExact`, and a
  rounding only at half a cent.
* `NumbersAreRead` (`NumbersReadBack`): the property alone is not inductive. The
  sequence moves on with every request, so a number could fall behind by more
  than the number of requests. `Recent` counts the requests that can still take
  a number: n + |Requests| > seq + |Open|.

### Only model-checked

Every invariant and action property of the passing runs and both refinements are
proved, and also checked by TLC. Left to TLC is liveness (`SignalledExits`,
`DeliveryResolves`, `RequestIsAnswered`, `UpdateIsShown`, `FailureEndsProcess`):
temporal reasoning with fairness and ENABLED is out of the prover's reach.
The six runs and four configurations that expect a violation show one behaviour each, for which TLC's
counterexample is the evidence.

## Abstractions

* A queue of orders is a set of messages: requeues and competing consumers
  reorder it anyway, and the queues have no `x-max-priority`, so the priority of
  a message has no effect. In `NotificationSubscriber` the order is kept.
* Messages are those the services publish; they always decode. Their contents
  are in `OrderPath`; elsewhere, text, amounts, timestamps and the old status in
  a notification are left out.
* An ack or nack of an order takes effect at once or, on a lost connection, not
  at all. Errors of a channel whose connection lives are not modelled; if two
  consumers replace a lost connection at the same time, both new connections
  count as one.
* In `Kitchen`, heartbeats keep the row of a running worker fresh, `Lapse`
  happens to ended processes, and there is one process per worker name;
  `WorkerRegistry` drops these three and leaves out the orders instead.
* In `WorkerRegistry` a reconnect inside a process is the end of one and the
  start of another, and the clock of the database is the only one, but for the
  `Skew` of the tracking service.
* In `OrderPath` each kind of process runs once and is not stopped, prices have
  at most three decimals, and every step of a request is atomic.
* Misuse of the WaitGroup (an Add from zero concurrent with Wait) is modelled by
  its effect, a Wait that does not see the order, not as the runtime's panic.
* A send on the channel that nobody reads blocks or not without a difference.
* In `OrderService` numbers belong to one day; an error at BeginTx has the
  outcome of a commit without effect; the moment between the close of the pool
  and the exit of the process is part of the exit; errors of listening are left
  out.
* Reading the closed `msgs` of the subscriber in a loop changes nothing and is
  not a step.

Not modelled: the queries for the status and the history of one order (they
read what `OrderStore` keeps; the order in which concurrent transactions stamp
their log entries is below its grain), the health check, the YAML file and
environment variables, logging, connection set-up.

## Plan

1. Done: all components but the infrastructure, modelled and checked; every
   invariant and action property of `Kitchen`, `OrderService`,
   `NotificationSubscriber`, `WorkerRegistry` and `OrderPath` proved, and both
   refinements of `OrderLifecycle`.
2. Not planned: proofs of liveness (above), and the parts listed as not modelled.
   If the code changes, the runs come first: TLC finds out whether the inductive
   invariants still hold before their proofs are repaired.
