----------------------------- MODULE OrderPath ------------------------------
(***************************************************************************)
(* What becomes of an order on its way: the command lines the processes    *)
(* were started with, the body of the HTTP request, the checks, the price  *)
(* and the number, the row, the message and its routing key, the queue and *)
(* the handler of the kitchen worker.  One process of each kind; what      *)
(* happens when one of them fails on the way is in OrderService and        *)
(* Kitchen, and only shows here as an answer.                              *)
(***************************************************************************)
EXTENDS CommandLine, FiniteSets

CONSTANTS
    Requests,        \* HTTP requests
    Scenarios,       \* command lines, bodies and the last number of the day
    RandomNumbers    \* what getRandomOrderNumber can return

Procs == {"orders", "kitchen", "tracking", "notifier"}

VARIABLES
    cmd,      \* the flags a process was started with
    run,      \* new, up, or exited with an error
    bound,    \* order types whose queue is declared and bound
    body,     \* what a request asks for
    reply,    \* none, service (CreateOrder runs), or the code of the answer
    reqID,    \* the X-Request-ID of the answer
    seq,      \* the last number of the day
    rows,     \* the row of a request's order and its items; at most one
    queue,    \* the messages in the queue of an order type
    ctxID,    \* the request id in the context of that queue's consumer
    handled   \* what its handler was called with

vars == <<cmd, run, bound, body, reply, reqID, seq, rows, queue, ctxID, handled>>

(* What readJSON can find in a body; only the first is decoded.            *)
Bodies == {"object", "empty", "syntax", "truncated", "type", "unknown_key",
           "too_large", "second_value"}

(* No request id.  Others are <<"header", id>> and <<"generated", request>>.*)
NoID == << >>

(* A request, as far as it is looked at.                                   *)
Request ==
    [json: Bodies, header: {NoID} \cup ({"header"} \X STRING),
     customer: [chars: Nat, plain: BOOLEAN], type: STRING,
     items: Seq([chars: Nat, quantity: Int, price: Int]),
     table: SUBSET Int, address: SUBSET [chars: Nat, bytes: Nat]]

AtMostOne(S) == \A x, y \in S : x = y

(* An optional field has at most one value, and no character is less than  *)
(* a byte.                                                                 *)
WellFormed(b) ==
    /\ AtMostOne(b.table)
    /\ AtMostOne(b.address)
    /\ \A a \in b.address : a.chars <= a.bytes

(* A process is what its --mode makes it.                                  *)
ModeOf(p) ==
    CASE p = "orders"   -> "order-service"
      [] p = "kitchen"  -> "kitchen-worker"
      [] p = "tracking" -> "tracking-service"
      [] p = "notifier" -> "notification-subscriber"

ASSUME PathAssumption ==
    /\ IsFiniteSet(Requests)
    /\ RandomNumbers \subseteq Nat
    /\ \A s \in Scenarios :
        /\ s.cmd \in [Procs -> Flags]
        /\ \A p \in Procs : s.cmd[p].mode \in Modes => s.cmd[p].mode = ModeOf(p)
        /\ s.body \in [Requests -> Request]
        /\ \A r \in Requests : WellFormed(s.body[r])
        /\ s.seq \in Nat

Codes == {"201", "400", "422", "429", "500"}

TypeOK ==
    /\ run \in [Procs -> {"new", "up", "exited"}]
    /\ bound \subseteq AllOrderTypes
    /\ \A r \in Requests : body[r].json \in Bodies
    /\ reply \in [Requests -> {"none", "service"} \cup Codes]
    /\ seq \in Nat
    /\ \A r \in Requests : \A row \in rows[r] :
          row.type \in AllOrderTypes /\ row.priority \in {1, 5, 10} /\ row.total \in Nat
    /\ DOMAIN queue = AllOrderTypes /\ DOMAIN ctxID = AllOrderTypes

Init ==
    /\ \E s \in Scenarios : cmd = s.cmd /\ body = s.body /\ seq = s.seq
    /\ run = [p \in Procs |-> "new"]
    /\ bound = {}
    /\ reply = [r \in Requests |-> "none"]
    /\ reqID = [r \in Requests |-> NoID]
    /\ rows = [r \in Requests |-> {}]
    /\ queue = [t \in AllOrderTypes |-> << >>]
    /\ ctxID = [t \in AllOrderTypes |-> NoID]
    /\ handled = {}

-----------------------------------------------------------------------------
HasServer(f) == f.mode \in {"order-service", "tracking-service"}

(* The types a kitchen worker consumes.                                    *)
HandledTypes == ToSet(ValidateOrderTypes(cmd["kitchen"].orderTypes).types)

(* The slip of an order service that leaves the queues to the workers.     *)
BoundByWorker(p) == IF p = "kitchen" THEN HandledTypes ELSE {}

(* InitQueuesForOrderTypes, which NewOrderProducer and NewOrderConsumer    *)
(* call: kitchen_<type>_queue, bound by kitchen.<type>.*.                  *)
BoundBy(p) ==
    CASE p = "orders"  -> AllOrderTypes
      [] p = "kitchen" -> HandledTypes
      [] OTHER         -> {}

(* main: config.New, NewApplication and Run.                               *)
Launch(p) ==
    /\ run[p] = "new"
    /\ LET starts == Launches(cmd[p])
           serves == HasServer(cmd[p]) => CanListen(Port(cmd[p]))
       IN  /\ run' = [run EXCEPT ![p] = IF starts /\ serves THEN "up" ELSE "exited"]
           /\ bound' = IF starts THEN bound \cup BoundBy(p) ELSE bound
    /\ UNCHANGED <<cmd, body, reply, reqID, seq, rows, queue, ctxID, handled>>

-----------------------------------------------------------------------------
(* The order service.                                                      *)

(* The slip of a middleware that only passes on what the client sent.      *)
HeaderOnly(r) == body[r].header

(* RequestIDMiddleware.                                                    *)
RequestID(r) == IF body[r].header # NoID THEN body[r].header ELSE <<"generated", r>>

readJSON(r) == body[r].json = "object"

(* The order the handler makes of a decoded body.                          *)
FromRequestToInternalCreateOrder(b) ==
    [customer |-> b.customer, type |-> b.type, items |-> b.items,
     table |-> b.table, address |-> b.address]

CreateOrder(r) == FromRequestToInternalCreateOrder(body[r])

(* The slip of an error response whose status is never written.            *)
VerdictWithoutCode(r) ==
    IF ~readJSON(r) THEN "200"
    ELSE IF ValidateCreateOrderRequest(CreateOrder(r)) # {} THEN "422"
    ELSE "service"

(* What the handler answers by itself, or that it calls the service.       *)
Verdict(r) ==
    IF ~readJSON(r) THEN "400"
    ELSE IF ValidateCreateOrderRequest(CreateOrder(r)) # {} THEN "422"
    ELSE "service"

(* POST /orders, up to CreateOrder of the service.                         *)
Submit(r) ==
    /\ run["orders"] = "up"
    /\ reply[r] = "none"
    /\ reqID' = [reqID EXCEPT ![r] = RequestID(r)]
    /\ reply' = [reply EXCEPT ![r] = Verdict(r)]
    /\ UNCHANGED <<cmd, run, bound, body, seq, rows, queue, ctxID, handled>>

(* The order that CreateOrder stores and publishes.                        *)
Order(r, n, total) ==
    LET o == CreateOrder(r)
    IN  [number |-> SetNumber(n), customer |-> o.customer, type |-> o.type,
         items |-> o.items, table |-> o.table, address |-> o.address,
         total |-> total, priority |-> CalculatePriority(total)]

(* The rows of tables orders and order_items.                              *)
Row(o) ==
    [number |-> o.number, customer |-> o.customer, type |-> o.type,
     items |-> [i \in DOMAIN o.items |->
                  [chars |-> o.items[i].chars, quantity |-> o.items[i].quantity,
                   price |-> Cents(o.items[i].price, 0)]],
     table |-> o.table, address |-> o.address,
     total |-> Cents(o.total.exact, o.total.err), priority |-> o.priority]

(* The slip of a message without the table number.                         *)
PublishWithoutTable(o, id) ==
    [number |-> o.number, customer |-> o.customer, type |-> o.type, items |-> o.items,
     table |-> {}, address |-> o.address, total |-> o.total,
     priority |-> o.priority, request |-> id]

FromInternalToPublishOrder(o, id) ==
    [number |-> o.number, customer |-> o.customer, type |-> o.type, items |-> o.items,
     table |-> o.table, address |-> o.address, total |-> o.total,
     priority |-> o.priority, request |-> id]

createOrderPublishedKey(o) == <<"kitchen", o.type, o.priority>>
getRoutingkeyByOrderType(t) == <<"kitchen", t, "*">>

(* The topic exchange: word by word, and "*" stands for one word.          *)
KeyMatches(key, binding) ==
    /\ Len(key) = Len(binding)
    /\ \A i \in DOMAIN key : binding[i] # "*" => key[i] = binding[i]

PublishCreateOrder(o, id) ==
    queue' = [t \in AllOrderTypes |->
                IF t \in bound /\ KeyMatches(createOrderPublishedKey(o), getRoutingkeyByOrderType(t))
                THEN Append(queue[t], FromInternalToPublishOrder(o, id))
                ELSE queue[t]]

(* GetAndIncrementSequence; if it fails, before or after its commit, the   *)
(* number is a random one.                                                 *)
TakeNumber(n) ==
    \/ n = seq + 1 /\ seq' = n
    \/ n \in RandomNumbers /\ seq' \in {seq, seq + 1}

(* Column number is unique.                                                *)
NumberIsFree(n) == \A q \in Requests : \A row \in rows[q] : row.number # SetNumber(n)

(* The semaphore has a slot at all.                                        *)
HasSlots == cmd["orders"].maxConcurrent > 0

(* CreateOrder succeeds.                                                   *)
Create(r) ==
    /\ reply[r] = "service"
    /\ HasSlots
    /\ \E n \in RandomNumbers \cup {seq + 1}, total \in TotalAmounts(CreateOrder(r).items) :
          /\ TakeNumber(n)
          /\ NumberIsFree(n)
          /\ rows' = [rows EXCEPT ![r] = {Row(Order(r, n, total))}]
          /\ PublishCreateOrder(Order(r, n, total), reqID[r])
    /\ reply' = [reply EXCEPT ![r] = "201"]
    /\ UNCHANGED <<cmd, run, bound, body, reqID, ctxID, handled>>

(* It fails: no slot within a second; not stored; or stored and not        *)
(* published.                                                              *)
CreateFails(r) ==
    /\ reply[r] = "service"
    /\ \/ /\ reply' = [reply EXCEPT ![r] = "429"]
          /\ UNCHANGED <<seq, rows>>
       \/ /\ HasSlots
          /\ reply' = [reply EXCEPT ![r] = "500"]
          /\ \E n \in RandomNumbers \cup {seq + 1}, total \in TotalAmounts(CreateOrder(r).items) :
                /\ TakeNumber(n)
                /\ \/ UNCHANGED rows
                   \/ NumberIsFree(n) /\ rows' = [rows EXCEPT ![r] = {Row(Order(r, n, total))}]
    /\ UNCHANGED <<cmd, run, bound, body, reqID, queue, ctxID, handled>>

-----------------------------------------------------------------------------
(* The kitchen worker.                                                     *)

FromPublishToInternalOrder(m) ==
    [number |-> m.number, customer |-> m.customer, type |-> m.type, items |-> m.items,
     table |-> m.table, address |-> m.address, total |-> m.total, priority |-> m.priority]

(* Consume replaces its own context: it keeps the id of the message before *)
(* if a message has none.                                                  *)
ContextID(t, m) == IF m.request # NoID THEN m.request ELSE ctxID[t]

(* Consume of queue t takes the next message, decodes it and calls the     *)
(* handler, whose updates carry the id in the context.                     *)
Handle(t) ==
    /\ run["kitchen"] = "up"
    /\ t \in HandledTypes
    /\ queue[t] # << >>
    /\ LET m == Head(queue[t])
       IN  /\ ctxID' = [ctxID EXCEPT ![t] = ContextID(t, m)]
           /\ handled' = handled \cup
                {[order |-> FromPublishToInternalOrder(m), consumer |-> t,
                  request |-> ContextID(t, m)]}
    /\ queue' = [queue EXCEPT ![t] = Tail(@)]
    /\ UNCHANGED <<cmd, run, bound, body, reply, reqID, seq, rows>>

Next ==
    \/ \E p \in Procs : Launch(p)
    \/ \E r \in Requests : Submit(r) \/ Create(r) \/ CreateFails(r)
    \/ \E t \in AllOrderTypes : Handle(t)

Spec == Init /\ [][Next]_vars

-----------------------------------------------------------------------------
(* Properties.                                                             *)

(* The rules of the comment above ValidateCreateOrderRequest, read as one  *)
(* sentence.                                                               *)
ItemInRange(item) ==
    item.chars \in 1 .. 50 /\ item.quantity \in 1 .. 10 /\ item.price \in MinPrice .. MaxPrice

FieldsFitType(b) ==
    \/ b.type = "dine_in" /\ b.address = {} /\ \E n \in 1 .. 100 : b.table = {n}
    \/ b.type = "takeout" /\ b.address = {} /\ b.table = {}
    \/ b.type = "delivery" /\ b.table = {} /\ b.address # {}

RulesButLength(b) ==
    /\ b.customer.chars \in 1 .. 100 /\ b.customer.plain
    /\ Len(b.items) \in 1 .. 20
    /\ \A i \in DOMAIN b.items : ItemInRange(b.items[i])
    /\ FieldsFitType(b)

(* An address has at least ten characters.                                 *)
MeetsTheRules(b) == RulesButLength(b) /\ \A a \in b.address : a.chars >= 10

(* Where the code is known to differ: an address that is too short passes  *)
(* if its characters make ten bytes.                                       *)
ShortWithTenBytes(b) ==
    RulesButLength(b) /\ \A a \in b.address : a.chars < 10 /\ a.bytes >= 10

(* An order is stored only if its request could be decoded and meets the   *)
(* rules, but for the known gap, and a request that meets them is never    *)
(* answered with 400 or 422: readJSON and ValidateCreateOrderRequest.      *)
AcceptedByTheRules ==
    \A r \in Requests :
        LET decoded == body[r].json = "object"
        IN  /\ rows[r] # {} =>
                 decoded /\ (MeetsTheRules(body[r]) \/ ShortWithTenBytes(body[r]))
            /\ decoded /\ MeetsTheRules(body[r]) => reply[r] \notin {"400", "422"}

(* validate.go:28: the address of a delivery has at least 10 characters.   *)
(* vaildateOrdertype counts bytes.                                         *)
StoredByTheRules ==
    \A r \in Requests : rows[r] # {} => MeetsTheRules(body[r])

(* What the items of an order cost.                                        *)
Cost(items) == SumFunction([i \in DOMAIN items |-> items[i].price * items[i].quantity])

(* The priority of a cost: 10 above 100 dollars, 5 above 50, else 1.       *)
PriorityOf(cost) == IF cost > 100000 THEN 10 ELSE IF cost > 50000 THEN 5 ELSE 1

(* The priority is that of what the items cost (CalculatePriority), at     *)
(* exactly 50 and 100 dollars too.  Only there, and only if the sum of     *)
(* floats of CalucalteTotalAmount can be above the exact one, it may be    *)
(* the next higher.                                                        *)
PriorityFollowsTotal ==
    \A r \in Requests : \A row \in rows[r] :
        LET cost == Cost(body[r].items)
        IN  \/ row.priority = PriorityOf(cost)
            \/ /\ cost \in {50000, 100000} /\ ~SumIsExact(body[r].items)
               /\ row.priority = PriorityOf(cost + 1)

(* order.go:62: priority 10 is for totals greater than $100.  The total    *)
(* that is compared is a sum of floats.                                    *)
UrgentAboveHundred ==
    \A r \in Requests : \A row \in rows[r] :
        row.priority = 10 => Cost(body[r].items) > 100000

Units(items) == SumFunction([i \in DOMAIN items |-> items[i].quantity])

WholeCents(items) == \A i \in DOMAIN items : items[i].price % 10 = 0

(* The stored total is the sum of the stored prices if these are whole     *)
(* cents; otherwise the columns' roundings (Create) put them apart by at   *)
(* most half a cent per unit, and half a cent.                             *)
StoredTotalAddsUp ==
    \A r \in Requests : \A row \in rows[r] :
        LET gap == row.total - Cost(row.items)
        IN  IF WholeCents(body[r].items)
            THEN gap = 0
            ELSE 2 * gap <= Units(row.items) + 1 /\ -2 * gap <= Units(row.items) + 1

(* The messages of a queue that are about an order number.                 *)
About(t, number) == {i \in DOMAIN queue[t] : queue[t][i].number = number}

(* An order that was answered with 201 is in the queue of its own type or  *)
(* was handled by the consumer of that queue, and is nowhere else, whether *)
(* or not a worker has been started: queue_init.go and the routing keys.   *)
ReachesItsKitchen ==
    \A r \in Requests : reply[r] = "201" =>
        \A row \in rows[r], t \in AllOrderTypes :
            Cardinality(About(t, row.number))
            + Cardinality({h \in handled : h.order.number = row.number /\ h.consumer = t})
                = (IF t = row.type THEN 1 ELSE 0)

(* The handler is given the order that was stored: FromInternalToPublish-  *)
(* Order, JSON and FromPublishToInternalOrder lose nothing of it.          *)
HandlerGetsTheOrder ==
    \A h \in handled :
        \E r \in Requests : \E row \in rows[r] :
            /\ Row(h.order) = row
            /\ h.order.items = body[r].items

(* The updates about an order carry the request id that its client was     *)
(* told, although the consumer's context outlives the message: no order is *)
(* published without an id.                                                *)
RequestIsTraced ==
    \A h \in handled : \A r \in Requests :
        (\E row \in rows[r] : row.number = h.order.number) => h.request = reqID[r]

(* Orders of a day have different numbers, and each reads as its place in  *)
(* the sequence or as the random number, with three digits at least:       *)
(* SetNumber past 999 and 9999.                                            *)
NumbersReadBack ==
    \A r \in Requests : \A row \in rows[r] :
        /\ Len(row.number) >= 3
        /\ Len(row.number) > 3 => row.number[1] # 0
        /\ \/ ValueOf(row.number) \in RandomNumbers
           \/ /\ ValueOf(row.number) <= seq
              /\ ValueOf(row.number) > seq - Cardinality(Requests)
        /\ \A q \in Requests \ {r} : \A other \in rows[q] : other.number # row.number

(* A command line the documentation allows.                                *)
Documented(f) ==
    /\ f.logLevel \in LogLevels \cup {""}
    /\ CASE f.mode = "order-service"    -> f.maxConcurrent \in 1 .. 1000
         [] f.mode = "kitchen-worker"   -> /\ f.workerName \in 1 .. 100
                                           /\ f.heartbeat >= 5
                                           /\ TypesAreValid(f.orderTypes)
         [] f.mode = "tracking-service" -> f.port \in -1 .. MaxPort
         [] f.mode = "notification-subscriber" -> TRUE
         [] OTHER -> FALSE

(* config.go:131, kitchen-worker.go:28 and help.go:34: the documentation   *)
(* decides which command lines start a process.                            *)
StartsAsDocumented ==
    \A p \in Procs : run[p] # "new" => (run[p] = "up" <=> Documented(cmd[p]))

(* Where the code is known to differ: 0 orders at a time are accepted, 5   *)
(* seconds are not, and a tracking service that is given no port tries to  *)
(* listen at port -1.                                                      *)
AcceptedInstead(f) == f.mode = "order-service" /\ f.maxConcurrent = 0

RefusedInstead(f) ==
    \/ f.mode = "kitchen-worker" /\ f.heartbeat = 5
    \/ f.mode = "tracking-service" /\ f.port = -1

(* A process comes up exactly if its command line is documented, except    *)
(* for the known gaps, where it does the opposite; an order service        *)
(* listens at a usable port, and a worker consumes exactly the types it    *)
(* was asked for, each once: parseFlags, NewKitchen, ValidateOrderTypes.   *)
LaunchedAsDocumented ==
    \A p \in Procs : run[p] # "new" =>
        LET f == cmd[p]
            types == ValidateOrderTypes(f.orderTypes).types
        IN  /\ AcceptedInstead(f) => (run[p] = "up" <=> f.logLevel \in LogLevels \cup {""})
            /\ ~AcceptedInstead(f) => (run[p] = "up" <=> Documented(f) /\ ~RefusedInstead(f))
            /\ run[p] = "up" /\ f.mode = "order-service" => Port(f) \in 1024 .. MaxPort
            /\ run[p] = "up" /\ f.mode = "kitchen-worker" =>
                 /\ ToSet(types) = IF f.orderTypes = << >> THEN AllOrderTypes
                                   ELSE {f.orderTypes[i].word : i \in Words(f.orderTypes)}
                 /\ Len(types) = Cardinality(ToSet(types))
=============================================================================
