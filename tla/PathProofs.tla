----------------------------- MODULE PathProofs -----------------------------
(***************************************************************************)
(* Theorems about the path of an order: which processes come up, what is   *)
(* accepted, its number, price and priority, what the handler of a worker  *)
(* is given, and that it is given it once.                                 *)
(***************************************************************************)
EXTENDS OrderPath, RulesProofs

-----------------------------------------------------------------------------
(* The inductive invariant.                                                *)

IsSeq(s) == \E S : s \in Seq(S)

(* The shape of the state, as far as the proofs need it.                   *)
Shape ==
    /\ body \in [Requests -> Request]
    /\ \A r \in Requests : WellFormed(body[r])
    /\ run \in [Procs -> {"new", "up", "exited"}]
    /\ reply \in [Requests -> {"none", "service"} \cup Codes]
    /\ reqID = [r \in Requests |-> reqID[r]]
    /\ rows = [r \in Requests |-> rows[r]]
    /\ queue = [t \in AllOrderTypes |-> queue[t]]
    /\ \A t \in AllOrderTypes : IsSeq(queue[t])

(* An answer goes back to the verdict of the handler, only the service     *)
(* stores, and a request was made to a process that has its queues.        *)
VerdictInv ==
    /\ \A r \in Requests :
        /\ reply[r] \in {"400", "422"} => Verdict(r) = reply[r]
        /\ reply[r] \in {"service", "201", "429", "500"} => Verdict(r) = "service"
        /\ rows[r] # {} => reply[r] \in {"201", "500"}
        /\ reply[r] # "none" => run["orders"] = "up" /\ reqID[r] # NoID
    /\ run["orders"] = "up" => AllOrderTypes \subseteq bound

(* Orders have different numbers.                                          *)
NumbersDiffer ==
    \A q, r \in Requests : \A x \in rows[q], y \in rows[r] : q # r => x.number # y.number

(* Order o, in the queue t or with its handler, is that of request r.      *)
Carries(r, o, t, id) ==
    /\ reply[r] = "201"
    /\ rows[r] = {Row(o)}
    /\ o.items = body[r].items
    /\ o.type = t
    /\ id = reqID[r]

SentInv ==
    \A t \in AllOrderTypes : \A i \in DOMAIN queue[t] :
        \E r \in Requests :
            Carries(r, FromPublishToInternalOrder(queue[t][i]), t, queue[t][i].request)

HandledInv ==
    \A h \in handled : \E r \in Requests : Carries(r, h.order, h.consumer, h.request)

HandledAs(t, number) == {h \in handled : h.order.number = number /\ h.consumer = t}

(* An accepted order is in its queue once or was handled once.             *)
Once(t, number) ==
    \/ HandledAs(t, number) = {} /\ \E i : About(t, number) = {i}
    \/ About(t, number) = {} /\ \E h : HandledAs(t, number) = {h}

OnceInv ==
    \A r \in Requests : reply[r] = "201" =>
        \E row : rows[r] = {row} /\ row.type \in AllOrderTypes /\ Once(row.type, row.number)

Path == NumbersDiffer /\ SentInv /\ HandledInv /\ OnceInv

-----------------------------------------------------------------------------
(* Sequences of messages.                                                  *)

(* What Append does.                                                       *)
LEMMA AppendFacts ==
    ASSUME NEW s, IsSeq(s), NEW x
    PROVE  /\ IsSeq(Append(s, x))
           /\ Len(s) \in Nat /\ DOMAIN s = 1 .. Len(s)
           /\ DOMAIN Append(s, x) = 1 .. Len(s) + 1
           /\ Append(s, x)[Len(s) + 1] = x
           /\ \A i \in DOMAIN s : Append(s, x)[i] = s[i]
<1>1. PICK S : s \in Seq(S)
  BY DEF IsSeq
<1>2. s \in Seq(S \cup {x}) /\ x \in S \cup {x}
  BY <1>1
<1>3. Append(s, x) \in Seq(S \cup {x})
  BY <1>2
<1>. QED
  BY <1>2, <1>3 DEF IsSeq

(* What taking the first message does.                                     *)
LEMMA TailFacts ==
    ASSUME NEW s, IsSeq(s), s # << >>
    PROVE  /\ IsSeq(Tail(s))
           /\ Len(s) \in Nat /\ DOMAIN s = 1 .. Len(s) /\ 1 \in DOMAIN s
           /\ Head(s) = s[1]
           /\ DOMAIN Tail(s) = 1 .. Len(s) - 1
           /\ \A i \in DOMAIN Tail(s) : Tail(s)[i] = s[i + 1]
<1>1. PICK S : s \in Seq(S)
  BY DEF IsSeq
<1>2. Tail(s) \in Seq(S)
  BY <1>1
<1>. QED
  BY <1>1, <1>2 DEF IsSeq

-----------------------------------------------------------------------------
(* The conversions and the routing.                                        *)

(* An item without an error is one in range.                               *)
LEMMA ItemRules ==
    ASSUME NEW item, item.price \in Int
    PROVE  ItemErrors(item) = {} <=> ItemInRange(item)
<1>1. Check(item.price >= MinPrice /\ item.price <= MaxPrice, "item.Price") = {}
        <=> item.price \in MinPrice .. MaxPrice
  <2>1. MinPrice \in Int /\ MaxPrice \in Int
    BY SMT DEF MinPrice, MaxPrice
  <2>. QED
    BY <2>1 DEF Check
<1>2. Check(item.chars \in 1 .. 50, "item.name") = {} <=> item.chars \in 1 .. 50
  BY DEF Check
<1>3. Check(item.quantity \in 1 .. 10, "item.quantity") = {} <=> item.quantity \in 1 .. 10
  BY DEF Check
<1>4. ASSUME NEW A, NEW B, NEW C
      PROVE  A \cup B \cup C = {} <=> A = {} /\ B = {} /\ C = {}
  OBVIOUS
<1>. DEFINE name == Check(item.chars \in 1 .. 50, "item.name")
            quantity == Check(item.quantity \in 1 .. 10, "item.quantity")
            price == Check(item.price >= MinPrice /\ item.price <= MaxPrice, "item.Price")
<1>5. ItemErrors(item) = name \cup quantity \cup price
  BY DEF ItemErrors
<1>6. (name = {} <=> item.chars \in 1 .. 50) /\ (quantity = {} <=> item.quantity \in 1 .. 10)
      /\ (price = {} <=> item.price \in MinPrice .. MaxPrice)
  BY <1>1, <1>2, <1>3
<1>. HIDE DEF name, quantity, price
<1>. QED
  BY <1>4, <1>5, <1>6 DEF ItemInRange

(* What the code asks of the length of an address.                         *)
TenBytes(b) == \A a \in b.address : a.bytes >= 10

(* The checks of ValidateCreateOrderRequest are the documented rules, but  *)
(* for what is counted of an address.                                      *)
LEMMA RulesAreChecked ==
    ASSUME Shape, NEW r \in Requests
    PROVE  ValidateCreateOrderRequest(CreateOrder(r)) = {}
             <=> RulesButLength(body[r]) /\ TenBytes(body[r])
<1>. DEFINE b == body[r]
<1>1. b \in Request /\ AtMostOne(b.table)
  BY DEF Shape, WellFormed
<1>2. /\ CreateOrder(r).customer = b.customer /\ CreateOrder(r).type = b.type
      /\ CreateOrder(r).items = b.items /\ CreateOrder(r).table = b.table
      /\ CreateOrder(r).address = b.address
  BY DEF CreateOrder, FromRequestToInternalCreateOrder
<1>. HIDE DEF b
<1>3. \A ok, key : Check(ok, key) = {} <=> ok
  BY DEF Check
<1>4. ValidateCreateOrderRequest(CreateOrder(r)) = {} <=>
        /\ isValidCustomerName(b.customer)
        /\ b.type \in AllOrderTypes
        /\ vaildateOrdertype(CreateOrder(r)) = {}
        /\ Len(b.items) \in 1 .. 20
        /\ \A i \in DOMAIN b.items : ItemErrors(b.items[i]) = {}
  <2>. DEFINE name == Check(isValidCustomerName(b.customer), "customer_name")
              type == Check(b.type \in AllOrderTypes, "order_type")
              fields == vaildateOrdertype(CreateOrder(r))
              count == Check(Len(b.items) \in 1 .. 20, "items")
              each == UNION {ItemErrors(b.items[i]) : i \in DOMAIN b.items}
  <2>1. ValidateCreateOrderRequest(CreateOrder(r)) = name \cup type \cup fields \cup count \cup each
    BY <1>2 DEF ValidateCreateOrderRequest
  <2>2. name = {} <=> isValidCustomerName(b.customer)
    BY DEF Check
  <2>3. type = {} <=> b.type \in AllOrderTypes
    BY DEF Check
  <2>4. count = {} <=> Len(b.items) \in 1 .. 20
    BY DEF Check
  <2>5. each = {} <=> \A i \in DOMAIN b.items : ItemErrors(b.items[i]) = {}
    OBVIOUS
  <2>. HIDE DEF name, type, fields, count, each
  <2>6. name \cup type \cup fields \cup count \cup each = {} <=>
          name = {} /\ type = {} /\ fields = {} /\ count = {} /\ each = {}
    OBVIOUS
  <2>. QED
    BY <2>1, <2>2, <2>3, <2>4, <2>5, <2>6 DEF fields
<1>5. \A i \in DOMAIN b.items : ItemErrors(b.items[i]) = {} <=> ItemInRange(b.items[i])
  <2>1. b.items \in Seq([chars: Nat, quantity: Int, price: Int])
    BY <1>1 DEF Request
  <2>2. ASSUME NEW S, NEW s \in Seq(S), NEW i \in DOMAIN s
        PROVE  s[i] \in S
    OBVIOUS
  <2>3. \A i \in DOMAIN b.items : b.items[i] \in [chars: Nat, quantity: Int, price: Int]
    BY <2>1, <2>2, Zenon
  <2>4. \A i \in DOMAIN b.items : b.items[i].price \in Int
    BY <2>3
  <2>. QED
    BY <2>4, ItemRules
<1>6. b.type \in AllOrderTypes =>
        (vaildateOrdertype(CreateOrder(r)) = {} <=> FieldsFitType(b) /\ TenBytes(b))
  <2>1. b.table # {} /\ b.table \subseteq 1 .. 100 <=> \E n \in 1 .. 100 : b.table = {n}
    BY <1>1 DEF AtMostOne
  <2>2. CASE b.type = "dine_in"
    BY <1>2, <1>3, <2>1, <2>2 DEF vaildateOrdertype, FieldsFitType, TenBytes
  <2>3. CASE b.type = "takeout"
    BY <1>2, <1>3, <2>3 DEF vaildateOrdertype, FieldsFitType, TenBytes
  <2>4. CASE b.type = "delivery"
    BY <1>2, <1>3, <2>4 DEF vaildateOrdertype, FieldsFitType, TenBytes
  <2>. QED
    BY <2>2, <2>3, <2>4 DEF AllOrderTypes
<1>7. FieldsFitType(b) => b.type \in AllOrderTypes
  BY SMTT(40) DEF FieldsFitType, AllOrderTypes
<1>. QED
  BY <1>4, <1>5, <1>6, <1>7 DEF b, RulesButLength, isValidCustomerName

(* What CreateOrder makes of a request.                                    *)
LEMMA OrderFields ==
    ASSUME NEW r, NEW n, NEW total, NEW id
    PROVE  LET o == Order(r, n, total)
               m == FromInternalToPublishOrder(o, id)
           IN  /\ FromPublishToInternalOrder(m) = o
               /\ m.number = SetNumber(n) /\ m.request = id
               /\ o.number = SetNumber(n) /\ o.type = body[r].type
               /\ o.items = body[r].items
               /\ Row(o).number = SetNumber(n) /\ Row(o).type = body[r].type
  BY DEF Order, CreateOrder, FromRequestToInternalCreateOrder, FromInternalToPublishOrder,
         FromPublishToInternalOrder, Row

(* The number and the type of a row, a message and the handler's order.    *)
LEMMA SameFields ==
    ASSUME NEW o, NEW m
    PROVE  /\ Row(o).number = o.number /\ Row(o).type = o.type
           /\ FromPublishToInternalOrder(m).number = m.number
           /\ FromPublishToInternalOrder(m).type = m.type
           /\ FromPublishToInternalOrder(m).items = m.items
  BY DEF Row, FromPublishToInternalOrder

(* The topic exchange routes an order by its type.                         *)
LEMMA RoutedByType ==
    ASSUME NEW o, NEW t \in AllOrderTypes
    PROVE  KeyMatches(createOrderPublishedKey(o), getRoutingkeyByOrderType(t)) <=> o.type = t
  BY DEF KeyMatches, createOrderPublishedKey, getRoutingkeyByOrderType, AllOrderTypes

-----------------------------------------------------------------------------
(* Shape and verdicts.                                                     *)

(* The shape, at first.                                                    *)
LEMMA ShapeInit == Init => Shape
<1>. SUFFICES ASSUME Init PROVE Shape
  OBVIOUS
<1>1. /\ body \in [Requests -> Request]
      /\ \A r \in Requests : WellFormed(body[r])
  BY PathAssumption DEF Init
<1>2. << >> \in Seq({})
  OBVIOUS
<1>3. \A t \in AllOrderTypes : IsSeq(queue[t])
  BY <1>2 DEF Init, IsSeq
<1>. QED
  BY <1>1, <1>3 DEF Init, Shape

(* Every step keeps it: a queue only grows at its end and shrinks at its   *)
(* head.                                                                   *)
LEMMA ShapeStep == Shape /\ [Next]_vars => Shape'
<1>. SUFFICES ASSUME Shape, [Next]_vars PROVE Shape'
  OBVIOUS
<1>1. CASE UNCHANGED vars
  BY <1>1 DEF vars, Shape
<1>2. ASSUME NEW p \in Procs, Launch(p)
      PROVE  Shape'
  BY <1>2 DEF Launch, Shape
<1>3. ASSUME NEW r \in Requests, Submit(r)
      PROVE  Shape'
  BY <1>3 DEF Submit, Verdict, Shape, Codes
<1>4. ASSUME NEW r \in Requests, Create(r)
      PROVE  Shape'
  <2>1. PICK o : PublishCreateOrder(o, reqID[r])
    BY <1>4 DEF Create
  <2>2. \A t \in AllOrderTypes : IsSeq(queue'[t])
    BY <2>1, AppendFacts DEF PublishCreateOrder, Shape
  <2>3. queue' = [t \in AllOrderTypes |-> queue'[t]]
    BY <2>1 DEF PublishCreateOrder
  <2>. QED
    BY <1>4, <2>2, <2>3 DEF Create, Shape, Codes
<1>5. ASSUME NEW r \in Requests, CreateFails(r)
      PROVE  Shape'
  BY <1>5 DEF CreateFails, Shape, Codes
<1>6. ASSUME NEW t \in AllOrderTypes, Handle(t)
      PROVE  Shape'
  <2>1. IsSeq(Tail(queue[t]))
    BY <1>6, TailFacts DEF Handle, Shape
  <2>2. \A u \in AllOrderTypes : IsSeq(queue'[u])
    BY <1>6, <2>1 DEF Handle, Shape
  <2>. QED
    BY <1>6, <2>2 DEF Handle, Shape
<1>. QED
  BY <1>1, <1>2, <1>3, <1>4, <1>5, <1>6 DEF Next

(* Every step keeps the verdicts: the body of a request never changes.     *)
LEMMA VerdictStep == Shape /\ VerdictInv /\ [Next]_vars => VerdictInv'
<1>. SUFFICES ASSUME Shape, VerdictInv, [Next]_vars PROVE VerdictInv'
  OBVIOUS
<1>. USE DEF Shape
<1>1. UNCHANGED body
  BY DEF Next, vars, Launch, Submit, Create, CreateFails, Handle
<1>2. \A r : Verdict(r)' = Verdict(r)
  BY <1>1 DEF Verdict, readJSON, CreateOrder
<1>3. CASE UNCHANGED vars
  BY <1>2, <1>3 DEF vars, VerdictInv
<1>4. ASSUME NEW p \in Procs, Launch(p)
      PROVE  VerdictInv'
  <2>1. run["orders"] = "up" => run'["orders"] = "up"
    BY <1>4 DEF Launch
  <2>2. run'["orders"] = "up" => AllOrderTypes \subseteq bound'
    <3>1. CASE p = "orders"
      BY <1>4, <3>1 DEF Launch, BoundBy
    <3>2. CASE p # "orders"
      BY <1>4, <3>2 DEF Launch, VerdictInv
    <3>. QED
      BY <3>1, <3>2
  <2>. QED
    BY <1>2, <1>4, <2>1, <2>2 DEF Launch, VerdictInv
<1>5. ASSUME NEW r \in Requests, Submit(r)
      PROVE  VerdictInv'
  <2>1. RequestID(r) # NoID
    BY DEF RequestID, NoID
  <2>. QED
    BY <1>2, <1>5, <2>1 DEF Submit, Verdict, VerdictInv
<1>6. ASSUME NEW r \in Requests, Create(r) \/ CreateFails(r)
      PROVE  VerdictInv'
  <2>1. /\ reply[r] = "service" /\ UNCHANGED <<run, bound, reqID>>
        /\ \E answer \in {"201", "429", "500"} : reply' = [reply EXCEPT ![r] = answer]
        /\ \A q \in Requests \ {r} : rows'[q] = rows[q]
        /\ rows'[r] = rows[r] \/ reply'[r] \in {"201", "500"}
    BY <1>6 DEF Create, CreateFails
  <2>. QED
    BY <1>2, <2>1 DEF VerdictInv
<1>7. ASSUME NEW t \in AllOrderTypes, Handle(t)
      PROVE  VerdictInv'
  BY <1>2, <1>7 DEF Handle, VerdictInv
<1>. QED
  BY <1>3, <1>4, <1>5, <1>6, <1>7 DEF Next

-----------------------------------------------------------------------------
(* The path.                                                               *)

(* A request the handler passes on is for a type that has a queue.         *)
LEMMA ServiceIsRouted ==
    ASSUME Shape, VerdictInv, NEW r \in Requests, reply[r] = "service"
    PROVE  /\ body[r].type \in AllOrderTypes
           /\ AllOrderTypes \subseteq bound
           /\ rows[r] = {}
           /\ reqID[r] # NoID
<1>1. Verdict(r) = "service"
  BY DEF VerdictInv
<1>2. RulesButLength(body[r])
  BY <1>1, RulesAreChecked, SMTT(40) DEF Verdict
<1>3. body[r].type \in AllOrderTypes
  BY <1>2 DEF RulesButLength, FieldsFitType, AllOrderTypes
<1>. QED
  BY <1>3 DEF VerdictInv

(* A row with a free number keeps the numbers apart.                       *)
LEMMA NewNumberDiffers ==
    ASSUME Shape, NumbersDiffer, NEW r \in Requests, NEW n, NEW total,
           NumberIsFree(n), rows' = [rows EXCEPT ![r] = {Row(Order(r, n, total))}]
    PROVE  NumbersDiffer'
<1>1. Row(Order(r, n, total)).number = SetNumber(n)
  BY DEF Row, Order
<1>2. rows'[r] = {Row(Order(r, n, total))} /\ \A q \in Requests \ {r} : rows'[q] = rows[q]
  BY DEF Shape
<1>3. \A q \in Requests \ {r} : \A x \in rows'[q], y \in rows'[r] : x.number # y.number
  BY <1>1, <1>2 DEF NumberIsFree
<1>4. \A p, q \in Requests \ {r} : \A x \in rows'[p], y \in rows'[q] : p # q => x.number # y.number
  BY <1>2 DEF NumbersDiffer
<1>5. ASSUME NEW p \in Requests, NEW q \in Requests, NEW x \in rows'[p], NEW y \in rows'[q], p # q
      PROVE  x.number # y.number
  BY <1>3, <1>4, <1>5
<1>. QED
  BY <1>5 DEF NumbersDiffer

(* A step that leaves the queues, the handlers and the accepted orders as  *)
(* they are.                                                               *)
LEMMA PathFrame ==
    ASSUME Path, UNCHANGED <<body, queue, handled>>, NumbersDiffer',
           \A r \in Requests :
              /\ reply'[r] = "201" <=> reply[r] = "201"
              /\ reply[r] = "201" => rows'[r] = rows[r] /\ reqID'[r] = reqID[r]
    PROVE  Path'
<1>1. \A o, t, id : \A r \in Requests : Carries(r, o, t, id) => Carries(r, o, t, id)'
  BY DEF Carries
<1>2. SentInv'
  BY <1>1 DEF Path, SentInv
<1>3. HandledInv'
  BY <1>1 DEF Path, HandledInv
<1>4. \A t, number : Once(t, number)' <=> Once(t, number)
  BY DEF Once, About, HandledAs
<1>5. OnceInv'
  BY <1>4 DEF Path, OnceInv
<1>. QED
  BY <1>2, <1>3, <1>5 DEF Path

(* A number that no row has is in no queue and with no handler.            *)
LEMMA FreeIsUnused ==
    ASSUME SentInv, HandledInv, NEW n, NumberIsFree(n)
    PROVE  \A t \in AllOrderTypes : About(t, SetNumber(n)) = {} /\ HandledAs(t, SetNumber(n)) = {}
<1>1. \A o, t, id : \A r \in Requests : Carries(r, o, t, id) => o.number # SetNumber(n)
  BY SameFields DEF Carries, NumberIsFree
<1>2. \A t \in AllOrderTypes : About(t, SetNumber(n)) = {}
  BY <1>1, SameFields DEF SentInv, About
<1>3. \A t \in AllOrderTypes : HandledAs(t, SetNumber(n)) = {}
  BY <1>1 DEF HandledInv, HandledAs
<1>. QED
  BY <1>2, <1>3

(* CreateOrder puts the order into the queue of its type and no other.     *)
LEMMA CreateEffect ==
    ASSUME Shape, VerdictInv, NEW r \in Requests, NEW o, NEW id,
           reply[r] = "service", o.type = body[r].type, PublishCreateOrder(o, id)
    PROVE  queue' = [queue EXCEPT ![o.type] = Append(@, FromInternalToPublishOrder(o, id))]
<1>1. o.type \in AllOrderTypes /\ AllOrderTypes \subseteq bound
  BY ServiceIsRouted
<1>. QED
  BY <1>1, RoutedByType DEF PublishCreateOrder, Shape

(* CreateOrder keeps the path: its number is new, so the message it        *)
(* appends is the only one of that number, and no other order moves.       *)
LEMMA CreateKeepsPath ==
    ASSUME Shape, VerdictInv, Path, NEW r \in Requests, Create(r)
    PROVE  Path'
<1>1. PICK n, total :
        /\ NumberIsFree(n)
        /\ rows' = [rows EXCEPT ![r] = {Row(Order(r, n, total))}]
        /\ PublishCreateOrder(Order(r, n, total), reqID[r])
  BY DEF Create
<1>2. PICK o, m, T :
        /\ o = Order(r, n, total)
        /\ m = FromInternalToPublishOrder(o, reqID[r])
        /\ T = o.type
  OBVIOUS
<1>3. /\ reply[r] = "service" /\ reply' = [reply EXCEPT ![r] = "201"]
      /\ UNCHANGED <<body, reqID, handled>>
  BY DEF Create
<1>4. /\ FromPublishToInternalOrder(m) = o
      /\ m.number = SetNumber(n) /\ m.request = reqID[r]
      /\ o.number = SetNumber(n) /\ o.type = body[r].type
      /\ o.items = body[r].items
      /\ Row(o).number = SetNumber(n) /\ Row(o).type = o.type
  BY <1>2, OrderFields
<1>5. T \in AllOrderTypes
  BY <1>2, <1>3, <1>4, ServiceIsRouted
<1>6. queue' = [queue EXCEPT ![T] = Append(@, m)]
  BY <1>1, <1>2, <1>3, <1>4, CreateEffect
<1>7. /\ rows'[r] = {Row(o)} /\ reply'[r] = "201"
      /\ \A q \in Requests \ {r} : rows'[q] = rows[q] /\ reply'[q] = reply[q]
  BY <1>1, <1>2, <1>3 DEF Shape
<1>8. NumbersDiffer'
  BY <1>1, NewNumberDiffers DEF Path
<1>9. PICK last : last = Len(queue[T]) + 1
  OBVIOUS
<1>10. /\ Len(queue[T]) \in Nat /\ DOMAIN queue[T] = 1 .. Len(queue[T])
       /\ DOMAIN queue'[T] = 1 .. last /\ queue'[T][last] = m
       /\ \A i \in DOMAIN queue[T] : queue'[T][i] = queue[T][i]
       /\ \A t \in AllOrderTypes \ {T} : queue'[t] = queue[t]
  BY <1>5, <1>6, <1>9, AppendFacts DEF Shape
<1>11. \A x, t, id : \A q \in Requests : Carries(q, x, t, id) => Carries(q, x, t, id)'
  BY <1>3, <1>7 DEF Carries
<1>12. Carries(r, FromPublishToInternalOrder(m), T, m.request)'
  BY <1>2, <1>3, <1>4, <1>7 DEF Carries
<1>13. SentInv'
  <2>1. ASSUME NEW t \in AllOrderTypes, NEW i \in DOMAIN queue'[t]
        PROVE  \E q \in Requests :
                  Carries(q, FromPublishToInternalOrder(queue[t][i]), t, queue[t][i].request)'
    <3>1. CASE t = T /\ i = last
      <4>1. queue'[t][i] = m
        BY <1>10, <3>1
      <4>. QED
        BY <1>12, <3>1, <4>1
    <3>2. CASE ~(t = T /\ i = last)
      <4>1. i \in DOMAIN queue[t] /\ queue'[t][i] = queue[t][i]
        BY <1>9, <1>10, <2>1, <3>2
      <4>2. PICK q \in Requests :
              Carries(q, FromPublishToInternalOrder(queue[t][i]), t, queue[t][i].request)
        BY <4>1 DEF Path, SentInv
      <4>. QED
        BY <1>11, <4>1, <4>2
    <3>. QED
      BY <3>1, <3>2
  <2>. QED
    BY <2>1 DEF SentInv
<1>14. HandledInv'
  BY <1>3, <1>11 DEF Path, HandledInv
<1>15. \A t \in AllOrderTypes : About(t, SetNumber(n)) = {} /\ HandledAs(t, SetNumber(n)) = {}
  BY <1>1, FreeIsUnused DEF Path
<1>16. \A t, number : HandledAs(t, number)' = HandledAs(t, number)
  BY <1>3 DEF HandledAs
<1>17. Once(T, SetNumber(n))'
  <2>1. About(T, SetNumber(n))' = {last}
    <3>1. \A i \in DOMAIN queue[T] : queue'[T][i].number # SetNumber(n)
      BY <1>5, <1>10, <1>15 DEF About
    <3>. QED
      BY <1>4, <1>9, <1>10, <3>1 DEF About
  <2>. QED
    BY <1>5, <1>15, <1>16, <2>1 DEF Once
<1>18. \A number : \A t \in AllOrderTypes :
         number # SetNumber(n) => About(t, number)' = About(t, number)
  <2>1. ASSUME NEW t \in AllOrderTypes, NEW number, number # SetNumber(n), t = T
        PROVE  About(t, number)' = About(t, number)
    BY <1>4, <1>9, <1>10, <2>1 DEF About
  <2>2. ASSUME NEW t \in AllOrderTypes, NEW number, t # T
        PROVE  About(t, number)' = About(t, number)
    BY <1>10, <2>2 DEF About
  <2>. QED
    BY <2>1, <2>2
<1>19. OnceInv'
  <2>1. ASSUME NEW q \in Requests, reply'[q] = "201"
        PROVE  \E row : /\ rows'[q] = {row} /\ row.type \in AllOrderTypes
                        /\ Once(row.type, row.number)'
    <3>1. CASE q = r
      BY <1>2, <1>4, <1>5, <1>7, <1>17, <3>1
    <3>2. CASE q # r
      <4>1. PICK row : rows[q] = {row} /\ row.type \in AllOrderTypes /\ Once(row.type, row.number)
        BY <1>7, <2>1, <3>2 DEF Path, OnceInv
      <4>2. row.number # SetNumber(n)
        BY <1>1, <4>1 DEF NumberIsFree
      <4>3. Once(row.type, row.number)'
        BY <1>16, <1>18, <4>1, <4>2 DEF Once
      <4>. QED
        BY <1>7, <3>2, <4>1, <4>3
    <3>. QED
      BY <3>1, <3>2
  <2>. QED
    BY <2>1 DEF OnceInv
<1>. QED
  BY <1>8, <1>13, <1>14, <1>19 DEF Path

(* The handler is called with the first message of its queue.              *)
LEMMA CallOfHandler ==
    ASSUME Shape, NEW t \in AllOrderTypes, Handle(t)
    PROVE  \E m, h : /\ m = queue[t][1]
                     /\ handled' = handled \cup {h}
                     /\ h.order = FromPublishToInternalOrder(m) /\ h.consumer = t
                     /\ h.request = ContextID(t, m)
<1>1. PICK m : m = Head(queue[t])
  OBVIOUS
<1>2. m = queue[t][1]
  BY <1>1, TailFacts DEF Handle, Shape
<1>3. PICK h : h = [order |-> FromPublishToInternalOrder(m), consumer |-> t,
                    request |-> ContextID(t, m)]
  OBVIOUS
<1>4. handled' = handled \cup {h}
  BY <1>1, <1>3 DEF Handle
<1>. QED
  BY <1>2, <1>3, <1>4

(* An order that is in one place before a call of the handler is in one    *)
(* place after it.                                                         *)
LEMMA HandleKeepsOnce ==
    ASSUME Shape, NEW t \in AllOrderTypes, Handle(t),
           NEW u \in AllOrderTypes, NEW number, Once(u, number)
    PROVE  Once(u, number)'
<1>1. /\ queue[t] # << >>
      /\ queue' = [queue EXCEPT ![t] = Tail(queue[t])]
      /\ IsSeq(queue[t])
  BY DEF Handle, Shape
<1>2. PICK m, h :
        /\ m = queue[t][1]
        /\ handled' = handled \cup {h}
        /\ h.order = FromPublishToInternalOrder(m) /\ h.consumer = t
  BY <1>1, CallOfHandler
<1>3. h.order.number = m.number
  BY <1>2, SameFields
<1>4. PICK n \in Nat :
        /\ DOMAIN queue[t] = 1 .. n /\ 1 \in DOMAIN queue[t]
        /\ DOMAIN queue'[t] = 1 .. n - 1
        /\ \A i \in 1 .. n - 1 : queue'[t][i] = queue[t][i + 1]
  BY <1>1, TailFacts DEF Shape
<1>5. CASE u # t
  <2>1. About(u, number)' = About(u, number)
    BY <1>1, <1>5 DEF About, Shape
  <2>2. HandledAs(u, number)' = HandledAs(u, number)
    BY <1>2, <1>5 DEF HandledAs
  <2>. QED
    BY <2>1, <2>2 DEF Once
<1>6. CASE u = t /\ number # m.number
  <2>1. HandledAs(u, number)' = HandledAs(u, number)
    BY <1>2, <1>3, <1>6 DEF HandledAs
  <2>2. \A i : i \in About(u, number)' <=> i \in 1 .. n - 1 /\ i + 1 \in About(u, number)
    BY <1>4, <1>6 DEF About
  <2>3. \A i \in About(u, number) : i \in 2 .. n
    BY <1>2, <1>4, <1>6 DEF About
  <2>4. ASSUME NEW i, About(u, number) = {i}
        PROVE  About(u, number)' = {i - 1}
    BY <2>2, <2>3, <2>4
  <2>5. About(u, number) = {} => About(u, number)' = {}
    BY <2>2
  <2>. QED
    BY <2>1, <2>4, <2>5 DEF Once
<1>7. CASE u = t /\ number = m.number
  <2>1. 1 \in About(u, number)
    BY <1>2, <1>4, <1>7 DEF About
  <2>2. About(u, number) = {1} /\ HandledAs(u, number) = {}
    BY <2>1 DEF Once
  <2>3. About(u, number)' = {}
    <3>1. \A i \in 1 .. n - 1 : i + 1 \notin About(u, number)
      BY <2>2
    <3>2. \A i \in 1 .. n - 1 : i + 1 \in DOMAIN queue[u]
      BY <1>4, <1>7
    <3>3. \A i \in 1 .. n - 1 : queue'[u][i].number # number
      BY <1>4, <1>7, <3>1, <3>2 DEF About
    <3>. QED
      BY <1>4, <1>7, <3>3 DEF About
  <2>4. HandledAs(u, number)' = {h}
    BY <1>2, <1>3, <1>7, <2>2 DEF HandledAs
  <2>. QED
    BY <2>3, <2>4 DEF Once
<1>. QED
  BY <1>5, <1>6, <1>7

(* The handler keeps the path: the order at the head leaves the queue and  *)
(* is handled, and its id is the client's since no message lacks one.      *)
LEMMA HandleKeepsPath ==
    ASSUME Shape, VerdictInv, Path, NEW t \in AllOrderTypes, Handle(t)
    PROVE  Path'
<1>1. /\ queue[t] # << >>
      /\ queue' = [queue EXCEPT ![t] = Tail(queue[t])]
      /\ IsSeq(queue[t])
      /\ UNCHANGED <<body, reply, reqID, rows>>
  BY DEF Handle, Shape
<1>2. \A o, u, id : \A r \in Requests : Carries(r, o, u, id)' <=> Carries(r, o, u, id)
  BY <1>1 DEF Carries
<1>3. NumbersDiffer'
  BY <1>1 DEF Path, NumbersDiffer
<1>4. SentInv'
  <2>1. ASSUME NEW u \in AllOrderTypes, NEW i \in DOMAIN queue'[u]
        PROVE  \E j \in DOMAIN queue[u] : queue'[u][i] = queue[u][j]
    <3>1. CASE u = t
      <4>1. i + 1 \in DOMAIN queue[u] /\ queue'[u][i] = queue[u][i + 1]
        BY <1>1, <2>1, <3>1, TailFacts DEF Shape
      <4>. QED
        BY <4>1
    <3>2. CASE u # t
      BY <1>1, <2>1, <3>2 DEF Shape
    <3>. QED
      BY <3>1, <3>2
  <2>2. ASSUME NEW u \in AllOrderTypes, NEW i \in DOMAIN queue'[u]
        PROVE  \E r \in Requests :
                  Carries(r, FromPublishToInternalOrder(queue[u][i]), u, queue[u][i].request)'
    <3>1. PICK j \in DOMAIN queue[u] : queue'[u][i] = queue[u][j]
      BY <2>1
    <3>2. PICK r \in Requests :
            Carries(r, FromPublishToInternalOrder(queue[u][j]), u, queue[u][j].request)
      BY DEF Path, SentInv
    <3>. QED
      BY <1>2, <3>1, <3>2
  <2>. QED
    BY <2>2 DEF SentInv
<1>5. HandledInv'
  <2>1. PICK m, h :
          /\ m = queue[t][1]
          /\ handled' = handled \cup {h}
          /\ h.order = FromPublishToInternalOrder(m) /\ h.consumer = t
          /\ h.request = ContextID(t, m)
    BY <1>1, CallOfHandler
  <2>2. 1 \in DOMAIN queue[t]
    BY <1>1, TailFacts
  <2>3. PICK r \in Requests : Carries(r, FromPublishToInternalOrder(m), t, m.request)
    BY <2>1, <2>2 DEF Path, SentInv
  <2>4. reqID[r] # NoID
    BY <2>3 DEF Carries, VerdictInv
  <2>5. h.request = m.request
    BY <2>1, <2>3, <2>4 DEF Carries, ContextID
  <2>6. Carries(r, h.order, h.consumer, h.request)
    BY <2>1, <2>3, <2>5
  <2>. QED
    BY <1>2, <2>1, <2>6 DEF Path, HandledInv
<1>6. OnceInv'
  BY <1>1, HandleKeepsOnce DEF Path, OnceInv
<1>. QED
  BY <1>3, <1>4, <1>5, <1>6 DEF Path

(* Every step keeps the path.                                              *)
LEMMA PathStep == Shape /\ VerdictInv /\ Path /\ [Next]_vars => Path'
<1>. SUFFICES ASSUME Shape, VerdictInv, Path, [Next]_vars PROVE Path'
  OBVIOUS
<1>1. CASE UNCHANGED vars
  BY <1>1, PathFrame DEF vars, Path, NumbersDiffer
<1>2. ASSUME NEW p \in Procs, Launch(p)
      PROVE  Path'
  BY <1>2, PathFrame DEF Launch, Path, NumbersDiffer
<1>3. ASSUME NEW r \in Requests, Submit(r)
      PROVE  Path'
  <2>1. \A q \in Requests : /\ reply'[q] = "201" <=> reply[q] = "201"
                            /\ reply[q] = "201" => reqID'[q] = reqID[q]
    BY <1>3 DEF Submit, Verdict, Shape
  <2>2. NumbersDiffer'
    BY <1>3 DEF Submit, Path, NumbersDiffer
  <2>. QED
    BY <1>3, <2>1, <2>2, PathFrame DEF Submit
<1>4. ASSUME NEW r \in Requests, Create(r)
      PROVE  Path'
  BY <1>4, CreateKeepsPath
<1>5. ASSUME NEW r \in Requests, CreateFails(r)
      PROVE  Path'
  <2>1. /\ reply[r] = "service" /\ UNCHANGED <<body, reqID, queue, handled>>
        /\ \E answer \in {"429", "500"} : reply' = [reply EXCEPT ![r] = answer]
        /\ \A q \in Requests \ {r} : rows'[q] = rows[q]
    BY <1>5 DEF CreateFails, Shape
  <2>2. NumbersDiffer'
    <3>1. CASE UNCHANGED rows
      BY <3>1 DEF Path, NumbersDiffer
    <3>2. CASE rows' # rows
      <4>1. PICK n, total :
              NumberIsFree(n) /\ rows' = [rows EXCEPT ![r] = {Row(Order(r, n, total))}]
        BY <1>5, <3>2 DEF CreateFails
      <4>. QED
        BY <4>1, NewNumberDiffers DEF Path
    <3>. QED
      BY <3>1, <3>2
  <2>3. \A q \in Requests : /\ reply'[q] = "201" <=> reply[q] = "201"
                            /\ reply[q] = "201" => rows'[q] = rows[q] /\ reqID'[q] = reqID[q]
    BY <2>1 DEF Shape
  <2>. QED
    BY <2>1, <2>2, <2>3, PathFrame
<1>6. ASSUME NEW t \in AllOrderTypes, Handle(t)
      PROVE  Path'
  BY <1>6, HandleKeepsPath
<1>. QED
  BY <1>1, <1>2, <1>3, <1>4, <1>5, <1>6 DEF Next

PathInv == Shape /\ VerdictInv /\ Path

(* The inductive invariant holds.                                          *)
LEMMA PathInvHolds == Spec => []PathInv
<1>1. Init => PathInv
  <2>. SUFFICES ASSUME Init PROVE PathInv
    OBVIOUS
  <2>1. VerdictInv
    BY DEF Init, VerdictInv, Procs
  <2>2. NumbersDiffer /\ SentInv /\ HandledInv /\ OnceInv
    BY DEF Init, NumbersDiffer, SentInv, HandledInv, OnceInv
  <2>. QED
    BY <2>1, <2>2, ShapeInit DEF PathInv, Path
<1>2. PathInv /\ [Next]_vars => PathInv'
  BY ShapeStep, VerdictStep, PathStep DEF PathInv
<1>. QED
  BY <1>1, <1>2, PTL DEF Spec

-----------------------------------------------------------------------------
(* The theorems.                                                           *)

(* An order is stored only if its request meets the documented rules, and  *)
(* a request that does is never turned away for them: every check of       *)
(* ValidateCreateOrderRequest is one of the rules, and no rule lacks one,  *)
(* except that of an address bytes are counted, not characters.            *)
THEOREM OnlyTheRules == Spec => []AcceptedByTheRules
<1>1. PathInv => AcceptedByTheRules
  <2>. SUFFICES ASSUME PathInv, NEW r \in Requests
                PROVE  LET decoded == body[r].json = "object"
                       IN  /\ rows[r] # {} =>
                                decoded /\ (MeetsTheRules(body[r]) \/ ShortWithTenBytes(body[r]))
                           /\ decoded /\ MeetsTheRules(body[r]) => reply[r] \notin {"400", "422"}
    BY DEF AcceptedByTheRules
  <2>1. Verdict(r) = "service" <=>
          body[r].json = "object" /\ RulesButLength(body[r]) /\ TenBytes(body[r])
    BY RulesAreChecked DEF PathInv, Verdict, readJSON
  <2>2. /\ \A a \in body[r].address : a.chars \in Nat /\ a.bytes \in Nat /\ a.chars <= a.bytes
        /\ \A a, b \in body[r].address : a = b
    BY DEF PathInv, Shape, Request, WellFormed, AtMostOne
  <2>3. RulesButLength(body[r]) /\ TenBytes(body[r])
          => MeetsTheRules(body[r]) \/ ShortWithTenBytes(body[r])
    BY <2>2 DEF TenBytes, MeetsTheRules, ShortWithTenBytes
  <2>4. MeetsTheRules(body[r]) => RulesButLength(body[r]) /\ TenBytes(body[r])
    BY <2>2 DEF TenBytes, MeetsTheRules
  <2>. QED
    BY <2>1, <2>3, <2>4 DEF PathInv, VerdictInv
<1>. QED
  BY <1>1, PathInvHolds, PTL

(* The handler is given the order that was stored for some request.        *)
THEOREM NothingIsLost == Spec => []HandlerGetsTheOrder
<1>1. PathInv => HandlerGetsTheOrder
  BY DEF PathInv, Path, HandledInv, Carries, HandlerGetsTheOrder
<1>. QED
  BY <1>1, PathInvHolds, PTL

(* What is known of the order of number that is stored for request r.      *)
LEMMA OneOrderPerNumber ==
    ASSUME NumbersDiffer, NEW r \in Requests, NEW row \in rows[r],
           NEW q \in Requests, NEW o, NEW t, NEW id, Carries(q, o, t, id),
           o.number = row.number
    PROVE  q = r /\ t = row.type
<1>1. rows[q] = {Row(o)} /\ Row(o).number = row.number /\ Row(o).type = t
  BY SameFields DEF Carries
<1>2. q = r
  BY <1>1 DEF NumbersDiffer
<1>. QED
  BY <1>1, <1>2

(* The updates about an order carry the id that its client was told.       *)
THEOREM TracedToItsRequest == Spec => []RequestIsTraced
<1>1. PathInv => RequestIsTraced
  <2>. SUFFICES ASSUME PathInv, NEW h \in handled, NEW r \in Requests,
                       NEW row \in rows[r], row.number = h.order.number
                PROVE  h.request = reqID[r]
    BY DEF RequestIsTraced
  <2>1. PICK q \in Requests : Carries(q, h.order, h.consumer, h.request)
    BY DEF PathInv, Path, HandledInv
  <2>2. q = r
    BY <2>1, OneOrderPerNumber DEF PathInv, Path
  <2>. QED
    BY <2>1, <2>2 DEF Carries
<1>. QED
  BY <1>1, PathInvHolds, PTL

(* An accepted order is in one queue once, or was handled once, and is     *)
(* nowhere else.                                                           *)
THEOREM OnePlaceForAnOrder == Spec => []ReachesItsKitchen
<1>1. PathInv => ReachesItsKitchen
  <2>. SUFFICES ASSUME PathInv, NEW r \in Requests, reply[r] = "201",
                       NEW row \in rows[r], NEW t \in AllOrderTypes
                PROVE  Cardinality(About(t, row.number)) + Cardinality(HandledAs(t, row.number))
                         = (IF t = row.type THEN 1 ELSE 0)
    BY DEF ReachesItsKitchen, HandledAs
  <2>1. \A x : Cardinality({x}) = 1
    BY FS_Singleton
  <2>2. Cardinality({}) = 0
    BY FS_EmptySet
  <2>3. CASE t = row.type
    <3>1. Once(t, row.number)
      BY <2>3 DEF PathInv, Path, OnceInv
    <3>2. CASE HandledAs(t, row.number) = {} /\ \E i : About(t, row.number) = {i}
      BY <2>1, <2>2, <2>3, <3>2
    <3>3. CASE About(t, row.number) = {} /\ \E h : HandledAs(t, row.number) = {h}
      <4>1. Cardinality(About(t, row.number)) = 0
        BY <2>2, <3>3
      <4>2. Cardinality(HandledAs(t, row.number)) = 1
        BY <2>1, <3>3
      <4>. QED
        BY <2>3, <4>1, <4>2
    <3>. QED
      BY <3>1, <3>2, <3>3 DEF Once
  <2>4. CASE t # row.type
    <3>1. About(t, row.number) = {}
      <4>1. ASSUME NEW i \in DOMAIN queue[t], queue[t][i].number = row.number
            PROVE  FALSE
        <5>1. PICK q \in Requests :
                Carries(q, FromPublishToInternalOrder(queue[t][i]), t, queue[t][i].request)
          BY DEF PathInv, Path, SentInv
        <5>. QED
          BY <2>4, <4>1, <5>1, SameFields, OneOrderPerNumber DEF PathInv, Path
      <4>. QED
        BY <4>1 DEF About
    <3>2. HandledAs(t, row.number) = {}
      <4>1. ASSUME NEW h \in handled, h.order.number = row.number, h.consumer = t
            PROVE  FALSE
        <5>1. PICK q \in Requests : Carries(q, h.order, h.consumer, h.request)
          BY DEF PathInv, Path, HandledInv
        <5>. QED
          BY <2>4, <4>1, <5>1, OneOrderPerNumber DEF PathInv, Path
      <4>. QED
        BY <4>1 DEF HandledAs
    <3>. QED
      BY <2>2, <2>4, <3>1, <3>2
  <2>. QED
    BY <2>3, <2>4
<1>. QED
  BY <1>1, PathInvHolds, PTL

-----------------------------------------------------------------------------
(* The processes.                                                          *)

(* A process came up exactly if its command line was accepted and it could *)
(* listen; no queue is bound for anything but an order type.               *)
StartInv ==
    /\ cmd \in [Procs -> Flags]
    /\ \A p \in Procs : cmd[p].mode \in Modes => cmd[p].mode = ModeOf(p)
    /\ bound \subseteq AllOrderTypes
    /\ DOMAIN ctxID = AllOrderTypes
    /\ \A p \in Procs : run[p] # "new" =>
          (run[p] = "up" <=> /\ Launches(cmd[p])
                             /\ HasServer(cmd[p]) => CanListen(Port(cmd[p])))

(* The entries of --order-types are a sequence.                            *)
LEMMA FlagsHaveTypes ==
    ASSUME NEW f \in Flags
    PROVE  /\ f.orderTypes \in Seq(Entry)
           /\ f.port \in Int /\ f.maxConcurrent \in Int /\ f.workerName \in Nat
           /\ f.heartbeat \in Int
  BY DEF Flags, Entry

(* A worker that starts binds queues of order types only.                  *)
LEMMA BindsOrderTypes ==
    ASSUME StartInv, NEW p \in Procs, Launches(cmd[p])
    PROVE  BoundBy(p) \subseteq AllOrderTypes
<1>1. CASE p = "kitchen"
  <2>1. PICK f \in Flags : f = cmd[p]
    BY DEF StartInv
  <2>2. f.mode = "kitchen-worker"
    BY <1>1, <2>1, ZenonT(60) DEF StartInv, Launches, FlagsAccepted, ModeOf
  <2>3. f.orderTypes \in Seq(Entry)
    BY FlagsHaveTypes
  <2>4. ValidateOrderTypes(f.orderTypes).err = ""
    BY <2>1, <2>2 DEF Launches, KitchenAccepted
  <2>5. TypesAreValid(f.orderTypes)
    BY <2>3, <2>4, TypesReadAsDocumented
  <2>6. ToSet(ValidateOrderTypes(f.orderTypes).types)
          = IF f.orderTypes = << >> THEN AllOrderTypes
            ELSE {f.orderTypes[i].word : i \in Words(f.orderTypes)}
    BY <2>3, <2>4, TypesReadAsDocumented
  <2>7. ToSet(ValidateOrderTypes(f.orderTypes).types) \subseteq AllOrderTypes
    BY <2>5, <2>6 DEF TypesAreValid
  <2>8. BoundBy(p) = ToSet(ValidateOrderTypes(f.orderTypes).types)
    BY <1>1, <2>1 DEF BoundBy, HandledTypes
  <2>. QED
    BY <2>7, <2>8
<1>2. CASE p # "kitchen"
  BY <1>2 DEF BoundBy
<1>. QED
  BY <1>1, <1>2

(* Every step keeps it: a command line never changes.                      *)
LEMMA StartStep == Shape /\ StartInv /\ [Next]_vars => StartInv'
<1>. SUFFICES ASSUME Shape, StartInv, [Next]_vars PROVE StartInv'
  OBVIOUS
<1>1. UNCHANGED cmd
  BY DEF Next, vars, Launch, Submit, Create, CreateFails, Handle
<1>2. ASSUME NEW p \in Procs, Launch(p)
      PROVE  StartInv'
  <2>1. bound' \subseteq AllOrderTypes
    <3>1. CASE Launches(cmd[p])
      BY <1>2, <3>1, BindsOrderTypes DEF Launch, StartInv
    <3>2. CASE ~Launches(cmd[p])
      BY <1>2, <3>2 DEF Launch, StartInv
    <3>. QED
      BY <3>1, <3>2
  <2>2. PICK up \in BOOLEAN :
          up <=> Launches(cmd[p]) /\ (HasServer(cmd[p]) => CanListen(Port(cmd[p])))
    OBVIOUS
  <2>3. run' = [run EXCEPT ![p] = IF up THEN "up" ELSE "exited"]
    BY <1>2, <2>2 DEF Launch
  <2>4. \A q \in Procs : run'[q] # "new" =>
          (run'[q] = "up" <=> /\ Launches(cmd[q])
                              /\ HasServer(cmd[q]) => CanListen(Port(cmd[q])))
    BY <2>2, <2>3 DEF Shape, StartInv
  <2>5. UNCHANGED ctxID
    BY <1>2 DEF Launch
  <2>. QED
    BY <1>1, <2>1, <2>4, <2>5 DEF StartInv
<1>3. CASE UNCHANGED <<run, bound>> /\ DOMAIN ctxID' = DOMAIN ctxID
  BY <1>1, <1>3 DEF StartInv
<1>. QED
  BY <1>2, <1>3 DEF Next, vars, Submit, Create, CreateFails, Handle

-----------------------------------------------------------------------------
(* The rows.                                                               *)

(* Requests that can still take a number.                                  *)
Open == {q \in Requests : reply[q] \in {"none", "service"}}

(* A number of the sequence that is not further back than the requests     *)
(* that have ended since.                                                  *)
Recent(n) == n <= seq /\ n + Cardinality(Requests) > seq + Cardinality(Open)

(* A row is that of its request's order, with a number that was random or  *)
(* is recent, and one of the totals that CalucalteTotalAmount can return.  *)
RowInv ==
    /\ seq \in Nat
    /\ \A r \in Requests : \A row \in rows[r] :
          \E n \in Nat : \E total \in TotalAmounts(body[r].items) :
              /\ row = Row(Order(r, n, total))
              /\ n \in RandomNumbers \/ Recent(n)

(* Open requests can be counted, and an ended one is not among them.       *)
LEMMA OpenCount ==
    /\ Cardinality(Requests) \in Nat /\ Cardinality(Open) \in Nat
    /\ \A r \in Open : /\ Cardinality(Open \ {r}) = Cardinality(Open) - 1
                       /\ Cardinality(Open) <= Cardinality(Requests)
<1>1. IsFiniteSet(Requests) /\ Open \subseteq Requests
  BY PathAssumption DEF Open
<1>2. IsFiniteSet(Open) /\ Cardinality(Open) <= Cardinality(Requests)
  BY <1>1, FS_Subset
<1>. QED
  BY <1>1, <1>2, FS_CardinalityType, FS_RemoveElement

(* A row that was recent stays recent, if a number is only taken by a      *)
(* request that ends.                                                      *)
LEMMA StaysRecent ==
    ASSUME Shape, RowInv, NEW r \in Open, Open' = Open \ {r}, seq' \in {seq, seq + 1},
           NEW n \in Nat
    PROVE  /\ Recent(n) => Recent(n)'
           /\ n = seq' => Recent(n)'
<1>1. PICK c, o \in Nat : c = Cardinality(Requests) /\ o = Cardinality(Open)
  BY OpenCount
<1>2. Cardinality(Open') = o - 1 /\ o <= c
  BY <1>1, OpenCount
<1>3. PICK now, then \in Nat : now = seq /\ then = seq' /\ then \in {now, now + 1}
  BY DEF RowInv
<1>4. Recent(n) <=> n <= now /\ n + c > now + o
  BY <1>1, <1>3 DEF Recent
<1>5. Recent(n)' <=> n <= then /\ n + c > then + (o - 1)
  BY <1>1, <1>2, <1>3 DEF Recent
<1>6. n <= now /\ n + c > now + o => n <= then /\ n + c > then + (o - 1)
  <2>1. CASE then = now
    BY <2>1
  <2>2. CASE then = now + 1
    BY <2>2
  <2>. QED
    BY <1>3, <2>1, <2>2
<1>7. n = then => n <= then /\ n + c > then + (o - 1)
  BY <1>2
<1>. QED
  BY <1>3, <1>4, <1>5, <1>6, <1>7

(* A step that ends a request and may store its row.                       *)
LEMMA EndKeepsRows ==
    ASSUME Shape, RowInv, NEW r \in Requests, reply[r] = "service",
           NEW answer, answer \notin {"none", "service"},
           reply' = [reply EXCEPT ![r] = answer], UNCHANGED body,
           NEW n \in Nat, NEW total \in TotalAmounts(body[r].items),
           \/ seq' = seq + 1 /\ n = seq'
           \/ seq' \in {seq, seq + 1} /\ n \in RandomNumbers,
           \/ UNCHANGED rows
           \/ rows' = [rows EXCEPT ![r] = {Row(Order(r, n, total))}]
    PROVE  RowInv'
<1>1. r \in Open /\ Open' = Open \ {r}
  BY DEF Open, Shape
<1>2. seq' \in {seq, seq + 1} /\ seq' \in Nat
  BY DEF RowInv
<1>3. n \in RandomNumbers \/ Recent(n)'
  <2>1. n = seq' => Recent(n)'
    BY <1>1, <1>2, StaysRecent
  <2>. QED
    BY <2>1
<1>4. \A q, k, t : Row(Order(q, k, t))' = Row(Order(q, k, t))
  BY DEF Row, Order, CreateOrder
<1>5. ASSUME NEW q \in Requests, NEW row \in rows'[q]
      PROVE  \E k \in Nat : \E t \in TotalAmounts(body[q].items) :
               /\ row = Row(Order(q, k, t))
               /\ k \in RandomNumbers \/ Recent(k)'
  <2>1. CASE row \in rows[q]
    <3>1. PICK k \in Nat, t \in TotalAmounts(body[q].items) :
            /\ row = Row(Order(q, k, t))
            /\ k \in RandomNumbers \/ Recent(k)
      BY <2>1 DEF RowInv
    <3>2. Recent(k) => Recent(k)'
      BY <1>1, <1>2, StaysRecent
    <3>. QED
      BY <3>1, <3>2
  <2>2. CASE row \notin rows[q]
    <3>1. q = r /\ row = Row(Order(r, n, total))
      BY <1>5, <2>2 DEF Shape
    <3>. QED
      BY <1>3, <3>1
  <2>. QED
    BY <2>1, <2>2
<1>. QED
  BY <1>2, <1>4, <1>5 DEF RowInv

(* Every step keeps the rows.                                              *)
LEMMA RowStep == Shape /\ RowInv /\ [Next]_vars => RowInv'
<1>. SUFFICES ASSUME Shape, RowInv, [Next]_vars PROVE RowInv'
  OBVIOUS
<1>1. ASSUME UNCHANGED <<body, rows, seq>>, Open' = Open
      PROVE  RowInv'
  <2>1. \A q, k, t : Row(Order(q, k, t))' = Row(Order(q, k, t))
    BY <1>1 DEF Row, Order, CreateOrder
  <2>2. \A k : Recent(k)' <=> Recent(k)
    BY <1>1 DEF Recent
  <2>. QED
    BY <1>1, <2>1, <2>2 DEF RowInv
<1>2. ASSUME UNCHANGED vars \/ (\E p \in Procs : Launch(p)) \/ (\E t \in AllOrderTypes : Handle(t))
      PROVE  RowInv'
  <2>1. UNCHANGED <<body, rows, seq, reply>>
    BY <1>2 DEF vars, Launch, Handle
  <2>2. Open' = Open
    BY <2>1 DEF Open
  <2>. QED
    BY <1>1, <2>1, <2>2
<1>3. ASSUME NEW r \in Requests, Submit(r)
      PROVE  RowInv'
  <2>1. UNCHANGED <<body, rows, seq>>
    BY <1>3 DEF Submit
  <2>2. CASE Verdict(r) = "service"
    <3>1. Open' = Open
      BY <1>3, <2>2 DEF Submit, Open, Shape
    <3>. QED
      BY <1>1, <2>1, <3>1
  <2>3. CASE Verdict(r) # "service"
    <3>1. r \in Open /\ Open' = Open \ {r}
      BY <1>3, <2>3 DEF Submit, Open, Shape, Verdict
    <3>2. \A q, k, t : Row(Order(q, k, t))' = Row(Order(q, k, t))
      BY <2>1 DEF Row, Order, CreateOrder
    <3>3. \A k \in Nat : Recent(k) => Recent(k)'
      BY <2>1, <3>1, StaysRecent
    <3>. QED
      BY <2>1, <3>2, <3>3 DEF RowInv
  <2>. QED
    BY <2>2, <2>3
<1>4. ASSUME NEW n \in RandomNumbers \cup {seq + 1}
      PROVE  n \in Nat
  <2>1. RandomNumbers \subseteq Nat
    BY PathAssumption, Zenon
  <2>2. seq \in Nat
    BY DEF RowInv
  <2>. QED
    BY <1>4, <2>1, <2>2
<1>5. \A r : CreateOrder(r).items = body[r].items
  BY DEF CreateOrder, FromRequestToInternalCreateOrder
<1>6. ASSUME NEW r \in Requests, Create(r)
      PROVE  RowInv'
  <2>1. PICK n \in RandomNumbers \cup {seq + 1}, total \in TotalAmounts(body[r].items) :
          /\ TakeNumber(n)
          /\ rows' = [rows EXCEPT ![r] = {Row(Order(r, n, total))}]
    BY <1>5, <1>6 DEF Create
  <2>2. n \in Nat
    BY <1>4
  <2>3. reply[r] = "service" /\ reply' = [reply EXCEPT ![r] = "201"] /\ UNCHANGED body
    BY <1>6 DEF Create
  <2>4. \/ seq' = seq + 1 /\ n = seq'
        \/ seq' \in {seq, seq + 1} /\ n \in RandomNumbers
    BY <2>1 DEF TakeNumber
  <2>. QED
    BY <2>1, <2>2, <2>3, <2>4, EndKeepsRows
<1>7. ASSUME NEW r \in Requests, CreateFails(r)
      PROVE  RowInv'
  <2>1. reply[r] = "service" /\ UNCHANGED body
    BY <1>7 DEF CreateFails
  <2>2. CASE reply' = [reply EXCEPT ![r] = "429"] /\ UNCHANGED <<seq, rows>>
    <3>1. r \in Open /\ Open' = Open \ {r}
      BY <2>1, <2>2 DEF Open, Shape
    <3>2. \A q, k, t : Row(Order(q, k, t))' = Row(Order(q, k, t))
      BY <2>1 DEF Row, Order, CreateOrder
    <3>3. \A k \in Nat : Recent(k) => Recent(k)'
      BY <2>2, <3>1, StaysRecent
    <3>. QED
      BY <2>1, <2>2, <3>2, <3>3 DEF RowInv
  <2>3. CASE reply' = [reply EXCEPT ![r] = "500"] /\
             \E n \in RandomNumbers \cup {seq + 1}, total \in TotalAmounts(body[r].items) :
                /\ TakeNumber(n)
                /\ UNCHANGED rows \/ rows' = [rows EXCEPT ![r] = {Row(Order(r, n, total))}]
    <3>1. PICK n \in RandomNumbers \cup {seq + 1}, total \in TotalAmounts(body[r].items) :
                /\ TakeNumber(n)
                /\ UNCHANGED rows \/ rows' = [rows EXCEPT ![r] = {Row(Order(r, n, total))}]
      BY <2>3
    <3>2. n \in Nat
      BY <1>4
    <3>3. \/ seq' = seq + 1 /\ n = seq'
          \/ seq' \in {seq, seq + 1} /\ n \in RandomNumbers
      BY <3>1 DEF TakeNumber
    <3>. QED
      BY <2>1, <2>3, <3>1, <3>2, <3>3, EndKeepsRows
  <2>. QED
    BY <1>5, <1>7, <2>2, <2>3 DEF CreateFails
<1>. QED
  BY <1>2, <1>3, <1>6, <1>7 DEF Next

ValuesInv == PathInv /\ StartInv /\ RowInv

(* Both hold, beside the invariant of the path.                            *)
LEMMA ValuesInvHolds == Spec => []ValuesInv
<1>1. Init => StartInv /\ RowInv
  <2>. SUFFICES ASSUME Init PROVE StartInv /\ RowInv
    OBVIOUS
  <2>1. /\ cmd \in [Procs -> Flags] /\ seq \in Nat
        /\ \A p \in Procs : cmd[p].mode \in Modes => cmd[p].mode = ModeOf(p)
    BY PathAssumption DEF Init
  <2>2. StartInv
    BY <2>1 DEF Init, StartInv
  <2>3. RowInv
    BY <2>1 DEF Init, RowInv
  <2>. QED
    BY <2>2, <2>3
<1>2. PathInv /\ StartInv /\ RowInv /\ [Next]_vars => (StartInv /\ RowInv)'
  BY StartStep, RowStep, SMTT(40) DEF PathInv
<1>. QED
  BY <1>1, <1>2, PathInvHolds, PTL DEF Spec, ValuesInv

-----------------------------------------------------------------------------
(* What is stored.                                                         *)

(* The items and the type of what is stored meet the rules.                *)
LEMMA StoredMeetsTheRules ==
    ASSUME PathInv, NEW r \in Requests, rows[r] # {}
    PROVE  /\ body[r].items \in Seq(Item)
           /\ body[r].type \in AllOrderTypes
           /\ \A i \in 1 .. Len(body[r].items) :
                 /\ body[r].items[i].quantity \in 1 .. 10
                 /\ body[r].items[i].price >= 0
<1>1. Verdict(r) = "service"
  BY DEF PathInv, VerdictInv
<1>2. RulesButLength(body[r])
  BY <1>1, RulesAreChecked DEF PathInv, Verdict
<1>3. body[r].items \in Seq(Item)
  BY DEF PathInv, Shape, Request, Item
<1>4. \A i \in 1 .. Len(body[r].items) :
        body[r].items[i].quantity \in 1 .. 10 /\ body[r].items[i].price \in MinPrice .. MaxPrice
  BY <1>2, <1>3, CostsAreNumbers DEF RulesButLength, ItemInRange
<1>5. \A x \in MinPrice .. MaxPrice : x >= 0
  <2>1. MinPrice \in Nat /\ MaxPrice \in Nat
    BY SMT DEF MinPrice, MaxPrice
  <2>. QED
    BY <2>1
<1>. QED
  BY <1>2, <1>3, <1>4, <1>5 DEF RulesButLength, FieldsFitType, AllOrderTypes

(* Cost is what the loop of CalucalteTotalAmount computes.                 *)
LEMMA CostIsExactTotal ==
    ASSUME NEW items \in Seq(Item)
    PROVE  Cost(items) = ExactTotal(items) /\ Cost(items) \in Int
<1>1. /\ Len(items) \in Nat /\ DOMAIN items = 1 .. Len(items)
      /\ Costs(items) \in [1 .. Len(items) -> Int]
  BY CostsAreNumbers
<1>2. Cost(items) = SumFunction(Costs(items))
  BY <1>1 DEF Cost, Costs
<1>3. PICK p : PartialSums(Len(items), Costs(items), p) /\ ExactTotal(items) = p[Len(items)]
  BY LoopAddsUp
<1>4. PICK q : PartialSums(Len(items), Costs(items), q) /\ SumFunction(Costs(items)) = q[Len(items)]
  BY <1>1, FoldAddsUp
<1>5. p[Len(items)] = q[Len(items)]
  BY <1>1, <1>3, <1>4, SameTermsSameSum
<1>6. p[Len(items)] \in Int
  BY <1>1, <1>3 DEF PartialSums
<1>. QED
  BY <1>2, <1>3, <1>4, <1>5, <1>6

(* Prices and quantities that are not negative add up to such a total.     *)
LEMMA CostIsNotNegative ==
    ASSUME NEW items \in Seq(Item),
           \A i \in 1 .. Len(items) : items[i].quantity \in 1 .. 10 /\ items[i].price >= 0
    PROVE  ExactTotal(items) \in Nat
<1>1. /\ Len(items) \in Nat /\ Costs(items) \in [1 .. Len(items) -> Int]
      /\ \A i \in 1 .. Len(items) : items[i].price \in Int
  BY CostsAreNumbers
<1>2. PICK p : PartialSums(Len(items), Costs(items), p) /\ ExactTotal(items) = p[Len(items)]
  BY LoopAddsUp
<1>3. \A i \in 1 .. Len(items) : Costs(items)[i] >= 0
  <2>1. \A x, y \in Nat : x * y \in Nat
    OBVIOUS
  <2>2. ASSUME NEW i \in 1 .. Len(items)
        PROVE  Costs(items)[i] >= 0
    <3>1. items[i].price \in Nat /\ items[i].quantity \in Nat
      BY <1>1, SMTT(40)
    <3>2. items[i].price * items[i].quantity \in Nat
      BY <2>1, <3>1
    <3>3. Costs(items)[i] = items[i].price * items[i].quantity
      BY DEF Costs
    <3>. QED
      BY <3>2, <3>3
  <2>. QED
    BY <2>2
<1>4. p[Len(items)] >= 0
  BY <1>1, <1>2, <1>3, NonNegativeSum
<1>5. p[Len(items)] \in Int
  BY <1>1, <1>2 DEF PartialSums
<1>. QED
  BY <1>2, <1>4, <1>5

(* A total that CalucalteTotalAmount can return.                           *)
LEMMA TotalFacts ==
    ASSUME NEW items, NEW total \in TotalAmounts(items)
    PROVE  /\ total.exact = ExactTotal(items) /\ total.err \in {-1, 0, 1}
           /\ SumIsExact(items) => total.err = 0
  BY DEF TotalAmounts, RoundingErrors

(* Rounding to whole cents.                                                *)
LEMMA CentsAreNear ==
    ASSUME NEW amount \in Int, NEW err \in {-1, 0, 1}
    PROVE  /\ Cents(amount, err) \in Int
           /\ 10 * Cents(amount, err) - amount <= 5 /\ amount - 10 * Cents(amount, err) <= 5
           /\ amount >= 0 => Cents(amount, err) \in Nat
<1>1. PICK a, b, d \in Int : a = amount \div 10 /\ b = (amount + 5) \div 10 /\ d = amount % 10
  OBVIOUS
<1>2. 10 * a + d = amount /\ d >= 0 /\ d < 10
  BY <1>1
<1>3. 10 * b <= amount + 5 /\ amount + 5 < 10 * b + 10
  BY <1>1
<1>4. (Cents(amount, err) = a /\ d = 5) \/ Cents(amount, err) = b
  BY <1>1 DEF Cents
<1>5. CASE Cents(amount, err) = a /\ d = 5
  BY <1>2, <1>5
<1>6. CASE Cents(amount, err) = b
  BY <1>3, <1>6
<1>. QED
  BY <1>4, <1>5, <1>6

(* A whole number of cents is stored as it is.                             *)
LEMMA WholeCentsStay ==
    ASSUME NEW c \in Int, NEW err \in {-1, 0, 1}
    PROVE  Cents(10 * c, err) = c
<1>1. (10 * c) % 10 = 0
  OBVIOUS
<1>2. (10 * c + 5) \div 10 = c
  OBVIOUS
<1>. QED
  BY <1>1, <1>2 DEF Cents

(* What is known of a row.                                                 *)
LEMMA RowFacts ==
    ASSUME ValuesInv, NEW r \in Requests, NEW row \in rows[r]
    PROVE  \E n \in Nat : \E total \in TotalAmounts(body[r].items) :
             /\ n \in RandomNumbers \/ Recent(n)
             /\ row.number = SetNumber(n)
             /\ row.type = body[r].type
             /\ row.priority = CalculatePriority(total)
             /\ row.total = Cents(total.exact, total.err)
             /\ row.items = [i \in DOMAIN body[r].items |->
                               [chars |-> body[r].items[i].chars,
                                quantity |-> body[r].items[i].quantity,
                                price |-> Cents(body[r].items[i].price, 0)]]
<1>1. PICK n \in Nat, total \in TotalAmounts(body[r].items) :
        row = Row(Order(r, n, total)) /\ (n \in RandomNumbers \/ Recent(n))
  BY SMTT(40) DEF ValuesInv, RowInv
<1>2. /\ Row(Order(r, n, total)).number = SetNumber(n)
      /\ Row(Order(r, n, total)).type = body[r].type
      /\ Row(Order(r, n, total)).priority = CalculatePriority(total)
      /\ Row(Order(r, n, total)).total = Cents(total.exact, total.err)
      /\ Row(Order(r, n, total)).items
           = [i \in DOMAIN body[r].items |->
                [chars |-> body[r].items[i].chars, quantity |-> body[r].items[i].quantity,
                 price |-> Cents(body[r].items[i].price, 0)]]
  BY DEF Row, Order, CreateOrder, FromRequestToInternalCreateOrder
<1>. QED
  BY <1>1, <1>2

(* The priority of a total.                                                *)
LEMMA PriorityOfTotal ==
    ASSUME NEW total, total.exact \in Int, total.err \in {-1, 0, 1}
    PROVE  LET p == CalculatePriority(total)
           IN  /\ p \in {1, 5, 10}
               /\ \/ p = PriorityOf(total.exact)
                  \/ /\ total.exact \in {50000, 100000} /\ total.err = 1
                     /\ p = PriorityOf(total.exact + 1)
<1>1. Above(total, 100) <=> total.exact > 100000 \/ (total.exact = 100000 /\ total.err = 1)
  BY SMT DEF Above
<1>2. Above(total, 50) <=> total.exact > 50000 \/ (total.exact = 50000 /\ total.err = 1)
  BY SMT DEF Above
<1>. QED
  BY <1>1, <1>2, SMT DEF CalculatePriority, PriorityOf

(* A row's priority, total and number have the types of their columns,     *)
(* whatever was ordered, and only order types have queues.                 *)
THEOREM PathTypes == Spec => []TypeOK
<1>1. ValuesInv => TypeOK
  <2>. SUFFICES ASSUME ValuesInv PROVE TypeOK
    OBVIOUS
  <2>1. ASSUME NEW r \in Requests, NEW row \in rows[r]
        PROVE  row.type \in AllOrderTypes /\ row.priority \in {1, 5, 10} /\ row.total \in Nat
    <3>1. PICK total \in TotalAmounts(body[r].items) :
            /\ row.type = body[r].type /\ row.priority = CalculatePriority(total)
            /\ row.total = Cents(total.exact, total.err)
      BY RowFacts
    <3>2. /\ body[r].items \in Seq(Item) /\ body[r].type \in AllOrderTypes
          /\ \A i \in 1 .. Len(body[r].items) :
                 body[r].items[i].quantity \in 1 .. 10 /\ body[r].items[i].price >= 0
      BY StoredMeetsTheRules DEF ValuesInv
    <3>3. total.exact \in Nat /\ total.err \in {-1, 0, 1}
      BY <3>2, CostIsNotNegative, TotalFacts
    <3>4. total.exact \in Int /\ total.exact >= 0
      BY <3>3
    <3>5. CalculatePriority(total) \in {1, 5, 10}
      BY <3>3, <3>4, PriorityOfTotal
    <3>6. Cents(total.exact, total.err) \in Nat
      BY <3>3, <3>4, CentsAreNear
    <3>. QED
      BY <3>1, <3>2, <3>5, <3>6
  <2>2. \A r \in Requests : body[r].json \in Bodies
    BY DEF ValuesInv, PathInv, Shape, Request
  <2>3. DOMAIN queue = AllOrderTypes
    BY DEF ValuesInv, PathInv, Shape
  <2>. QED
    BY <2>1, <2>2, <2>3 DEF TypeOK, ValuesInv, PathInv, Shape, StartInv, RowInv
<1>. QED
  BY <1>1, ValuesInvHolds, PTL

(* The priority is the one documented for what the items cost, however     *)
(* many items there are; a sum of floats above the exact one makes it the  *)
(* next higher at 50 and 100 dollars, and nowhere else.                    *)
THEOREM PriorityOfCost == Spec => []PriorityFollowsTotal
<1>1. ValuesInv => PriorityFollowsTotal
  <2>. SUFFICES ASSUME ValuesInv, NEW r \in Requests, NEW row \in rows[r]
                PROVE  LET cost == Cost(body[r].items)
                       IN  \/ row.priority = PriorityOf(cost)
                           \/ /\ cost \in {50000, 100000} /\ ~SumIsExact(body[r].items)
                              /\ row.priority = PriorityOf(cost + 1)
    BY DEF PriorityFollowsTotal
  <2>1. PICK total \in TotalAmounts(body[r].items) : row.priority = CalculatePriority(total)
    BY RowFacts
  <2>2. body[r].items \in Seq(Item)
    BY StoredMeetsTheRules DEF ValuesInv
  <2>3. /\ total.exact = Cost(body[r].items) /\ total.exact \in Int /\ total.err \in {-1, 0, 1}
        /\ SumIsExact(body[r].items) => total.err = 0
    BY <2>2, CostIsExactTotal, TotalFacts
  <2>4. \/ CalculatePriority(total) = PriorityOf(total.exact)
        \/ /\ total.exact \in {50000, 100000} /\ total.err = 1
           /\ CalculatePriority(total) = PriorityOf(total.exact + 1)
    BY <2>3, PriorityOfTotal
  <2>. QED
    BY <2>1, <2>3, <2>4
<1>. QED
  BY <1>1, ValuesInvHolds, PTL

(* A stored price times a quantity is as near as half a cent per unit.     *)
LEMMA NearTimes ==
    ASSUME NEW p \in Int, NEW c \in Int, NEW q \in 1 .. 10, 10 * c - p <= 5, p - 10 * c <= 5
    PROVE  10 * (c * q) - p * q <= 5 * q /\ p * q - 10 * (c * q) <= 5 * q
<1>1. \A k \in 1 .. 10 : k = 1 \/ k = 2 \/ k = 3 \/ k = 4 \/ k = 5
                         \/ k = 6 \/ k = 7 \/ k = 8 \/ k = 9 \/ k = 10
  OBVIOUS
<1>2. CASE q = 1
  BY <1>2
<1>3. CASE q = 2
  BY <1>3
<1>4. CASE q = 3
  BY <1>4
<1>5. CASE q = 4
  BY <1>5
<1>6. CASE q = 5
  BY <1>6
<1>7. CASE q = 6
  BY <1>7
<1>8. CASE q = 7
  BY <1>8
<1>9. CASE q = 8
  BY <1>9
<1>10. CASE q = 9
  BY <1>10
<1>11. CASE q = 10
  BY <1>11
<1>. QED
  BY <1>1, <1>2, <1>3, <1>4, <1>5, <1>6, <1>7, <1>8, <1>9, <1>10, <1>11

(* The items as they are stored.                                           *)
Stored(items) ==
    [i \in DOMAIN items |->
       [chars |-> items[i].chars, quantity |-> items[i].quantity,
        price |-> Cents(items[i].price, 0)]]

Quantities(items) == [i \in 1 .. Len(items) |-> items[i].quantity]

(* They are items.                                                         *)
LEMMA StoredItems ==
    ASSUME NEW items \in Seq(Item)
    PROVE  /\ Stored(items) \in Seq(Item) /\ Len(Stored(items)) = Len(items)
           /\ Len(items) \in Nat
           /\ \A i \in 1 .. Len(items) :
                 /\ items[i].price \in Int /\ items[i].quantity \in Int
                 /\ Stored(items)[i].quantity = items[i].quantity
                 /\ Stored(items)[i].price = Cents(items[i].price, 0)
<1>1. /\ Len(items) \in Nat /\ DOMAIN items = 1 .. Len(items)
      /\ \A i \in 1 .. Len(items) :
            items[i] \in Item /\ items[i].price \in Int /\ items[i].quantity \in Int
  BY CostsAreNumbers
<1>2. \A i \in 1 .. Len(items) : items[i].chars \in Nat /\ Cents(items[i].price, 0) \in Int
  BY <1>1, CentsAreNear DEF Item
<1>3. ASSUME NEW i \in 1 .. Len(items)
      PROVE  /\ Stored(items)[i] \in Item
             /\ Stored(items)[i].quantity = items[i].quantity
             /\ Stored(items)[i].price = Cents(items[i].price, 0)
  <2>1. Stored(items)[i] = [chars |-> items[i].chars, quantity |-> items[i].quantity,
                            price |-> Cents(items[i].price, 0)]
    BY <1>1 DEF Stored
  <2>. QED
    BY <1>1, <1>2, <2>1 DEF Item
<1>4. Stored(items) = [i \in 1 .. Len(items) |-> Stored(items)[i]]
  BY <1>1 DEF Stored
<1>5. Stored(items) \in Seq(Item) /\ Len(Stored(items)) = Len(items)
  BY <1>1, <1>3, <1>4
<1>. QED
  BY <1>1, <1>3, <1>5

(* The sums over the stored items, beside that over the items.             *)
LEMMA StoredSums ==
    ASSUME NEW items \in Seq(Item)
    PROVE  LET n == Len(items)
               v == Costs(items)
               w == Costs(Stored(items))
               u == Quantities(items)
           IN  \E p, q, t :
                  /\ n \in Nat /\ v \in [1 .. n -> Int] /\ w \in [1 .. n -> Int] /\ u \in [1 .. n -> Int]
                  /\ PartialSums(n, v, p) /\ PartialSums(n, w, q) /\ PartialSums(n, u, t)
                  /\ ExactTotal(items) = p[n]
                  /\ Cost(Stored(items)) = q[n]
                  /\ Units(Stored(items)) = t[n]
<1>. DEFINE n == Len(items)
            v == Costs(items)
            w == Costs(Stored(items))
            u == Quantities(items)
<1>1. /\ Stored(items) \in Seq(Item) /\ Len(Stored(items)) = n /\ n \in Nat
      /\ \A i \in 1 .. n : items[i].quantity \in Int /\ Stored(items)[i].quantity = items[i].quantity
  BY StoredItems
<1>2. v \in [1 .. n -> Int] /\ w \in [1 .. n -> Int] /\ DOMAIN Stored(items) = 1 .. n
  BY <1>1, CostsAreNumbers
<1>3. u \in [1 .. n -> Int]
  BY <1>1 DEF Quantities
<1>4. Units(Stored(items)) = SumFunction(u)
  <2>1. [i \in DOMAIN Stored(items) |-> Stored(items)[i].quantity] = u
    BY <1>1, <1>2 DEF Quantities
  <2>. QED
    BY <2>1 DEF Units
<1>5. PICK p : PartialSums(n, v, p) /\ ExactTotal(items) = p[n]
  BY LoopAddsUp
<1>6. PICK q : PartialSums(n, w, q) /\ Cost(Stored(items)) = q[n]
  <2>1. Cost(Stored(items)) = ExactTotal(Stored(items))
    BY <1>1, CostIsExactTotal
  <2>. QED
    BY <1>1, <2>1, LoopAddsUp
<1>7. PICK t : PartialSums(n, u, t) /\ SumFunction(u) = t[n]
  BY <1>1, <1>3, FoldAddsUp
<1>. HIDE DEF n, v, w, u
<1>. QED
  BY <1>1, <1>2, <1>3, <1>4, <1>5, <1>6, <1>7 DEF n, v, w, u

(* The sum of the stored prices and the exact total.                       *)
LEMMA StoredCost ==
    ASSUME NEW items \in Seq(Item),
           \A i \in 1 .. Len(items) : items[i].quantity \in 1 .. 10 /\ items[i].price >= 0
    PROVE  /\ ExactTotal(items) \in Int /\ Cost(Stored(items)) \in Int /\ Units(Stored(items)) \in Int
           /\ WholeCents(items) => ExactTotal(items) = 10 * Cost(Stored(items))
           /\ 10 * Cost(Stored(items)) - ExactTotal(items) <= 5 * Units(Stored(items))
           /\ ExactTotal(items) - 10 * Cost(Stored(items)) <= 5 * Units(Stored(items))
<1>1. PICK n, v, w, u : n = Len(items) /\ v = Costs(items) /\ w = Costs(Stored(items))
                        /\ u = Quantities(items)
  OBVIOUS
<1>2. PICK p, q, t :
        /\ n \in Nat /\ v \in [1 .. n -> Int] /\ w \in [1 .. n -> Int] /\ u \in [1 .. n -> Int]
        /\ PartialSums(n, v, p) /\ PartialSums(n, w, q) /\ PartialSums(n, u, t)
        /\ ExactTotal(items) = p[n]
        /\ Cost(Stored(items)) = q[n]
        /\ Units(Stored(items)) = t[n]
  BY <1>1, StoredSums
<1>3. /\ Len(Stored(items)) = n
      /\ \A i \in 1 .. n :
            /\ items[i].price \in Int /\ items[i].quantity \in Int
            /\ Stored(items)[i].quantity = items[i].quantity
            /\ Stored(items)[i].price = Cents(items[i].price, 0)
  BY <1>1, StoredItems
<1>4. \A i \in 1 .. n : /\ v[i] = items[i].price * items[i].quantity
                        /\ w[i] = Cents(items[i].price, 0) * items[i].quantity
                        /\ u[i] = items[i].quantity
  BY <1>1, <1>3 DEF Costs, Quantities
<1>5. p[n] \in Int /\ q[n] \in Int /\ t[n] \in Int
  BY <1>2 DEF PartialSums
<1>6. \A i \in 1 .. n : 10 * w[i] - v[i] <= 5 * u[i] /\ v[i] - 10 * w[i] <= 5 * u[i]
  <2>. TAKE i \in 1 .. n
  <2>1. PICK x, c \in Int : x = items[i].price /\ c = Cents(x, 0)
    BY <1>3, CentsAreNear
  <2>2. 10 * c - x <= 5 /\ x - 10 * c <= 5
    BY <2>1, CentsAreNear
  <2>3. PICK k \in 1 .. 10 : k = items[i].quantity
    BY <1>1
  <2>4. 10 * (c * k) - x * k <= 5 * k /\ x * k - 10 * (c * k) <= 5 * k
    BY <2>2, NearTimes
  <2>5. v[i] = x * k /\ w[i] = c * k /\ u[i] = k
    BY <1>4, <2>1, <2>3
  <2>. QED
    BY <2>4, <2>5
<1>7. 10 * q[n] - p[n] <= 5 * t[n] /\ p[n] - 10 * q[n] <= 5 * t[n]
  BY <1>2, <1>6, NearSum
<1>8. ASSUME WholeCents(items)
      PROVE  p[n] = 10 * q[n]
  <2>1. ASSUME NEW i \in 1 .. n
        PROVE  v[i] = 10 * w[i]
    <3>1. PICK x, k \in Int : x = items[i].price /\ k = items[i].quantity
      BY <1>3
    <3>2. DOMAIN items = 1 .. n
      BY <1>1
    <3>3. x % 10 = 0
      BY <1>8, <3>1, <3>2 DEF WholeCents
    <3>4. PICK c \in Int : x = 10 * c
      <4>1. PICK a \in Int : a = x \div 10
        OBVIOUS
      <4>2. x = 10 * a
        BY <3>3, <4>1
      <4>. QED
        BY <4>2
    <3>5. Cents(x, 0) = c
      BY <3>4, WholeCentsStay
    <3>6. v[i] = x * k /\ w[i] = c * k
      BY <1>4, <3>1, <3>5
    <3>7. (10 * c) * k = 10 * (c * k)
      OBVIOUS
    <3>. QED
      BY <3>4, <3>6, <3>7
  <2>2. Tenfold(n, v, w)
    BY <2>1 DEF Tenfold
  <2>. QED
    BY <1>2, <2>2, TenfoldSum, SMTT(40)
<1>. QED
  BY <1>2, <1>5, <1>7, <1>8

(* The stored total is the sum of the stored prices, up to the rounding of *)
(* the columns, for any number of items.                                   *)
THEOREM TotalsAddUp == Spec => []StoredTotalAddsUp
<1>1. ValuesInv => StoredTotalAddsUp
  <2>. SUFFICES ASSUME ValuesInv, NEW r \in Requests, NEW row \in rows[r]
                PROVE  LET gap == row.total - Cost(row.items)
                       IN  IF WholeCents(body[r].items)
                           THEN gap = 0
                           ELSE 2 * gap <= Units(row.items) + 1 /\ -2 * gap <= Units(row.items) + 1
    BY DEF StoredTotalAddsUp
  <2>1. PICK items : items = body[r].items
    OBVIOUS
  <2>2. PICK total \in TotalAmounts(items) :
          row.total = Cents(total.exact, total.err) /\ row.items = Stored(items)
    BY <2>1, RowFacts DEF Stored
  <2>3. /\ items \in Seq(Item)
        /\ \A i \in 1 .. Len(items) : items[i].quantity \in 1 .. 10 /\ items[i].price >= 0
    BY <2>1, StoredMeetsTheRules DEF ValuesInv
  <2>4. PICK e, c, u \in Int :
          /\ e = ExactTotal(items) /\ c = Cost(Stored(items)) /\ u = Units(Stored(items))
          /\ WholeCents(items) => e = 10 * c
          /\ 10 * c - e <= 5 * u /\ e - 10 * c <= 5 * u
    BY <2>3, StoredCost
  <2>5. PICK err \in {-1, 0, 1} : row.total = Cents(e, err)
    BY <2>2, <2>4, TotalFacts
  <2>6. PICK x \in Int : x = row.total /\ 10 * x - e <= 5 /\ e - 10 * x <= 5
    BY <2>5, CentsAreNear
  <2>7. CASE WholeCents(items)
    <3>1. row.total = c
      BY <2>4, <2>5, <2>7, WholeCentsStay
    <3>2. row.total - Cost(row.items) = 0
      BY <2>2, <2>4, <3>1
    <3>. QED
      BY <2>1, <2>7, <3>2
  <2>8. CASE ~WholeCents(items)
    <3>1. 2 * (x - c) <= u + 1 /\ -2 * (x - c) <= u + 1
      BY <2>4, <2>6
    <3>2. row.total - Cost(row.items) = x - c /\ Units(row.items) = u
      BY <2>2, <2>4, <2>6
    <3>. QED
      BY <2>1, <2>8, <3>1, <3>2
  <2>. QED
    BY <2>7, <2>8
<1>. QED
  BY <1>1, ValuesInvHolds, PTL

(* Numbers are those of the sequence or random ones, read as them, and are *)
(* different: for any number of requests and past any number of digits.    *)
THEOREM NumbersAreRead == Spec => []NumbersReadBack
<1>1. ValuesInv => NumbersReadBack
  <2>. SUFFICES ASSUME ValuesInv, NEW r \in Requests, NEW row \in rows[r]
                PROVE  /\ Len(row.number) >= 3
                       /\ Len(row.number) > 3 => row.number[1] # 0
                       /\ \/ ValueOf(row.number) \in RandomNumbers
                          \/ /\ ValueOf(row.number) <= seq
                             /\ ValueOf(row.number) > seq - Cardinality(Requests)
                       /\ \A q \in Requests \ {r} : \A other \in rows[q] : other.number # row.number
    BY DEF NumbersReadBack
  <2>1. PICK n \in Nat : (n \in RandomNumbers \/ Recent(n)) /\ row.number = SetNumber(n)
    BY RowFacts
  <2>2. /\ ValueOf(row.number) = n
        /\ Len(row.number) >= 3
        /\ Len(row.number) > 3 => row.number[1] # 0
    BY <2>1, SetNumberReadsBack
  <2>3. Recent(n) => n <= seq /\ n > seq - Cardinality(Requests)
    <3>1. PICK c, o, s \in Nat : c = Cardinality(Requests) /\ o = Cardinality(Open) /\ s = seq
      BY OpenCount DEF ValuesInv, RowInv
    <3>2. n + c > s + o => n > s - c
      OBVIOUS
    <3>. QED
      BY <3>1, <3>2 DEF Recent
  <2>4. \A q \in Requests \ {r} : \A other \in rows[q] : other.number # row.number
    BY DEF ValuesInv, PathInv, Path, NumbersDiffer
  <2>. QED
    BY <2>1, <2>2, <2>3, <2>4
<1>. QED
  BY <1>1, ValuesInvHolds, PTL

(* The port of an order service is usable.                                 *)
LEMMA OrderServicePort ==
    ASSUME NEW f \in Flags, f.mode = "order-service"
    PROVE  Port(f) \in 1024 .. MaxPort /\ CanListen(Port(f))
<1>. MaxPort \in Nat /\ MaxPort >= 3000
  BY SMT DEF MaxPort
<1>1. Port(f) \in 1024 .. MaxPort
  <2>1. CASE f.port \in 1024 .. MaxPort
    BY <2>1 DEF Port
  <2>2. CASE f.port \notin 1024 .. MaxPort
    <3>1. Port(f) = 3000
      BY <2>2 DEF Port, DefaultOrderServicePort
    <3>. QED
      BY <3>1
  <2>. QED
    BY <2>1, <2>2
<1>. QED
  BY <1>1 DEF CanListen

(* A command line starts a process exactly if it is a documented one, and  *)
(* in the known gaps exactly if it is not.                                 *)
LEMMA CommandLinesAgree ==
    ASSUME NEW f \in Flags
    PROVE  LET up == Launches(f) /\ (HasServer(f) => CanListen(Port(f)))
           IN  /\ AcceptedInstead(f) => (up <=> f.logLevel \in LogLevels \cup {""})
               /\ ~AcceptedInstead(f) => (up <=> Documented(f) /\ ~RefusedInstead(f))
<1>1. /\ f.orderTypes \in Seq(Entry)
      /\ f.port \in Int /\ f.maxConcurrent \in Int /\ f.workerName \in Nat /\ f.heartbeat \in Int
  BY FlagsHaveTypes
<1>2. PICK level \in BOOLEAN : level <=> f.logLevel \in LogLevels \cup {""}
  OBVIOUS
<1>3. PICK up \in BOOLEAN : up <=> Launches(f) /\ (HasServer(f) => CanListen(Port(f)))
  OBVIOUS
<1>. SUFFICES /\ AcceptedInstead(f) => (up <=> level)
              /\ ~AcceptedInstead(f) => (up <=> Documented(f) /\ ~RefusedInstead(f))
  BY <1>2, <1>3, Zenon
<1>4. CASE f.mode = "order-service"
  <2>1. Launches(f) <=> level /\ f.maxConcurrent \in 0 .. 1000
    BY <1>2, <1>4, ZenonT(60) DEF Launches, FlagsAccepted, Modes
  <2>2. HasServer(f) /\ CanListen(Port(f))
    BY <1>4, OrderServicePort DEF HasServer
  <2>3. Documented(f) <=> level /\ f.maxConcurrent \in 1 .. 1000
    BY <1>2, <1>4, ZenonT(60) DEF Documented
  <2>4. (AcceptedInstead(f) <=> f.maxConcurrent = 0) /\ ~RefusedInstead(f)
    BY <1>4 DEF AcceptedInstead, RefusedInstead
  <2>5. CASE f.maxConcurrent = 0
    <3>1. f.maxConcurrent \in 0 .. 1000
      BY <2>5
    <3>2. up <=> level
      BY <1>3, <2>1, <2>2, <3>1
    <3>. QED
      BY <2>4, <2>5, <3>2, Zenon
  <2>6. CASE f.maxConcurrent # 0
    <3>1. f.maxConcurrent \in 0 .. 1000 <=> f.maxConcurrent \in 1 .. 1000
      BY <1>1, <2>6
    <3>2. up <=> Documented(f)
      BY <1>3, <2>1, <2>2, <2>3, <3>1
    <3>. QED
      BY <2>4, <2>6, <3>2, Zenon
  <2>. QED
    BY <2>5, <2>6
<1>5. CASE f.mode = "kitchen-worker"
  <2>1. Launches(f) <=> level /\ f.workerName # 0 /\ KitchenAccepted(f)
    BY <1>2, <1>5, ZenonT(60) DEF Launches, FlagsAccepted, Modes
  <2>2. ~HasServer(f)
    BY <1>5 DEF HasServer
  <2>3. Documented(f) <=> /\ level /\ f.workerName \in 1 .. 100
                          /\ f.heartbeat >= 5 /\ TypesAreValid(f.orderTypes)
    BY <1>2, <1>5, ZenonT(60) DEF Documented
  <2>4. ~AcceptedInstead(f) /\ (RefusedInstead(f) <=> f.heartbeat = 5)
    BY <1>5 DEF AcceptedInstead, RefusedInstead
  <2>5. f.heartbeat > 5 <=> f.heartbeat >= 5 /\ f.heartbeat # 5
    BY <1>1
  <2>6. ValidateOrderTypes(f.orderTypes).err = "" <=> TypesAreValid(f.orderTypes)
    BY <1>1, TypesReadAsDocumented
  <2>7. KitchenAccepted(f) <=> /\ f.workerName \in 1 .. 100 /\ TypesAreValid(f.orderTypes)
                               /\ f.heartbeat >= 5 /\ f.heartbeat # 5
    BY <2>5, <2>6 DEF KitchenAccepted, validateWorkerName
  <2>8. f.workerName \in 1 .. 100 => f.workerName # 0
    OBVIOUS
  <2>. QED
    BY <1>3, <2>1, <2>2, <2>3, <2>4, <2>7, <2>8, Zenon
<1>6. CASE f.mode = "tracking-service"
  <2>1. Launches(f) <=> level
    BY <1>2, <1>6 DEF Launches, FlagsAccepted, Modes
  <2>2. HasServer(f) /\ Port(f) = f.port
    BY <1>6 DEF HasServer, Port
  <2>3. Documented(f) <=> level /\ f.port \in -1 .. MaxPort
    BY <1>2, <1>6, ZenonT(60) DEF Documented
  <2>4. ~AcceptedInstead(f) /\ (RefusedInstead(f) <=> f.port = -1)
    BY <1>6 DEF AcceptedInstead, RefusedInstead
  <2>5. MaxPort \in Nat
    BY SMT DEF MaxPort
  <2>6. CanListen(f.port) <=> f.port \in -1 .. MaxPort /\ f.port # -1
    BY <1>1, <2>5 DEF CanListen
  <2>. QED
    BY <1>3, <2>1, <2>2, <2>3, <2>4, <2>6, Zenon
<1>7. CASE f.mode = "notification-subscriber"
  <2>1. Launches(f) <=> level
    BY <1>2, <1>7 DEF Launches, FlagsAccepted, Modes
  <2>2. ~HasServer(f)
    BY <1>7 DEF HasServer
  <2>3. Documented(f) <=> level
    BY <1>2, <1>7, ZenonT(60) DEF Documented
  <2>4. ~AcceptedInstead(f) /\ ~RefusedInstead(f)
    BY <1>7 DEF AcceptedInstead, RefusedInstead
  <2>. QED
    BY <1>3, <2>1, <2>2, <2>3, <2>4, Zenon
<1>8. CASE f.mode \notin Modes
  <2>1. ~Launches(f)
    BY <1>8 DEF Launches, FlagsAccepted
  <2>2. /\ f.mode # "order-service" /\ f.mode # "kitchen-worker"
        /\ f.mode # "tracking-service" /\ f.mode # "notification-subscriber"
    BY <1>8 DEF Modes
  <2>3. ~Documented(f) /\ ~AcceptedInstead(f)
    BY <2>2 DEF Documented, AcceptedInstead
  <2>. QED
    BY <1>3, <2>1, <2>3, Zenon
<1>. QED
  BY <1>4, <1>5, <1>6, <1>7, <1>8 DEF Modes

(* A worker that came up consumes exactly the types it was asked for.      *)
LEMMA ConsumesWhatWasAsked ==
    ASSUME NEW f \in Flags, f.mode = "kitchen-worker", Launches(f)
    PROVE  LET types == ValidateOrderTypes(f.orderTypes).types
           IN  /\ ToSet(types) = IF f.orderTypes = << >> THEN AllOrderTypes
                                 ELSE {f.orderTypes[i].word : i \in Words(f.orderTypes)}
               /\ Len(types) = Cardinality(ToSet(types))
<1>1. f.orderTypes \in Seq(Entry)
  BY FlagsHaveTypes
<1>2. ValidateOrderTypes(f.orderTypes).err = ""
  BY DEF Launches, KitchenAccepted
<1>. QED
  BY <1>1, <1>2, TypesReadAsDocumented

(* Every process that was launched came up exactly if the documentation    *)
(* allows its command line, and did the opposite in the known gaps.        *)
THEOREM ComesUpAsDocumented == Spec => []LaunchedAsDocumented
<1>1. ValuesInv => LaunchedAsDocumented
  <2>. SUFFICES ASSUME ValuesInv PROVE LaunchedAsDocumented
    OBVIOUS
  <2>1. ASSUME NEW p \in Procs, run[p] # "new"
        PROVE  /\ cmd[p] \in Flags
               /\ run[p] = "up" <=> /\ Launches(cmd[p])
                                    /\ HasServer(cmd[p]) => CanListen(Port(cmd[p]))
    BY <2>1 DEF ValuesInv, StartInv, Modes, ModeOf, Procs
  <2>2. ASSUME NEW p \in Procs, run[p] # "new"
        PROVE  /\ AcceptedInstead(cmd[p]) => (run[p] = "up" <=> cmd[p].logLevel \in LogLevels \cup {""})
               /\ ~AcceptedInstead(cmd[p]) =>
                    (run[p] = "up" <=> Documented(cmd[p]) /\ ~RefusedInstead(cmd[p]))
    BY <2>1, <2>2, CommandLinesAgree, Zenon
  <2>3. ASSUME NEW p \in Procs, run[p] # "new", cmd[p].mode = "order-service"
        PROVE  Port(cmd[p]) \in 1024 .. MaxPort
    BY <2>1, <2>3, OrderServicePort
  <2>4. ASSUME NEW p \in Procs, run[p] = "up", cmd[p].mode = "kitchen-worker"
        PROVE  LET types == ValidateOrderTypes(cmd[p].orderTypes).types
               IN  /\ ToSet(types) = IF cmd[p].orderTypes = << >> THEN AllOrderTypes
                                     ELSE {cmd[p].orderTypes[i].word : i \in Words(cmd[p].orderTypes)}
                   /\ Len(types) = Cardinality(ToSet(types))
    BY <2>1, <2>4, ConsumesWhatWasAsked
  <2>. QED
    BY <2>2, <2>3, <2>4, ZenonT(60) DEF LaunchedAsDocumented
<1>. QED
  BY <1>1, ValuesInvHolds, PTL
=============================================================================
