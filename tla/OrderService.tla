---------------------------- MODULE OrderService ----------------------------
(***************************************************************************)
(* The order service: HTTP handlers that run Service.CreateOrder, each in  *)
(* a goroutine of its own, the counting semaphore that admits them, the    *)
(* daily order number, the insert of the order and its publication.  Order *)
(* numbers are those of one day: ORD_<date>_<n> is injective in n, and     *)
(* different days never share a number.                                    *)
(***************************************************************************)
EXTENDS OrderStore, OrderBroker

CONSTANTS
    Requests,         \* HTTP requests that passed validation
    MaxConcurrent,    \* --max-concurrent, the capacity of the semaphore
    RandomFrom,       \* least number getRandomOrderNumber draws
    PublishAttempts,  \* RABBITMQ_RECONNECT_ATTEMPT
    NoRequest,
    IntakeLimit       \* how often each kind of disturbance may happen

Disturbances == {"start", "signal", "crash", "db", "publish", "lost"}

(* There is a number for every request: an INTEGER counts them.            *)
ASSUME IntakeAssumption ==
    /\ Orders \subseteq Nat
    /\ IsFiniteSet(Requests)
    /\ 1 .. Cardinality(Requests) \subseteq Orders
    /\ MaxConcurrent \in Nat
    /\ RandomFrom \in Nat
    /\ PublishAttempts \in Nat
    /\ NoRequest \notin Requests
    /\ IntakeLimit \in [Disturbances -> Nat]

VARIABLES
    req,       \* where the handler of a request is
    number,    \* the order number it was given; 0 is none
    tries,     \* its failed attempts to publish
    lastValue, \* order_sequences.last_value of the day
    snap,      \* the last_value a sequence transaction saw
    rowLock,   \* the transaction that holds the row of order_sequences
    sem,       \* slots in use
    server,    \* the process: serving, closing its resources, or down
    hits       \* disturbances so far

intakeVars == <<req, number, tries, lastValue, snap, rowLock, sem, server, hits>>
vars == <<orders, statusLog, message, holder, req, number, tries, lastValue, snap,
          rowLock, sem, server, hits>>

(* "created", "too_many" and "error" are answers; "cut" is a request whose *)
(* connection broke because the process ended.                             *)
Answers == {"created", "too_many", "error", "cut"}
InService == {"sequence", "upsert", "commit", "create", "publish"}
RequestPc == {"new", "acquire"} \cup InService \cup Answers

TypeOK ==
    /\ StoreTypeOK
    /\ BrokerTypeOK
    /\ req \in [Requests -> RequestPc]
    /\ number \in [Requests -> Nat]
    /\ tries \in [Requests -> Nat]
    /\ lastValue \in Nat
    /\ snap \in [Requests -> Nat]
    /\ rowLock \in Requests \cup {NoRequest}
    /\ sem \in Nat
    /\ server \in {"serving", "closing", "ended", "killed"}
    /\ hits \in [Disturbances -> Nat]

Init ==
    /\ StoreInit
    /\ BrokerInit
    /\ req = [r \in Requests |-> "new"]
    /\ number = [r \in Requests |-> 0]
    /\ tries = [r \in Requests |-> 0]
    /\ lastValue = 0
    /\ snap = [r \in Requests |-> 0]
    /\ rowLock = NoRequest
    /\ sem = 0
    /\ server = "serving"
    /\ hits = [d \in Disturbances |-> 0]

Hit(d) ==
    /\ hits[d] < IntakeLimit[d]
    /\ hits' = [hits EXCEPT ![d] = @ + 1]

(* http.ListenAndServe goes on while Start closes the other resources: the *)
(* server that Stop shuts down is not the one that listens.                *)
Listening == server \in {"serving", "closing"}

Step(r, place) == req' = [req EXCEPT ![r] = place]

(* The slips of a return without Release and of one with two.              *)
ReplyReleasingTwice(r, answer) ==
    /\ Step(r, answer)
    /\ sem' = sem - 2

ReplyKeepingSlot(r, answer) ==
    /\ Step(r, answer)
    /\ UNCHANGED sem

(* CreateOrder returns and the deferred Release frees the slot.            *)
Reply(r, answer) ==
    /\ Step(r, answer)
    /\ sem' = sem - 1

-----------------------------------------------------------------------------
(* A request arrives and its body passes validation.                       *)
Arrive(r) ==
    /\ Listening
    /\ req[r] = "new"
    /\ Step(r, "acquire")
    /\ UNCHANGED <<storeVars, brokerVars, number, tries, lastValue, snap, rowLock,
                   sem, server, hits>>

(* TryAcquire takes a slot, ...                                            *)
Acquire(r) ==
    /\ req[r] = "acquire"
    /\ sem < MaxConcurrent
    /\ sem' = sem + 1
    /\ Step(r, "sequence")
    /\ UNCHANGED <<storeVars, brokerVars, number, tries, lastValue, snap, rowLock,
                   server, hits>>

(* ... or finds none for one second: ErrTooManyRequest.                    *)
TooMany(r) ==
    /\ req[r] = "acquire"
    /\ sem >= MaxConcurrent
    /\ Step(r, "too_many")
    /\ UNCHANGED <<storeVars, brokerVars, number, tries, lastValue, snap, rowLock,
                   sem, server, hits>>

(* GetAndIncrementSequence: a serializable transaction takes its snapshot. *)
BeginSequence(r) ==
    /\ req[r] = "sequence"
    /\ snap' = [snap EXCEPT ![r] = lastValue]
    /\ Step(r, "upsert")
    /\ UNCHANGED <<storeVars, brokerVars, number, tries, lastValue, rowLock, sem,
                   server, hits>>

(* The slip of a weaker isolation level.                                   *)
UpsertUnchecked(r) ==
    /\ req[r] = "upsert"
    /\ rowLock = NoRequest
    /\ rowLock' = r
    /\ Step(r, "commit")
    /\ UNCHANGED <<storeVars, brokerVars, number, tries, lastValue, snap, sem, server,
                   hits>>

(* The upsert waits for the row and increments it, if no other transaction *)
(* committed a newer value since the snapshot.                             *)
Upsert(r) ==
    /\ req[r] = "upsert"
    /\ rowLock = NoRequest
    /\ lastValue = snap[r]
    /\ rowLock' = r
    /\ Step(r, "commit")
    /\ UNCHANGED <<storeVars, brokerVars, number, tries, lastValue, snap, sem, server,
                   hits>>

CommitSequence(r) ==
    /\ req[r] = "commit"
    /\ lastValue' = snap[r] + 1
    /\ rowLock' = NoRequest
    /\ number' = [number EXCEPT ![r] = snap[r] + 1]
    /\ Step(r, "create")
    /\ UNCHANGED <<storeVars, brokerVars, tries, snap, sem, server, hits>>

(* The slip of a failed transaction that is not rolled back.               *)
SequenceFailsLocked(r) ==
    /\ req[r] = "commit"
    /\ Hit("db")
    /\ UNCHANGED rowLock
    /\ \E n \in {k \in Orders : k >= RandomFrom} : number' = [number EXCEPT ![r] = n]
    /\ Step(r, "create")
    /\ UNCHANGED <<storeVars, brokerVars, tries, lastValue, snap, sem, server>>

(* A serialization failure, or an error of the database with or without    *)
(* effect: the order gets a random number.                                 *)
SequenceFails(r) ==
    /\ \/ /\ req[r] = "upsert" /\ rowLock = NoRequest /\ lastValue # snap[r]
          /\ UNCHANGED <<lastValue, rowLock, hits>>
       \/ /\ req[r] = "commit"
          /\ Hit("db")
          /\ rowLock' = NoRequest
          /\ lastValue' \in {lastValue, snap[r] + 1}
    /\ \E n \in {k \in Orders : k >= RandomFrom} : number' = [number EXCEPT ![r] = n]
    /\ Step(r, "create")
    /\ UNCHANGED <<storeVars, brokerVars, tries, snap, sem, server>>

(* orderRepo.Create commits.  A retry of no attempts publishes nothing and *)
(* returns nil.                                                            *)
StoreOrder(r) ==
    /\ req[r] = "create"
    /\ ~Exists(number[r])
    /\ Create(number[r])
    /\ IF PublishAttempts = 0 THEN Reply(r, "created") ELSE Step(r, "publish") /\ UNCHANGED sem
    /\ UNCHANGED <<brokerVars, number, tries, lastValue, snap, rowLock, server, hits>>

(* The slip of publishing an order that could not be stored.               *)
StoreFailsPublished(r) ==
    /\ req[r] = "create"
    /\ Hit("db")
    /\ Publish(number[r])
    /\ Reply(r, "error")
    /\ UNCHANGED <<storeVars, number, tries, lastValue, snap, rowLock, server>>

(* The number is taken (orders.number is unique), or the database fails    *)
(* with or without effect.                                                 *)
StoreFails(r) ==
    /\ req[r] = "create"
    /\ \/ /\ Exists(number[r])
          /\ UNCHANGED <<storeVars, hits>>
       \/ /\ ~Exists(number[r])
          /\ Hit("db")
          /\ \/ Create(number[r])
             \/ UNCHANGED storeVars
    /\ Reply(r, "error")
    /\ UNCHANGED <<brokerVars, number, tries, lastValue, snap, rowLock, server>>

(* PublishCreateOrder returns nil.  There is no confirm: the message may   *)
(* be lost with the connection.                                            *)
PublishOrder(r) ==
    /\ req[r] = "publish"
    /\ \/ Publish(number[r]) /\ UNCHANGED hits
       \/ Hit("lost") /\ UNCHANGED brokerVars
    /\ Reply(r, "created")
    /\ UNCHANGED <<storeVars, number, tries, lastValue, snap, rowLock, server>>

(* The slip of a retry that returns nil when every attempt failed.         *)
PublishFailsSilently(r) ==
    /\ req[r] = "publish"
    /\ Hit("publish")
    /\ tries' = [tries EXCEPT ![r] = @ + 1]
    /\ IF tries'[r] = PublishAttempts THEN Reply(r, "created") ELSE UNCHANGED <<req, sem>>
    /\ UNCHANGED <<storeVars, brokerVars, number, lastValue, snap, rowLock, server>>

(* It returns an error; after the last attempt so does CreateOrder.        *)
PublishFails(r) ==
    /\ req[r] = "publish"
    /\ Hit("publish")
    /\ tries' = [tries EXCEPT ![r] = @ + 1]
    /\ IF tries'[r] = PublishAttempts THEN Reply(r, "error") ELSE UNCHANGED <<req, sem>>
    /\ UNCHANGED <<storeVars, brokerVars, number, lastValue, snap, rowLock, server>>

-----------------------------------------------------------------------------
(* The process.                                                            *)

(* The process is gone: open requests are cut, transactions rolled back.   *)
Down(how) ==
    /\ server' = how
    /\ req' = [r \in Requests |->
                 IF req[r] \in InService \cup {"acquire"} THEN "cut" ELSE req[r]]
    /\ rowLock' = NoRequest
    /\ sem' = 0

(* A signal: close shuts down an HTTP server that was never started, which *)
(* returns at once, and closes the producer, which reconnects on use.      *)
Shutdown ==
    /\ server = "serving"
    /\ Hit("signal")
    /\ server' = "closing"
    /\ UNCHANGED <<storeVars, brokerVars, req, number, tries, lastValue, snap, rowLock,
                   sem>>

(* Pool.Close waits for the connections in use only; then Start returns.   *)
Exit ==
    /\ server = "closing"
    /\ \A r \in Requests : req[r] \notin {"upsert", "commit"}
    /\ Down("ended")
    /\ UNCHANGED <<storeVars, brokerVars, number, tries, lastValue, snap, hits>>

CrashServer ==
    /\ Listening
    /\ Hit("crash")
    /\ Down("killed")
    /\ UNCHANGED <<storeVars, brokerVars, number, tries, lastValue, snap>>

Restart ==
    /\ ~Listening
    /\ Hit("start")
    /\ server' = "serving"
    /\ UNCHANGED <<storeVars, brokerVars, req, number, tries, lastValue, snap, rowLock,
                   sem>>

Handle(r) ==
    \/ Acquire(r)
    \/ TooMany(r)
    \/ BeginSequence(r)
    \/ Upsert(r)
    \/ CommitSequence(r)
    \/ SequenceFails(r)
    \/ StoreOrder(r)
    \/ StoreFails(r)
    \/ PublishOrder(r)
    \/ PublishFails(r)

Next ==
    \/ \E r \in Requests : Arrive(r) \/ Handle(r)
    \/ Shutdown
    \/ Exit
    \/ CrashServer
    \/ Restart

Spec == Init /\ [][Next]_vars

(* Every handler goroutine runs on, and so does close.                     *)
FairSpec == Spec /\ (\A r \in Requests : WF_vars(Handle(r))) /\ WF_vars(Exit)

-----------------------------------------------------------------------------
(* Properties.                                                             *)

(* The slots in use are those of the requests inside CreateOrder, never    *)
(* more than max-concurrent: every return of CreateOrder gives its slot    *)
(* back exactly once, and a new process starts with none taken.            *)
SlotsMatchRequests ==
    /\ sem = Cardinality({r \in Requests : req[r] \in InService})
    /\ sem <= MaxConcurrent

(* Only random numbers are ever given twice: two numbers that              *)
(* GetAndIncrementSequence returned differ, over concurrent transactions,  *)
(* failed commits, crashes and restarts.                                   *)
OnlyRandomNumbersCollide ==
    \A r, s \in Requests :
        r # s /\ number[r] = number[s] /\ number[r] # 0 => number[r] >= RandomFrom

(* The kitchen is told only of orders that are stored: what OrderPlaced of *)
(* Kitchen assumes of this service.                                        *)
PublishedIsStored == \A o \in Orders : message[o] # "none" => Exists(o)

(* An order that was refused is not cooked: its number was published only  *)
(* if another request was accepted with it.                                *)
RefusedIsNotPublished ==
    \A r \in Requests :
        req[r] = "error" /\ number[r] \in Orders /\ message[number[r]] # "none" =>
            \E s \in Requests \ {r} : number[s] = number[r] /\ req[s] = "created"

(* An accepted order reached its queue, unless the broker lost a message   *)
(* it never confirmed or no attempt to publish is configured.              *)
AcceptedIsPublished ==
    \A r \in Requests :
        req[r] = "created" /\ hits["lost"] = 0 /\ PublishAttempts > 0 =>
            message[number[r]] # "none"

(* Every request that arrived gets an answer, or its process ends: neither *)
(* the semaphore nor the row of order_sequences is held forever.           *)
RequestIsAnswered ==
    \A r \in Requests : req[r] \in InService \cup {"acquire"} ~> req[r] \in Answers

-----------------------------------------------------------------------------
(* What the documentation says and the code does not do.                   *)

(* README.md: graceful shutdowns prevent data loss and leave the system in *)
(* a consistent state.  Without any failure, an order stored before a      *)
(* graceful exit would then be published as well.                          *)
ShutdownLosesNoOrder ==
    server = "ended" => \A o \in Orders : Exists(o) => message[o] # "none"
=============================================================================
