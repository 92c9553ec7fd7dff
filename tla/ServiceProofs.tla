--------------------------- MODULE ServiceProofs ----------------------------
(***************************************************************************)
(* The order service, for every finite set of requests, every capacity of  *)
(* the semaphore and any number of failures.                               *)
(***************************************************************************)
EXTENDS OrderService, LifecycleLemmas, FiniteSetTheorems

-----------------------------------------------------------------------------
(* The inductive invariant.                                                *)

Inside == {r \in Requests : req[r] \in InService}

(* Requests that have asked for a number and will not do so again.         *)
Numbered == {r \in Requests : req[r] \in {"create", "publish"} \cup Answers}

(* A transaction that is about to commit holds the row, and nothing was    *)
(* committed since its snapshot.                                           *)
LockInv ==
    \A r \in Requests : req[r] = "commit" => rowLock = r /\ snap[r] = lastValue

(* The sequence never runs ahead of the requests it was asked by.          *)
CountInv == lastValue <= Cardinality(Numbered)

(* A number came from the sequence or was drawn.                           *)
NumberInv ==
    \A r \in Requests :
        /\ req[r] \in {"create", "publish", "created", "error"} => number[r] \in Orders
        /\ number[r] <= lastValue \/ number[r] >= RandomFrom

Core == TypeOK /\ SlotsMatchRequests /\ LockInv /\ CountInv /\ NumberInv

(* A request that publishes has stored its order, is the only one to do    *)
(* so, and has not published it yet.                                       *)
PublisherInv ==
    \A r \in Requests : req[r] = "publish" =>
        /\ Exists(number[r])
        /\ message[number[r]] = "none"
        /\ \A s \in Requests \ {r} : req[s] = "publish" => number[s] # number[r]

(* Whatever was published was accepted.                                    *)
PublishedIsAccepted ==
    \A o \in Orders : message[o] # "none" =>
        \E r \in Requests : number[r] = o /\ req[r] = "created"

IndInv ==
    /\ Core
    /\ OnlyRandomNumbersCollide
    /\ PublisherInv
    /\ PublishedIsStored
    /\ PublishedIsAccepted
    /\ AcceptedIsPublished

-----------------------------------------------------------------------------
(* The sets that are counted.                                              *)

(* The sets that the invariant counts are finite.                          *)
LEMMA CountedAreFinite ==
    /\ IsFiniteSet(Inside) /\ Cardinality(Inside) \in Nat
    /\ IsFiniteSet(Numbered) /\ Cardinality(Numbered) \in Nat
    /\ Cardinality(Numbered) <= Cardinality(Requests)
    /\ Cardinality(Requests) \in Nat
  BY IntakeAssumption, FS_Subset, FS_CardinalityType DEF Inside, Numbered

(* A request that moves within CreateOrder, or outside of it, keeps the    *)
(* number of slots.                                                        *)
LEMMA StepKeepsInside ==
    ASSUME TypeOK, NEW r \in Requests, NEW place, Step(r, place),
           req[r] \in InService <=> place \in InService
    PROVE  Inside' = Inside
  BY DEF TypeOK, Step, Inside

(* A request that moves from outside the semaphore to a place inside adds  *)
(* one to those inside.                                                    *)
LEMMA StepEnters ==
    ASSUME TypeOK, NEW r \in Requests, NEW place \in InService, Step(r, place),
           req[r] \notin InService
    PROVE  Cardinality(Inside') = Cardinality(Inside) + 1
<1>1. Inside' = Inside \cup {r} /\ r \notin Inside
  BY DEF TypeOK, Step, Inside
<1>. QED
  BY <1>1, CountedAreFinite, FS_AddElement

(* A request that is answered, at a place inside, takes one away.          *)
LEMMA StepLeaves ==
    ASSUME TypeOK, NEW r \in Requests, NEW place, place \notin InService, Step(r, place),
           req[r] \in InService
    PROVE  /\ Cardinality(Inside') = Cardinality(Inside) - 1
           /\ Cardinality(Inside) > 0
<1>1. Inside' = Inside \ {r} /\ r \in Inside
  BY DEF TypeOK, Step, Inside
<1>2. Inside # {}
  BY <1>1
<1>. QED
  BY <1>1, <1>2, CountedAreFinite, FS_RemoveElement, FS_EmptySet

(* No step takes a request out of Numbered.                                *)
LEMMA NumberedGrows ==
    ASSUME Numbered \subseteq Numbered'
    PROVE  Cardinality(Numbered) <= Cardinality(Numbered')
<1>1. IsFiniteSet(Numbered')
  BY IntakeAssumption, FS_Subset DEF Numbered
<1>. QED
  BY <1>1, FS_Subset

(* A request that takes a number of the sequence adds one to those that    *)
(* have one.                                                               *)
LEMMA StepNumbers ==
    ASSUME TypeOK, NEW r \in Requests, Step(r, "create"), req[r] \notin {"create", "publish"} \cup Answers
    PROVE  Cardinality(Numbered') = Cardinality(Numbered) + 1
<1>1. Numbered' = Numbered \cup {r} /\ r \notin Numbered
  BY DEF TypeOK, Step, Numbered
<1>. QED
  BY <1>1, CountedAreFinite, FS_AddElement

-----------------------------------------------------------------------------
LEMMA HitType ==
    ASSUME TypeOK, NEW d \in Disturbances, Hit(d)
    PROVE  hits' \in [Disturbances -> Nat] /\ hits[d] < hits'[d]
  BY DEF TypeOK, Hit

(* The operations on the tables and the queue keep their types, and Create *)
(* makes the order exist.                                                  *)
LEMMA CreateType ==
    ASSUME StoreTypeOK, NEW o \in Orders, Create(o)
    PROVE  StoreTypeOK' /\ Exists(o)' /\ \A v \in Orders : Exists(v) => Exists(v)'
<1>1. [status |-> "received", by |-> NoWorker] \in LogEntry
  BY DEF LogEntry, OrderStatuses
<1>2. statusLog' \in [Orders -> Seq(LogEntry)]
  BY <1>1 DEF StoreTypeOK, Create
<1>3. orders' \in [Orders -> OrderRow]
  BY DEF StoreTypeOK, Create, OrderRow, OrderStatuses
<1>. QED
  BY <1>2, <1>3 DEF StoreTypeOK, Create, Exists, OrderRow

LEMMA PublishType ==
    ASSUME BrokerTypeOK, NEW o \in Orders, Publish(o)
    PROVE  /\ BrokerTypeOK' /\ message'[o] = "ready"
           /\ \A v \in Orders \ {o} : message'[v] = message[v]
  BY DEF BrokerTypeOK, Publish, MessageStates

(* What leaves the tables alone.                                           *)
LEMMA StoreFrame == UNCHANGED storeVars => (StoreTypeOK => StoreTypeOK') /\ \A o : Exists(o)' <=> Exists(o)
  BY DEF storeVars, StoreTypeOK, Exists

(* What leaves the queues alone.                                           *)
LEMMA BrokerFrame == UNCHANGED brokerVars => (BrokerTypeOK => BrokerTypeOK') /\ message' = message
  BY DEF brokerVars, BrokerTypeOK

-----------------------------------------------------------------------------
(* Core: the semaphore, the sequence and the numbers.                      *)

(* What a request that moves from one place to another has to show.        *)
LEMMA StepKeepsNumbered ==
    ASSUME TypeOK, NEW r \in Requests, NEW place, Step(r, place),
           req[r] \in {"create", "publish"} \cup Answers =>
               place \in {"create", "publish"} \cup Answers
    PROVE  Cardinality(Numbered) <= Cardinality(Numbered')
<1>1. Numbered \subseteq Numbered'
  BY DEF TypeOK, Step, Numbered
<1>. QED
  BY <1>1, NumberedGrows

LEMMA Slots == SlotsMatchRequests <=> sem = Cardinality(Inside) /\ sem <= MaxConcurrent
  BY DEF SlotsMatchRequests, Inside

LEMMA SlotsPrime == SlotsMatchRequests' <=> sem' = Cardinality(Inside') /\ sem' <= MaxConcurrent
  BY DEF SlotsMatchRequests, Inside

LEMMA CardinalityPrime == Cardinality(Inside') \in Nat /\ Cardinality(Numbered') \in Nat
<1>1. IsFiniteSet(Inside') /\ IsFiniteSet(Numbered')
  BY IntakeAssumption, FS_Subset DEF Inside, Numbered
<1>. QED
  BY <1>1, FS_CardinalityType

(* An answer gives the slot back.                                          *)
LEMMA ReplySlots ==
    ASSUME TypeOK, SlotsMatchRequests, NEW r \in Requests, NEW answer \in Answers,
           Reply(r, answer), req[r] \in InService
    PROVE  SlotsMatchRequests' /\ sem' \in Nat
<1>1. answer \notin InService
  BY DEF Answers, InService
<1>2. Cardinality(Inside') = Cardinality(Inside) - 1 /\ Cardinality(Inside) > 0
  BY <1>1, StepLeaves DEF Reply
<1>. QED
  BY <1>2, Slots, SlotsPrime, CountedAreFinite, IntakeAssumption DEF Reply

(* A request that goes on keeps its slot.                                  *)
LEMMA StepSlots ==
    ASSUME TypeOK, SlotsMatchRequests, NEW r \in Requests, NEW place, Step(r, place),
           req[r] \in InService <=> place \in InService, UNCHANGED sem
    PROVE  SlotsMatchRequests' /\ sem' \in Nat
<1>1. Inside' = Inside
  BY StepKeepsInside
<1>. QED
  BY <1>1, Slots, SlotsPrime DEF TypeOK

(* A step that gives no number leaves the count behind the sequence.       *)
LEMMA CountFrame ==
    ASSUME TypeOK, CountInv, UNCHANGED lastValue, Cardinality(Numbered) <= Cardinality(Numbered')
    PROVE  CountInv'
  BY CountedAreFinite, CardinalityPrime DEF TypeOK, CountInv

(* Every action keeps Core.                                                *)
LEMMA ArriveCore ==
    ASSUME Core, NEW r \in Requests, Arrive(r) PROVE Core'
<1>. USE DEF Core, Arrive
<1>1. SlotsMatchRequests' /\ sem' \in Nat
  BY StepSlots DEF InService
<1>2. CountInv'
  BY StepKeepsNumbered, CountFrame DEF Answers
<1>3. TypeOK'
  BY <1>1, StoreFrame, BrokerFrame DEF TypeOK, Step, RequestPc
<1>4. LockInv' /\ NumberInv'
  BY DEF TypeOK, LockInv, NumberInv, Step
<1>. QED
  BY <1>1, <1>2, <1>3, <1>4

LEMMA AcquireCore ==
    ASSUME Core, NEW r \in Requests, Acquire(r) PROVE Core'
<1>. USE DEF Core, Acquire
<1>1. SlotsMatchRequests' /\ sem' \in Nat
  BY StepEnters, Slots, SlotsPrime, CountedAreFinite, IntakeAssumption DEF InService, TypeOK
<1>2. CountInv'
  BY StepKeepsNumbered, CountFrame DEF Answers
<1>3. TypeOK'
  BY <1>1, StoreFrame, BrokerFrame DEF TypeOK, Step, RequestPc, InService
<1>4. LockInv' /\ NumberInv'
  BY DEF TypeOK, LockInv, NumberInv, Step
<1>. QED
  BY <1>1, <1>2, <1>3, <1>4

LEMMA TooManyCore ==
    ASSUME Core, NEW r \in Requests, TooMany(r) PROVE Core'
<1>. USE DEF Core, TooMany
<1>1. SlotsMatchRequests' /\ sem' \in Nat
  BY StepSlots DEF InService
<1>2. CountInv'
  BY StepKeepsNumbered, CountFrame DEF Answers
<1>3. TypeOK'
  BY <1>1, StoreFrame, BrokerFrame DEF TypeOK, Step, RequestPc, Answers
<1>4. LockInv' /\ NumberInv'
  BY DEF TypeOK, LockInv, NumberInv, Step
<1>. QED
  BY <1>1, <1>2, <1>3, <1>4

LEMMA BeginSequenceCore ==
    ASSUME Core, NEW r \in Requests, BeginSequence(r) PROVE Core'
<1>. USE DEF Core, BeginSequence
<1>1. SlotsMatchRequests' /\ sem' \in Nat
  BY StepSlots DEF InService
<1>2. CountInv'
  BY StepKeepsNumbered, CountFrame DEF Answers
<1>3. TypeOK'
  BY <1>1, StoreFrame, BrokerFrame DEF TypeOK, Step, RequestPc, InService
<1>4. LockInv' /\ NumberInv'
  BY DEF TypeOK, LockInv, NumberInv, Step
<1>. QED
  BY <1>1, <1>2, <1>3, <1>4

(* The upsert takes the row, which no other transaction holds.             *)
LEMMA UpsertCore ==
    ASSUME Core, NEW r \in Requests, Upsert(r) PROVE Core'
<1>. USE DEF Core, Upsert
<1>1. SlotsMatchRequests' /\ sem' \in Nat
  BY StepSlots DEF InService
<1>2. CountInv'
  BY StepKeepsNumbered, CountFrame DEF Answers
<1>3. TypeOK'
  BY <1>1, StoreFrame, BrokerFrame DEF TypeOK, Step, RequestPc, InService
<1>4. LockInv' /\ NumberInv'
  BY IntakeAssumption DEF TypeOK, LockInv, NumberInv, Step
<1>. QED
  BY <1>1, <1>2, <1>3, <1>4

(* The next number of the sequence: there is one for every request.        *)
LEMMA NextNumber ==
    ASSUME Core, NEW r \in Requests, req[r] = "commit", Step(r, "create"),
           lastValue' \in {lastValue, snap[r] + 1}
    PROVE  CountInv' /\ snap[r] = lastValue /\ snap[r] + 1 \in Orders
<1>. USE DEF Core
<1>1. snap[r] = lastValue /\ lastValue \in Nat
  BY DEF LockInv, TypeOK
<1>2. Cardinality(Numbered') = Cardinality(Numbered) + 1
  BY StepNumbers DEF Answers
<1>3. Cardinality(Numbered') <= Cardinality(Requests)
  BY IntakeAssumption, FS_Subset DEF Numbered
<1>4. CountInv'
  BY <1>1, <1>2, CountedAreFinite DEF CountInv
<1>5. lastValue + 1 \in 1 .. Cardinality(Requests)
  BY <1>1, <1>2, <1>3, CountedAreFinite DEF CountInv
<1>. QED
  BY <1>1, <1>4, <1>5, IntakeAssumption

LEMMA CommitSequenceCore ==
    ASSUME Core, NEW r \in Requests, CommitSequence(r) PROVE Core'
<1>. USE DEF Core, CommitSequence
<1>1. SlotsMatchRequests' /\ sem' \in Nat
  BY StepSlots DEF InService
<1>2. CountInv' /\ snap[r] = lastValue /\ snap[r] + 1 \in Orders
  BY NextNumber
<1>3. TypeOK'
  BY <1>1, StoreFrame, BrokerFrame DEF TypeOK, Step, RequestPc, InService
<1>4. LockInv'
  BY IntakeAssumption DEF TypeOK, LockInv, Step
<1>5. NumberInv'
  BY <1>2, IntakeAssumption DEF TypeOK, NumberInv, Step
<1>. QED
  BY <1>1, <1>2, <1>3, <1>4, <1>5

LEMMA SequenceFailsCore ==
    ASSUME Core, NEW r \in Requests, SequenceFails(r) PROVE Core'
<1>. USE DEF Core
<1>1. PICK n \in Orders : n >= RandomFrom /\ number' = [number EXCEPT ![r] = n]
  BY DEF SequenceFails
<1>2. n \in Nat
  BY IntakeAssumption
<1>3. /\ req[r] \in {"upsert", "commit"} /\ Step(r, "create")
      /\ UNCHANGED <<storeVars, brokerVars, tries, snap, sem, server>>
  BY DEF SequenceFails
<1>4. SlotsMatchRequests' /\ sem' \in Nat
  BY <1>3, StepSlots DEF InService
<1>5. CASE req[r] = "upsert"
  <2>1. UNCHANGED <<lastValue, rowLock, hits>>
    BY <1>5 DEF SequenceFails
  <2>2. CountInv'
    BY <1>3, <2>1, StepKeepsNumbered, CountFrame DEF Answers
  <2>3. TypeOK'
    BY <1>1, <1>2, <1>3, <1>4, <2>1, StoreFrame, BrokerFrame DEF TypeOK, Step, RequestPc, InService
  <2>4. LockInv' /\ NumberInv'
    BY <1>1, <1>3, <2>1 DEF TypeOK, LockInv, NumberInv, Step
  <2>. QED
    BY <1>4, <2>2, <2>3, <2>4
<1>6. CASE req[r] = "commit"
  <2>1. Hit("db") /\ rowLock' = NoRequest /\ lastValue' \in {lastValue, snap[r] + 1}
    BY <1>6 DEF SequenceFails
  <2>2. CountInv' /\ snap[r] = lastValue
    BY <1>3, <1>6, <2>1, NextNumber
  <2>3. hits' \in [Disturbances -> Nat]
    BY <2>1, HitType DEF Disturbances
  <2>4. TypeOK'
    BY <1>1, <1>2, <1>3, <1>4, <2>1, <2>3, StoreFrame, BrokerFrame
       DEF TypeOK, Step, RequestPc, InService
  <2>5. LockInv'
    BY <1>3, <1>6, <2>1 DEF TypeOK, LockInv, Step
  <2>6. NumberInv'
    BY <1>1, <1>3, <2>1, <2>2, IntakeAssumption DEF TypeOK, NumberInv, Step
  <2>. QED
    BY <1>4, <2>2, <2>4, <2>5, <2>6
<1>. QED
  BY <1>3, <1>5, <1>6

(* What the four steps that store and publish do to a request.             *)
AfterNumber(r) ==
    /\ req[r] \in {"create", "publish"}
    /\ \/ \E answer \in {"created", "error"} : Reply(r, answer)
       \/ UNCHANGED sem /\ \E place \in {"create", "publish"} : Step(r, place)
    /\ UNCHANGED <<number, lastValue, snap, rowLock, server>>

LEMMA AfterNumberCore ==
    ASSUME Core, NEW r \in Requests, AfterNumber(r), StoreTypeOK', BrokerTypeOK',
           tries' \in [Requests -> Nat], hits' \in [Disturbances -> Nat]
    PROVE  Core'
<1>. USE DEF Core, AfterNumber
<1>1. SlotsMatchRequests' /\ sem' \in Nat
  <2>1. ASSUME NEW answer \in {"created", "error"}, Reply(r, answer)
        PROVE  SlotsMatchRequests' /\ sem' \in Nat
    BY <2>1, ReplySlots DEF InService, Answers
  <2>2. ASSUME NEW place \in {"create", "publish"}, Step(r, place), UNCHANGED sem
        PROVE  SlotsMatchRequests' /\ sem' \in Nat
    BY <2>2, StepSlots DEF InService
  <2>. QED
    BY <2>1, <2>2
<1>2. PICK place \in {"create", "publish", "created", "error"} : Step(r, place)
  BY DEF Reply
<1>3. CountInv'
  BY <1>2, StepKeepsNumbered, CountFrame DEF Answers
<1>4. TypeOK'
  BY <1>1, <1>2 DEF TypeOK, Step, RequestPc, InService, Answers
<1>5. LockInv' /\ NumberInv'
  BY <1>2 DEF TypeOK, LockInv, NumberInv, Step
<1>. QED
  BY <1>1, <1>3, <1>4, <1>5

LEMMA StoreOrderCore ==
    ASSUME Core, NEW r \in Requests, StoreOrder(r) PROVE Core'
<1>1. number[r] \in Orders
  BY DEF Core, NumberInv, StoreOrder
<1>2. AfterNumber(r)
  BY DEF StoreOrder, AfterNumber
<1>3. StoreTypeOK' /\ BrokerTypeOK' /\ UNCHANGED <<tries, hits>>
  BY <1>1, CreateType, BrokerFrame DEF StoreOrder, Core, TypeOK
<1>. QED
  BY <1>2, <1>3, AfterNumberCore DEF Core, TypeOK

LEMMA StoreFailsCore ==
    ASSUME Core, NEW r \in Requests, StoreFails(r) PROVE Core'
<1>1. number[r] \in Orders
  BY DEF Core, NumberInv, StoreFails
<1>2. AfterNumber(r)
  BY DEF StoreFails, AfterNumber
<1>3. StoreTypeOK' /\ BrokerTypeOK' /\ UNCHANGED tries
  BY <1>1, CreateType, StoreFrame, BrokerFrame DEF StoreFails, Core, TypeOK
<1>4. hits' \in [Disturbances -> Nat]
  BY HitType DEF StoreFails, Core, TypeOK, Disturbances
<1>. QED
  BY <1>2, <1>3, <1>4, AfterNumberCore DEF Core, TypeOK

LEMMA PublishOrderCore ==
    ASSUME Core, NEW r \in Requests, PublishOrder(r) PROVE Core'
<1>1. number[r] \in Orders
  BY DEF Core, NumberInv, PublishOrder
<1>2. AfterNumber(r)
  BY DEF PublishOrder, AfterNumber
<1>3. StoreTypeOK' /\ BrokerTypeOK' /\ UNCHANGED tries
  BY <1>1, PublishType, StoreFrame, BrokerFrame DEF PublishOrder, Core, TypeOK
<1>4. hits' \in [Disturbances -> Nat]
  BY HitType DEF PublishOrder, Core, TypeOK, Disturbances
<1>. QED
  BY <1>2, <1>3, <1>4, AfterNumberCore DEF Core, TypeOK

LEMMA PublishFailsCore ==
    ASSUME Core, NEW r \in Requests, PublishFails(r) PROVE Core'
<1>1. AfterNumber(r)
  <2>1. UNCHANGED req => Step(r, "publish")
    BY DEF PublishFails, Step, Core, TypeOK
  <2>. QED
    BY <2>1 DEF PublishFails, AfterNumber
<1>2. StoreTypeOK' /\ BrokerTypeOK'
  BY StoreFrame, BrokerFrame DEF PublishFails, Core, TypeOK
<1>3. hits' \in [Disturbances -> Nat] /\ tries' \in [Requests -> Nat]
  BY HitType DEF PublishFails, Core, TypeOK, Disturbances
<1>. QED
  BY <1>1, <1>2, <1>3, AfterNumberCore

(* The process ends: no request is inside CreateOrder and no slot taken.   *)
LEMMA DownCore ==
    ASSUME Core, NEW how \in {"ended", "killed"}, Down(how), hits' \in [Disturbances -> Nat],
           UNCHANGED <<storeVars, brokerVars, number, tries, lastValue, snap>>
    PROVE  Core'
<1>. USE DEF Core, Down
<1>1. Inside' = {}
  BY DEF Inside, InService, TypeOK
<1>2. SlotsMatchRequests'
  BY <1>1, SlotsPrime, FS_EmptySet, IntakeAssumption
<1>3. Numbered \subseteq Numbered'
  BY DEF Numbered, Answers, InService, TypeOK
<1>4. CountInv'
  BY <1>3, NumberedGrows, CountFrame
<1>5. TypeOK'
  BY StoreFrame, BrokerFrame DEF TypeOK, RequestPc, Answers
<1>6. LockInv' /\ NumberInv'
  BY DEF TypeOK, LockInv, NumberInv, InService
<1>. QED
  BY <1>2, <1>4, <1>5, <1>6

(* The process starts or is told to stop: no request moves.                *)
LEMMA ServerCore ==
    ASSUME Core, server' \in {"serving", "closing"}, hits' \in [Disturbances -> Nat],
           UNCHANGED <<storeVars, brokerVars, req, number, tries, lastValue, snap, rowLock, sem>>
    PROVE  Core'
<1>. USE DEF Core
<1>1. Inside' = Inside /\ Numbered' = Numbered
  BY DEF Inside, Numbered
<1>2. SlotsMatchRequests' /\ CountInv'
  BY <1>1, Slots, SlotsPrime DEF CountInv
<1>3. TypeOK'
  BY StoreFrame, BrokerFrame DEF TypeOK
<1>4. LockInv' /\ NumberInv'
  BY DEF LockInv, NumberInv
<1>. QED
  BY <1>2, <1>3, <1>4

LEMMA CoreInit == Init => Core
<1>. SUFFICES ASSUME Init PROVE Core
  OBVIOUS
<1>1. StoreTypeOK /\ BrokerTypeOK
  BY DEF Init, StoreInit, BrokerInit, StoreTypeOK, BrokerTypeOK, NoRow, OrderRow, OrderStatuses,
         MessageStates
<1>2. TypeOK
  BY <1>1 DEF Init, TypeOK, RequestPc, Disturbances
<1>3. Inside = {}
  BY DEF Init, Inside, InService
<1>4. SlotsMatchRequests
  BY <1>3, Slots, FS_EmptySet, IntakeAssumption DEF Init
<1>5. CountInv
  BY CountedAreFinite DEF Init, CountInv
<1>6. LockInv /\ NumberInv
  BY DEF Init, LockInv, NumberInv
<1>. QED
  BY <1>2, <1>4, <1>5, <1>6 DEF Core

LEMMA CoreStep == Core /\ [Next]_vars => Core'
<1>. SUFFICES ASSUME Core, [Next]_vars PROVE Core'
  OBVIOUS
<1>1. ASSUME NEW r \in Requests, Arrive(r) \/ Handle(r)
      PROVE  Core'
  BY <1>1, ArriveCore, AcquireCore, TooManyCore, BeginSequenceCore, UpsertCore,
     CommitSequenceCore, SequenceFailsCore, StoreOrderCore, StoreFailsCore, PublishOrderCore,
     PublishFailsCore DEF Handle
<1>2. CASE Shutdown \/ Restart
  BY <1>2, ServerCore, HitType DEF Shutdown, Restart, Disturbances, Core
<1>3. CASE Exit \/ CrashServer
  BY <1>3, DownCore, HitType DEF Exit, CrashServer, Disturbances, Core, TypeOK
<1>4. CASE UNCHANGED vars
  BY <1>4, ServerCore DEF vars, storeVars, brokerVars, Core, TypeOK, SlotsMatchRequests,
     LockInv, CountInv, NumberInv, Numbered, StoreTypeOK, BrokerTypeOK
<1>. QED
  BY <1>1, <1>2, <1>3, <1>4 DEF Next

(* Types, slots, the lock and the numbers, over every interleaving of      *)
(* requests.                                                               *)
LEMMA CoreInvariant == Spec => []Core
  BY CoreInit, CoreStep, PTL DEF Spec

-----------------------------------------------------------------------------
(* Numbers.                                                                *)

(* GetAndIncrementSequence gives a number above all it gave before; only a *)
(* drawn number can be the same.                                           *)
LEMMA CollideStep == Core /\ OnlyRandomNumbersCollide /\ [Next]_vars => OnlyRandomNumbersCollide'
<1>. SUFFICES ASSUME Core, OnlyRandomNumbersCollide, [Next]_vars
              PROVE  OnlyRandomNumbersCollide'
  OBVIOUS
<1>. USE DEF OnlyRandomNumbersCollide
<1>1. CASE UNCHANGED number
  BY <1>1
<1>2. ASSUME NEW r \in Requests, CommitSequence(r)
      PROVE  OnlyRandomNumbersCollide'
  <2>1. \A s \in Requests : number[s] <= lastValue \/ number[s] >= RandomFrom
    BY DEF Core, NumberInv
  <2>2. number' = [number EXCEPT ![r] = lastValue + 1] /\ lastValue \in Nat
    BY <1>2 DEF CommitSequence, Core, LockInv, TypeOK
  <2>. QED
    BY <2>1, <2>2, IntakeAssumption DEF Core, TypeOK
<1>3. ASSUME NEW r \in Requests, SequenceFails(r)
      PROVE  OnlyRandomNumbersCollide'
  <2>1. PICK n \in Orders : n >= RandomFrom /\ number' = [number EXCEPT ![r] = n]
    BY <1>3 DEF SequenceFails
  <2>. QED
    BY <2>1 DEF Core, TypeOK
<1>. QED
  BY <1>1, <1>2, <1>3 DEF Next, Handle, Arrive, Acquire, TooMany, BeginSequence, Upsert,
     StoreOrder, StoreFails, PublishOrder, PublishFails, Shutdown, Exit, CrashServer, Restart, vars

-----------------------------------------------------------------------------
(* Rows and messages.                                                      *)

MessageInv == PublisherInv /\ PublishedIsStored /\ PublishedIsAccepted /\ AcceptedIsPublished

(* A step that publishes nothing and accepts no order.                     *)
Quiet ==
    /\ UNCHANGED message
    /\ \A o \in Orders : Exists(o) => Exists(o)'
    /\ hits["lost"] <= hits'["lost"]
    /\ \A r \in Requests :
        /\ req'[r] = "publish" => req[r] = "publish"
        /\ req'[r] = "created" <=> req[r] = "created"
        /\ req[r] \in {"publish", "created"} => number'[r] = number[r]

(* A step that neither stores nor publishes keeps what is known of         *)
(* messages.                                                               *)
LEMMA QuietStep ==
    ASSUME Core, MessageInv, Quiet
    PROVE  MessageInv'
<1>. USE DEF MessageInv, Quiet
<1>1. \A r \in Requests : req[r] \in {"publish", "created"} => number[r] \in Orders
  BY DEF Core, NumberInv
<1>2. PublisherInv'
  BY <1>1 DEF PublisherInv
<1>3. PublishedIsStored'
  BY DEF PublishedIsStored
<1>4. PublishedIsAccepted'
  BY DEF PublishedIsAccepted
<1>5. AcceptedIsPublished'
  BY DEF AcceptedIsPublished, Core, TypeOK, Disturbances
<1>. QED
  BY <1>2, <1>3, <1>4, <1>5

(* A new row: nobody has published under its number, nor is about to.      *)
LEMMA StoreOrderStep ==
    ASSUME Core, MessageInv, NEW r \in Requests, StoreOrder(r)
    PROVE  MessageInv'
<1>. USE DEF MessageInv
<1>1. number[r] \in Orders /\ req[r] = "create" /\ ~Exists(number[r])
  BY DEF Core, NumberInv, StoreOrder
<1>2. Exists(number[r])' /\ \A o \in Orders : Exists(o) => Exists(o)'
  BY <1>1, CreateType DEF StoreOrder, Core, TypeOK
<1>3. UNCHANGED <<message, number, hits>>
  BY DEF StoreOrder, brokerVars
<1>4. message[number[r]] = "none"
  BY <1>1 DEF PublishedIsStored
<1>5. /\ req'[r] = "publish" \/ (req'[r] = "created" /\ PublishAttempts = 0)
      /\ \A s \in Requests \ {r} : req'[s] = req[s]
  BY DEF StoreOrder, Reply, Step, Core, TypeOK
<1>6. \A s \in Requests : req[s] \in {"publish", "created"} => number[s] \in Orders
  BY DEF Core, NumberInv
<1>7. PublisherInv'
  BY <1>1, <1>2, <1>3, <1>4, <1>5, <1>6 DEF PublisherInv, Core, TypeOK
<1>8. PublishedIsStored'
  BY <1>2, <1>3 DEF PublishedIsStored
<1>9. PublishedIsAccepted'
  BY <1>1, <1>3, <1>5 DEF PublishedIsAccepted, Core, TypeOK
<1>10. AcceptedIsPublished'
  BY <1>3, <1>5 DEF AcceptedIsPublished, Core, TypeOK
<1>. QED
  BY <1>7, <1>8, <1>9, <1>10

(* The message is published, or lost on its way.                           *)
LEMMA PublishOrderStep ==
    ASSUME Core, MessageInv, NEW r \in Requests, PublishOrder(r)
    PROVE  MessageInv'
<1>. USE DEF MessageInv
<1>1. /\ number[r] \in Orders /\ Exists(number[r]) /\ message[number[r]] = "none"
      /\ \A s \in Requests \ {r} : req[s] = "publish" => number[s] # number[r]
  BY DEF Core, NumberInv, PublishOrder, PublisherInv
<1>2. \A o : Exists(o)' <=> Exists(o)
  BY StoreFrame DEF PublishOrder
<1>3. req' = [req EXCEPT ![r] = "created"] /\ UNCHANGED number
  BY DEF PublishOrder, Reply, Step
<1>4. \A s \in Requests : req[s] \in {"publish", "created"} => number[s] \in Orders
  BY DEF Core, NumberInv
<1>5. /\ message'[number[r]] \in {"none", "ready"}
      /\ \A o \in Orders \ {number[r]} : message'[o] = message[o]
      /\ message'[number[r]] = "none" => hits'["lost"] > 0
      /\ hits["lost"] <= hits'["lost"] /\ hits["lost"] \in Nat
  <2>1. hits["lost"] \in Nat
    BY DEF Core, TypeOK, Disturbances
  <2>2. CASE Publish(number[r]) /\ UNCHANGED hits
    BY <1>1, <2>1, <2>2, PublishType DEF Core, TypeOK
  <2>3. CASE Hit("lost") /\ UNCHANGED brokerVars
    BY <1>1, <2>1, <2>3, HitType DEF Core, TypeOK, Disturbances, brokerVars
  <2>. QED
    BY <2>2, <2>3 DEF PublishOrder
<1>6. PublisherInv'
  BY <1>1, <1>2, <1>3, <1>4, <1>5 DEF PublisherInv, Core, TypeOK
<1>7. PublishedIsStored'
  BY <1>1, <1>2, <1>5 DEF PublishedIsStored
<1>8. PublishedIsAccepted'
  BY <1>1, <1>3, <1>5 DEF PublishedIsAccepted, Core, TypeOK
<1>9. AcceptedIsPublished'
  BY <1>1, <1>3, <1>4, <1>5 DEF AcceptedIsPublished, Core, TypeOK, Disturbances
<1>. QED
  BY <1>6, <1>7, <1>8, <1>9

(* Store before publish, publish before the answer.                        *)
LEMMA MessageStep == Core /\ MessageInv /\ [Next]_vars => MessageInv'
<1>. SUFFICES ASSUME Core, MessageInv, [Next]_vars PROVE MessageInv'
  OBVIOUS
<1>0. hits["lost"] \in Nat /\ \A d \in Disturbances : Hit(d) => hits["lost"] <= hits'["lost"]
  BY DEF Core, TypeOK, Disturbances, Hit
<1>1. ASSUME NEW r \in Requests, StoreFails(r)
      PROVE  Quiet
  <2>1. \A o \in Orders : Exists(o) => Exists(o)'
    <3>1. number[r] \in Orders
      BY <1>1 DEF Core, NumberInv, StoreFails
    <3>. QED
      BY <1>1, <3>1, CreateType, StoreFrame DEF StoreFails, Core, TypeOK
  <2>2. hits["lost"] <= hits'["lost"]
    BY <1>0, <1>1 DEF StoreFails, Disturbances
  <2>. QED
    BY <1>1, <2>1, <2>2 DEF StoreFails, Quiet, Reply, Step, brokerVars, Core, TypeOK
<1>2. ASSUME NEW r \in Requests,
             \/ Arrive(r) \/ Acquire(r) \/ TooMany(r) \/ BeginSequence(r) \/ Upsert(r)
             \/ CommitSequence(r) \/ SequenceFails(r) \/ PublishFails(r)
      PROVE  Quiet
  <2>1. \A o \in Orders : Exists(o) => Exists(o)'
    BY <1>2, StoreFrame DEF Arrive, Acquire, TooMany, BeginSequence, Upsert, CommitSequence,
       SequenceFails, PublishFails
  <2>2. UNCHANGED message
    BY <1>2 DEF Arrive, Acquire, TooMany, BeginSequence, Upsert, CommitSequence,
       SequenceFails, PublishFails, brokerVars
  <2>3. hits["lost"] <= hits'["lost"]
    BY <1>0, <1>2 DEF Arrive, Acquire, TooMany, BeginSequence, Upsert, CommitSequence,
       SequenceFails, PublishFails, Disturbances
  <2>4. \E place \in RequestPc \ {"created"} :
          /\ req' = [req EXCEPT ![r] = place] /\ req[r] # "created"
          /\ place = "publish" => req[r] = "publish"
    <3>1. CASE PublishFails(r)
      BY <3>1 DEF PublishFails, Reply, Step, RequestPc, InService, Answers, Core, TypeOK
    <3>. QED
      BY <1>2, <3>1 DEF Arrive, Acquire, TooMany, BeginSequence, Upsert, CommitSequence,
         SequenceFails, Step, RequestPc, InService, Answers
  <2>5. \A s \in Requests : req[s] \in {"publish", "created"} => number'[s] = number[s]
    BY <1>2 DEF Arrive, Acquire, TooMany, BeginSequence, Upsert, CommitSequence,
       SequenceFails, PublishFails, Core, TypeOK
  <2>. QED
    BY <2>1, <2>2, <2>3, <2>4, <2>5 DEF Quiet, Core, TypeOK
<1>3. CASE Shutdown \/ Exit \/ CrashServer \/ Restart \/ UNCHANGED vars
  <2>1. UNCHANGED <<storeVars, brokerVars, number>>
    BY <1>3 DEF Shutdown, Exit, CrashServer, Restart, vars, storeVars, brokerVars
  <2>2. hits["lost"] <= hits'["lost"]
    BY <1>0, <1>3 DEF Shutdown, Exit, CrashServer, Restart, vars, Disturbances
  <2>3. \A r \in Requests : req'[r] \in {req[r], "cut"} /\ (req[r] = "created" => req'[r] = "created")
    BY <1>3 DEF Shutdown, Exit, CrashServer, Restart, vars, Down, InService
  <2>4. Quiet
    BY <2>1, <2>2, <2>3, StoreFrame DEF Quiet, brokerVars
  <2>. QED
    BY <2>4, QuietStep
<1>. QED
  BY <1>1, <1>2, <1>3, QuietStep, StoreOrderStep, PublishOrderStep DEF Next, Handle

LEMMA MessageInit == Init => MessageInv /\ OnlyRandomNumbersCollide
  BY DEF Init, BrokerInit, MessageInv, PublisherInv, PublishedIsStored, PublishedIsAccepted,
     AcceptedIsPublished, OnlyRandomNumbersCollide

-----------------------------------------------------------------------------
(* Results.                                                                *)

(* The inductive invariant of the order service: what the semaphore, the   *)
(* row of order_sequences and the unique order number guarantee at every   *)
(* place of CreateOrder, over failures, crashes and restarts.              *)
THEOREM InductiveInvariant == Spec => []IndInv
<1>1. Init => IndInv
  BY CoreInit, MessageInit DEF IndInv, MessageInv
<1>2. IndInv /\ [Next]_vars => IndInv'
  BY CoreStep, CollideStep, MessageStep DEF IndInv, MessageInv
<1>. QED
  BY <1>1, <1>2, PTL DEF Spec

(* Every state of the order service is well typed; in particular Release   *)
(* never makes the count of slots negative, and every order that is stored *)
(* has a number of the day.                                                *)
THEOREM TypeCorrect == Spec => []TypeOK
  BY CoreInvariant, PTL DEF Core

(* The semaphore counts the requests inside CreateOrder exactly and admits *)
(* no more than --max-concurrent, whatever fails.                          *)
THEOREM SlotsAreExact == Spec => []SlotsMatchRequests
  BY CoreInvariant, PTL DEF Core

(* GetAndIncrementSequence never gives a number twice: the serializable    *)
(* transaction and the lock of the row are enough.                         *)
THEOREM SequenceIsUnique == Spec => []OnlyRandomNumbersCollide
  BY InductiveInvariant, PTL DEF IndInv

(* PublishCreateOrder is called for orders that Create has committed only. *)
THEOREM StoredBeforePublished == Spec => []PublishedIsStored
  BY InductiveInvariant, PTL DEF IndInv

(* CreateOrder does not report success before PublishCreateOrder returned  *)
(* nil: an accepted order is lost by the broker or by nobody.              *)
THEOREM AcceptedArePublished == Spec => []AcceptedIsPublished
  BY InductiveInvariant, PTL DEF IndInv

(* An error of CreateOrder is final: the number is published only if it    *)
(* was drawn again and another request was accepted with it.               *)
THEOREM RefusedAreNotPublished == Spec => []RefusedIsNotPublished
<1>1. IndInv => RefusedIsNotPublished
  BY DEF IndInv, PublishedIsAccepted, RefusedIsNotPublished
<1>. QED
  BY <1>1, InductiveInvariant, PTL

-----------------------------------------------------------------------------
(* The order service takes the first steps of the life of an order.        *)

(* A commit of Create stores an order that was not known.                  *)
LEMMA StoreMaps ==
    ASSUME Core, NEW r \in Requests, StoreOrder(r) \/ StoreFails(r)
    PROVE  (\E o \in Orders : Lifecycle!Store(o)) \/ UNCHANGED Lifecycle!vars
<1>1. number[r] \in Orders
  BY DEF Core, NumberInv, StoreOrder, StoreFails
<1>2. UNCHANGED <<Stage, holder>>
  BY SameQueues DEF StoreOrder, StoreFails
<1>3. CASE UNCHANGED storeVars
  BY <1>2, <1>3, SameTables DEF Lifecycle!vars
<1>4. CASE ~Exists(number[r]) /\ Create(number[r])
  <2>1. number[r] \notin Known
    BY <1>4 DEF Known
  <2>2. Known' = Known \cup {number[r]} /\ UNCHANGED <<Begun, Cooked>>
    BY <1>1, <1>4, CreateMakesKnown DEF Core, TypeOK
  <2>. QED
    BY <1>1, <1>2, <2>1, <2>2 DEF Lifecycle!Store
<1>. QED
  BY <1>3, <1>4 DEF StoreOrder, StoreFails

(* PublishCreateOrder places an order that is known and not placed yet.    *)
LEMMA PublishMaps ==
    ASSUME Core, PublisherInv, NEW r \in Requests, PublishOrder(r)
    PROVE  (\E o \in Orders : Lifecycle!Place(o)) \/ UNCHANGED Lifecycle!vars
<1>1. number[r] \in Orders /\ Exists(number[r]) /\ message[number[r]] = "none"
  BY DEF Core, NumberInv, PublisherInv, PublishOrder
<1>2. UNCHANGED <<Known, Begun, Cooked>>
  BY SameTables DEF PublishOrder
<1>3. CASE UNCHANGED brokerVars
  BY <1>2, <1>3, SameQueues DEF Lifecycle!vars
<1>4. CASE Publish(number[r])
  <2>1. Stage[number[r]] = "unknown" /\ number[r] \in Known
    BY <1>1, StageMeaning DEF Core, TypeOK, Known
  <2>2. Stage' = [Stage EXCEPT ![number[r]] = "waiting"] /\ UNCHANGED holder
    BY <1>1, <1>4, StageMoves, StageNames DEF Publish, MessageStates, Core, TypeOK
  <2>3. Known' = Known \cup {number[r]}
    BY <1>2, <2>1
  <2>. QED
    BY <1>1, <1>2, <2>1, <2>2, <2>3 DEF Lifecycle!Place
<1>. QED
  BY <1>3, <1>4 DEF PublishOrder

(* The order service implements the abstract life of an order: however     *)
(* CreateOrder fails, and whenever the process is stopped or crashes, an   *)
(* order is stored once, placed at most once, and never before it is       *)
(* stored.                                                                 *)
THEOREM ServiceImplementsLifecycle == Spec => ImplementsLifecycle
<1>1. Init => Lifecycle!Init
  BY EmptyMaps DEF Init
<1>2. IndInv /\ [Next]_vars => [Lifecycle!Next]_(Lifecycle!vars)
  <2>. SUFFICES ASSUME IndInv, [Next]_vars
                PROVE  Lifecycle!Next \/ UNCHANGED Lifecycle!vars
    OBVIOUS
  <2>. USE DEF IndInv
  <2>1. CASE UNCHANGED <<storeVars, brokerVars>>
    BY <2>1, SameTables, SameQueues DEF Lifecycle!vars
  <2>2. ASSUME NEW r \in Requests, StoreOrder(r) \/ StoreFails(r)
        PROVE  Lifecycle!Next \/ UNCHANGED Lifecycle!vars
    BY <2>2, StoreMaps DEF Lifecycle!Next
  <2>3. ASSUME NEW r \in Requests, PublishOrder(r)
        PROVE  Lifecycle!Next \/ UNCHANGED Lifecycle!vars
    BY <2>3, PublishMaps DEF Lifecycle!Next
  <2>. QED
    BY <2>1, <2>2, <2>3 DEF Next, Handle, Arrive, Acquire, TooMany, BeginSequence, Upsert,
       CommitSequence, SequenceFails, PublishFails, Shutdown, Exit, CrashServer, Restart, vars,
       storeVars, brokerVars
<1>. QED
  BY <1>1, <1>2, InductiveInvariant, PTL DEF Spec, ImplementsLifecycle, Lifecycle!Spec
=============================================================================
