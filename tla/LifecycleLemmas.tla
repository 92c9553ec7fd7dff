-------------------------- MODULE LifecycleLemmas ---------------------------
(***************************************************************************)
(* What a change of the tables or of a queue does to the life of an order, *)
(* as LifecycleMap reads it.  Both refinement proofs cite these.           *)
(***************************************************************************)
EXTENDS LifecycleMap, TLAPS

(* The workers that have logged a status, once an entry is appended.       *)
LEMMA LoggedAfterAppend ==
    ASSUME StoreTypeOK, NEW o \in Orders, NEW e \in LogEntry,
           statusLog' = [statusLog EXCEPT ![o] = Append(@, e)],
           NEW v \in Orders, NEW x, NEW s
    PROVE  Logged(v, x, s)' <=>
             Logged(v, x, s) \/ (v = o /\ e = [status |-> s, by |-> x])
<1>1. statusLog[v] \in Seq(LogEntry) /\ Len(statusLog[v]) \in Nat
  BY DEF StoreTypeOK
<1>2. CASE v # o
  BY <1>2 DEF Logged, StoreTypeOK
<1>3. CASE v = o
  <2>1. statusLog'[v] = Append(statusLog[v], e)
    BY <1>3 DEF StoreTypeOK
  <2>2. /\ DOMAIN statusLog'[v] = 1 .. Len(statusLog[v]) + 1
        /\ DOMAIN statusLog[v] = 1 .. Len(statusLog[v])
        /\ statusLog'[v][Len(statusLog[v]) + 1] = e
        /\ \A i \in 1 .. Len(statusLog[v]) : statusLog'[v][i] = statusLog[v][i]
    BY <1>1, <2>1
  <2>3. \A i \in 1 .. Len(statusLog[v]) + 1 :
          i \in 1 .. Len(statusLog[v]) \/ i = Len(statusLog[v]) + 1
    BY <1>1
  <2>4. Len(statusLog[v]) + 1 \in 1 .. Len(statusLog[v]) + 1
    BY <1>1
  <2>5. \A i \in 1 .. Len(statusLog[v]) : i \in 1 .. Len(statusLog[v]) + 1
    BY <1>1
  <2>. QED
    BY <1>3, <2>2, <2>3, <2>4, <2>5, Zenon DEF Logged
<1>. QED
  BY <1>2, <1>3

(* Tables that do not change.                                              *)
LEMMA SameTables ==
    ASSUME UNCHANGED storeVars
    PROVE  UNCHANGED <<Known, Begun, Cooked>>
  BY DEF storeVars, Known, Begun, Cooked, Exists, HaveLogged, Logged

(* Queues that do not change.                                              *)
LEMMA SameQueues ==
    ASSUME UNCHANGED brokerVars
    PROVE  UNCHANGED <<Stage, holder>>
  BY DEF brokerVars, Stage

(* One message that moves.                                                 *)
LEMMA StageMoves ==
    ASSUME BrokerTypeOK, NEW o \in Orders, NEW to \in MessageStates,
           message' = [message EXCEPT ![o] = to]
    PROVE  Stage' = [Stage EXCEPT ![o] = StageOf[to]]
  BY DEF BrokerTypeOK, Stage

(* The stages by name.                                                     *)
LEMMA StageNames ==
    /\ StageOf["none"] = "unknown" /\ StageOf["ready"] = "waiting"
    /\ StageOf["unacked"] = "assigned" /\ StageOf["acked"] = "served"
    /\ StageOf["dead"] = "given_up"
  BY DEF StageOf

(* The message of an order, read from its stage.                           *)
LEMMA StageMeaning ==
    ASSUME BrokerTypeOK, NEW o \in Orders
    PROVE  /\ Stage[o] = "unknown" <=> message[o] = "none"
           /\ Stage[o] = "waiting" <=> message[o] = "ready"
           /\ Stage[o] = "assigned" <=> message[o] = "unacked"
<1>1. message[o] \in {"none", "ready", "unacked", "acked", "dead"}
  BY DEF BrokerTypeOK, MessageStates
<1>2. Stage[o] = StageOf[message[o]]
  BY DEF Stage
<1>. QED
  BY <1>1, <1>2, StageNames

(* Create makes an order known, and nobody begins or cooks it by that.     *)
LEMMA CreateMakesKnown ==
    ASSUME StoreTypeOK, NEW o \in Orders, Create(o)
    PROVE  Known' = Known \cup {o} /\ UNCHANGED <<Begun, Cooked>>
<1>1. Known' = Known \cup {o}
  BY DEF Create, Known, Exists, StoreTypeOK, OrderRow
<1>2. [status |-> "received", by |-> NoWorker] \in LogEntry
  BY DEF LogEntry, OrderStatuses
<1>3. \A v \in Orders, w \in Workers, s \in {"cooking", "ready"} :
        Logged(v, w, s)' <=> Logged(v, w, s)
  <2>. SUFFICES ASSUME NEW v \in Orders, NEW w \in Workers, NEW s \in {"cooking", "ready"}
                PROVE  Logged(v, w, s)' <=> Logged(v, w, s)
    OBVIOUS
  <2>1. [status |-> "received", by |-> NoWorker] # [status |-> s, by |-> w]
    OBVIOUS
  <2>. QED
    BY <1>2, <2>1, LoggedAfterAppend DEF Create
<1>4. UNCHANGED <<Begun, Cooked>>
  BY <1>3 DEF Begun, Cooked, HaveLogged
<1>. QED
  BY <1>1, <1>4

(* Empty tables and queues are the first state of OrderLifecycle.          *)
LEMMA EmptyMaps ==
    ASSUME StoreInit, BrokerInit
    PROVE  Lifecycle!Init
<1>1. Known = {}
  BY DEF StoreInit, NoRow, Known, Exists
<1>2. Stage = [o \in Orders |-> "unknown"] /\ holder = [o \in Orders |-> NoWorker]
  BY StageNames DEF BrokerInit, Stage
<1>3. Begun = [o \in Orders |-> {}] /\ Cooked = [o \in Orders |-> {}]
  BY DEF StoreInit, Begun, Cooked, HaveLogged, Logged
<1>. QED
  BY <1>1, <1>2, <1>3 DEF Lifecycle!Init
=============================================================================
