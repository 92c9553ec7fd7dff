-------------------------- MODULE SubscriberProofs --------------------------
(***************************************************************************)
(* The notification subscriber, for any number of updates, attempts and    *)
(* failures: it neither skips nor reorders what it prints, and holds what  *)
(* it has acknowledged.                                                    *)
(***************************************************************************)
EXTENDS NotificationSubscriber, TLAPS, SequenceTheorems

-----------------------------------------------------------------------------
(* The inductive invariant.                                                *)

Closing == {"close_stop", "close_queue", "close_conn", "leave"}

(* What the place of a goroutine says about the rest of the process.       *)
ControlInv ==
    /\ ~Running => ~proc.subscribed /\ \A g \in Goroutines : pc[g] = "gone"
    /\ pc["main"] \in Closing => proc.result # "none"
    /\ pc["notify"] = "start" => pc["consume"] = "off"
    /\ pc["consume"] = "reconnect" => proc.attempts < MaxAttempts
    /\ IF pc["consume"] \in {"ack", "send"} THEN hand["consume"] \in Updates
                                            ELSE hand["consume"] = NoUpdate
    /\ IF pc["notify"] = "print" THEN hand["notify"] \in Updates
                                 ELSE hand["notify"] = NoUpdate

(* Where updates are, as the broker sees it.                               *)
QueueInv ==
    /\ pc["notify"] = "start" => queue = "none"
    /\ \A k \in Updates :
        /\ where[k] = "dropped" => queue = "deleted"
        /\ where[k] = "ready" => ~(queue = "deleted" /\ proc.subscribed)
        /\ where[k] = "unacked" =>
              k \in buf \/ (pc["consume"] = "ack" /\ k = hand["consume"])
        /\ where[k] # "unpublished" => \A j \in 1 .. k - 1 : where[j] # "unpublished"

(* The update need not be printed any more.                                *)
Done(k) == where[k] = "missed" \/ Shown(k)

InNotify(k) == k = hand["notify"]
InChannel(k) == outCh = <<k>>
InConsume(k) == k = hand["consume"]

(* Whatever comes before an update is ahead of it in the pipeline.         *)
PipeInv ==
    \A k, n \in Updates : k < n =>
        /\ InNotify(n) => Done(k)
        /\ InChannel(n) => Done(k) \/ InNotify(k)
        /\ InConsume(n) => Done(k) \/ InNotify(k) \/ InChannel(k)
        /\ n \in buf => Done(k) \/ InNotify(k) \/ InChannel(k) \/ InConsume(k) \/ k \in buf

Core == TypeOK /\ ControlInv

IndInv == Core /\ QueueInv /\ AckedIsInside /\ PipeInv /\ FirstShownInOrder

-----------------------------------------------------------------------------
(* Core.                                                                   *)

LEMMA CoreInit == Init => Core
  BY SubscriberAssumption DEF Init, Core, TypeOK, ControlInv, Process, NewProcess, EmptyHands,
     UpdateStates, Places, Goroutines, Disturbances, Closing, Running

(* Updates are numbers from 1 on.                                          *)
LEMMA UpdatesBelow ==
    \A k \in Updates : k \in Nat /\ \A j \in Updates : j < k <=> j \in 1 .. k - 1
  BY SubscriberAssumption DEF Updates

LEMMA EarlierUpdates == \A k \in Updates : 1 .. k - 1 \subseteq Updates
  BY SubscriberAssumption DEF Updates

LEMMA DisturbType ==
    ASSUME TypeOK, NEW d \in Disturbances, Disturb(d)
    PROVE  spent' \in [Disturbances -> Nat]
  BY DEF TypeOK, Disturb

(* A lost connection.                                                      *)
LEMMA LoseLinkEffect ==
    ASSUME TypeOK, NEW p \in Process, LoseLink(p)
    PROVE  /\ proc' \in Process /\ ~proc'.link /\ ~proc'.subscribed
           /\ proc'.exit = p.exit /\ proc'.result = p.result /\ proc'.attempts = p.attempts
           /\ buf' = {}
           /\ where' \in [Updates -> UpdateStates]
           /\ \A k \in Updates : where'[k] = IF where[k] \in {"unacked", "acking"}
                                             THEN "ready" ELSE where[k]
<1>1. proc' = [p EXCEPT !.link = FALSE, !.subscribed = FALSE] /\ buf' = {}
  BY DEF LoseLink
<1>2. /\ proc' \in Process /\ ~proc'.link /\ ~proc'.subscribed
      /\ proc'.exit = p.exit /\ proc'.result = p.result /\ proc'.attempts = p.attempts
  BY <1>1 DEF Process
<1>3. /\ where' \in [Updates -> UpdateStates]
      /\ \A k \in Updates : where'[k] = IF where[k] \in {"unacked", "acking"}
                                        THEN "ready" ELSE where[k]
  BY DEF LoseLink, TypeOK, UpdateStates
<1>. QED
  BY <1>1, <1>2, <1>3

(* The end of the process.                                                 *)
LEMMA DieEffect ==
    ASSUME TypeOK, NEW how \in {"ok", "error", "killed"}, Die(how)
    PROVE  /\ proc' \in Process /\ ~proc'.subscribed /\ proc'.exit = how
           /\ pc' = [g \in Goroutines |-> "gone"]
           /\ buf' = {} /\ hand' = EmptyHands /\ outCh' = << >>
           /\ where' \in [Updates -> UpdateStates]
           /\ \A k \in Updates : where'[k] = IF where[k] \in {"unacked", "acking"}
                                             THEN "ready" ELSE where[k]
<1>1. [NewProcess EXCEPT !.exit = how] \in Process /\ [NewProcess EXCEPT !.exit = how].exit = how
  <2>1. 0 \in 0 .. MaxAttempts
    BY SubscriberAssumption
  <2>2. NewProcess \in Process
    BY <2>1 DEF NewProcess, Process
  <2>3. [NewProcess EXCEPT !.exit = how].exit = how
    BY DEF NewProcess
  <2>. QED
    BY <2>2, <2>3 DEF Process
<1>. QED
  BY <1>1, LoseLinkEffect DEF Die

(* The end of the process keeps Core.                                      *)
LEMMA DieCore ==
    ASSUME Core, NEW how \in {"ok", "error", "killed"}, Die(how),
           shown' = shown, queue' = queue, spent' \in [Disturbances -> Nat]
    PROVE  Core'
<1>1. TypeOK'
  <2>1. hand' \in [{"consume", "notify"} -> Updates \cup {NoUpdate}]
    BY DieEffect DEF Core, EmptyHands
  <2>2. outCh' \in Seq(Updates) /\ Len(outCh') <= 1
    <3>1. outCh' = << >>
      BY DieEffect DEF Core
    <3>. QED
      BY <3>1
  <2>3. pc' \in [Goroutines -> Places]
    BY DieEffect DEF Core, Places
  <2>. QED
    BY <2>1, <2>2, <2>3, DieEffect DEF Core, TypeOK
<1>2. ControlInv'
  BY DieEffect DEF Core, ControlInv, EmptyHands, Goroutines, Closing, Running
<1>. QED
  BY <1>1, <1>2 DEF Core

LEMMA CoreStep == Core /\ [Next]_vars => Core'
<1>. SUFFICES ASSUME Core, [Next]_vars PROVE Core'
  OBVIOUS
<1>. USE SubscriberAssumption DEF Core, TypeOK, ControlInv, Process, UpdateStates, Places,
     Goroutines, Disturbances, Closing, Running, brokerVars, dataVars, Goto
<1>1. ASSUME NEW k \in Updates, Publish(k) PROVE Core'
  BY <1>1 DEF Publish
<1>2. ASSUME NEW k \in Updates, Deliver(k) PROVE Core'
  BY <1>2 DEF Deliver
<1>3. ASSUME NEW k \in Updates, TakeAck(k) PROVE Core'
  BY <1>3 DEF TakeAck
<1>4. ASSUME NEW g \in {"main", "notify"}, CloseStops(g) PROVE Core'
  BY <1>4 DEF CloseStops
<1>5. ASSUME NEW g \in {"main", "notify"}, CloseDeletesQueue(g) PROVE Core'
  BY <1>5 DEF CloseDeletesQueue
<1>6. ASSUME NEW g \in {"main", "notify"}, CloseDisconnects(g) PROVE Core'
  BY <1>6 DEF CloseDisconnects, LoseLink
<1>7. CASE ConnLost
  <2>1. spent' \in [Disturbances -> Nat]
    BY <1>7, DisturbType DEF ConnLost
  <2>2. TypeOK'
    BY <1>7, <2>1, LoseLinkEffect DEF ConnLost
  <2>. QED
    BY <1>7, <2>2, LoseLinkEffect DEF ConnLost
<1>8. CASE Signal
  <2>1. spent' \in [Disturbances -> Nat]
    BY <1>8, DisturbType DEF Signal
  <2>. QED
    BY <1>8, <2>1 DEF Signal
<1>9. CASE Crash
  BY <1>9, DieCore, DisturbType DEF Crash
<1>10. CASE MainSignalled
  BY <1>10 DEF MainSignalled
<1>11. CASE MainReadsError
  BY <1>11 DEF MainReadsError
<1>12. CASE Leave
  <2>1. proc.result \in {"ok", "error"}
    BY <1>12 DEF Leave
  <2>. QED
    BY <1>12, <2>1, DieCore DEF Leave
<1>13. CASE StartListening
  <2>1. /\ pc' \in [Goroutines -> Places]
        /\ pc'["notify"] = "range" /\ pc'["consume"] = "subscribe" /\ pc'["main"] = pc["main"]
    BY <1>13 DEF StartListening
  <2>2. Running
    BY <1>13 DEF StartListening
  <2>3. hand["consume"] = NoUpdate
    BY <1>13 DEF StartListening
  <2>. QED
    BY <1>13, <2>1, <2>2 DEF StartListening
<1>14. CASE StartListeningFails
  BY <1>14 DEF StartListeningFails
<1>15. CASE ReadUpdate
  BY <1>15 DEF ReadUpdate
<1>16. CASE StatusUpdate
  BY <1>16 DEF StatusUpdate
<1>17. CASE RangeEnds
  BY <1>17 DEF RangeEnds
<1>18. CASE ReportStopped
  BY <1>18 DEF ReportStopped
<1>19. CASE Subscribe
  BY <1>19 DEF Subscribe
<1>20. CASE SubscribeFails
  BY <1>20 DEF SubscribeFails
<1>21. CASE Receive
  BY <1>21 DEF Receive
<1>22. CASE Acknowledge
  BY <1>22 DEF Acknowledge
<1>23. CASE SendOut
  BY <1>23 DEF SendOut, HandOver
<1>24. CASE LossReported
  <2>1. /\ proc' \in Process /\ proc'.exit = proc.exit /\ proc'.result = proc.result
        /\ proc'.subscribed = proc.subscribed /\ proc'.attempts = 0
    <3>1. 0 \in 0 .. MaxAttempts /\ proc' = [proc EXCEPT !.connClose = FALSE, !.attempts = 0]
      BY <1>24 DEF LossReported
    <3>. QED
      BY <3>1
  <2>2. TypeOK'
    BY <1>24, <2>1 DEF LossReported
  <2>. QED
    BY <1>24, <2>1, <2>2 DEF LossReported
<1>25. CASE ConsumeStopped
  BY <1>25 DEF ConsumeStopped
<1>26. CASE ReconnectSucceeds
  BY <1>26 DEF ReconnectSucceeds
<1>27. CASE ReconnectFails
  <2>1. proc' = [proc EXCEPT !.attempts = proc.attempts + 1] /\ proc.attempts + 1 \in 0 .. MaxAttempts
    BY <1>27 DEF ReconnectFails
  <2>2. proc' \in Process /\ proc'.exit = proc.exit /\ proc'.result = proc.result
        /\ proc'.subscribed = proc.subscribed
    BY <2>1
  <2>3. spent' \in [Disturbances -> Nat]
    BY <1>27, DisturbType DEF ReconnectFails
  <2>4. TypeOK'
    BY <1>27, <2>2, <2>3 DEF ReconnectFails
  <2>. QED
    BY <1>27, <2>2, <2>4 DEF ReconnectFails
<1>28. CASE BackoffOver
  BY <1>28 DEF BackoffOver
<1>29. CASE AliveReports
  BY <1>29 DEF AliveReports
<1>30. CASE AliveStops
  BY <1>30 DEF AliveStops
<1>31. CASE UNCHANGED vars
  BY <1>31 DEF vars
<1>. QED
  BY <1>1, <1>2, <1>3, <1>4, <1>5, <1>6, <1>7, <1>8, <1>9, <1>10, <1>11, <1>12, <1>13, <1>14, <1>15, <1>16, <1>17, <1>18, <1>19, <1>20, <1>21, <1>22, <1>23, <1>24, <1>25, <1>26, <1>27, <1>28, <1>29, <1>30, <1>31 DEF Next, BrokerStep, MainStep, NotifyStep, ConsumeStep, AliveStep, CloseStep

-----------------------------------------------------------------------------
(* What a step does to updates: nothing, or one of a few things.           *)

Passive ==
    /\ UNCHANGED <<where, queue, buf, hand, outCh, shown>>
    /\ proc'.exit = proc.exit /\ proc'.subscribed = proc.subscribed
    /\ pc["consume"] = "ack" => pc'["consume"] = "ack"
    /\ pc'["notify"] = "start" => pc["notify"] = "start"

LinkLost ==
    /\ LoseLink(proc)
    /\ UNCHANGED <<queue, hand, outCh, shown>>
    /\ pc'["notify"] = "start" => pc["notify"] = "start"

Death == (\E how \in {"ok", "error", "killed"} : Die(how)) /\ UNCHANGED <<queue, shown>>

(* What a step can do to the updates: one of the moves along the pipeline, *)
(* or a loss of the connection or of the process, or nothing.              *)
LEMMA StepKinds ==
    ASSUME Core, [Next]_vars
    PROVE  \/ Passive \/ LinkLost \/ Death
           \/ \E k \in Updates : Publish(k) \/ Deliver(k) \/ TakeAck(k)
           \/ \E g \in {"main", "notify"} : CloseDeletesQueue(g)
           \/ StartListening \/ ReadUpdate \/ StatusUpdate
           \/ Subscribe \/ Receive \/ Acknowledge \/ SendOut
<1>. USE DEF Core, TypeOK, brokerVars, dataVars, Goto, Goroutines
<1>1. CASE Signal \/ AliveReports \/ AliveStops
  BY <1>1 DEF Signal, AliveReports, AliveStops, Passive, Process
<1>2. CASE MainSignalled \/ MainReadsError
  BY <1>2 DEF MainSignalled, MainReadsError, Passive, Process
<1>3. ASSUME NEW g \in {"main", "notify"}, CloseStops(g)
      PROVE  Passive
  BY <1>3 DEF CloseStops, Passive, Process
<1>4. CASE StartListeningFails \/ RangeEnds \/ ReportStopped
  BY <1>4 DEF StartListeningFails, RangeEnds, ReportStopped, Passive, Process
<1>5. CASE SubscribeFails \/ LossReported \/ ConsumeStopped
  BY <1>5 DEF SubscribeFails, LossReported, ConsumeStopped, Passive, Process
<1>6. CASE ReconnectSucceeds \/ ReconnectFails \/ BackoffOver
  BY <1>6 DEF ReconnectSucceeds, ReconnectFails, BackoffOver, Passive, Process
<1>7. CASE UNCHANGED vars
  BY <1>7 DEF vars, Passive
<1>8. CASE ConnLost
  BY <1>8 DEF ConnLost, LinkLost
<1>9. ASSUME NEW g \in {"main", "notify"}, CloseDisconnects(g)
      PROVE  LinkLost
  BY <1>9 DEF CloseDisconnects, LinkLost
<1>10. CASE Crash
  BY <1>10 DEF Crash, Death
<1>11. CASE Leave
  <2>1. proc.result \in {"ok", "error"}
    BY <1>11 DEF Leave, ControlInv, Closing, Process
  <2>. QED
    BY <1>11, <2>1 DEF Leave, Death
<1>. QED
  BY <1>1, <1>2, <1>3, <1>4, <1>5, <1>6, <1>7, <1>8, <1>9, <1>10, <1>11
     DEF Next, BrokerStep, MainStep, NotifyStep, ConsumeStep, AliveStep, CloseStep

(* The process dies with empty hands.                                      *)
LEMMA DeathEffect ==
    ASSUME Core, Death
    PROVE  /\ ~proc'.subscribed /\ proc'.exit # "running" /\ pc'["notify"] = "gone"
           /\ buf' = {} /\ hand'["consume"] = NoUpdate /\ hand'["notify"] = NoUpdate
           /\ outCh' = << >>
           /\ \A k \in Updates : where'[k] = IF where[k] \in {"unacked", "acking"}
                                             THEN "ready" ELSE where[k]
<1>1. PICK how \in {"ok", "error", "killed"} : Die(how)
  BY DEF Death
<1>2. /\ ~proc'.subscribed /\ proc'.exit = how
      /\ pc' = [g \in Goroutines |-> "gone"]
      /\ buf' = {} /\ hand' = EmptyHands /\ outCh' = << >>
      /\ \A k \in Updates : where'[k] = IF where[k] \in {"unacked", "acking"}
                                        THEN "ready" ELSE where[k]
  BY <1>1, DieEffect DEF Core
<1>. QED
  BY <1>2 DEF EmptyHands, Goroutines

(* A lost connection puts unacknowledged updates back into the queue, and  *)
(* those whose acknowledgement was still on its way.                       *)
LEMMA LinkLostEffect ==
    ASSUME Core, LinkLost
    PROVE  /\ ~proc'.subscribed /\ proc'.exit = proc.exit /\ buf' = {}
           /\ \A k \in Updates : where'[k] = IF where[k] \in {"unacked", "acking"}
                                             THEN "ready" ELSE where[k]
  BY LoseLinkEffect DEF Core, TypeOK, LinkLost

-----------------------------------------------------------------------------
(* QueueInv.                                                               *)

LEMMA QueueInit == Init => QueueInv
  BY DEF Init, QueueInv, Updates

(* Every step keeps the places the broker has updates at.                  *)
LEMMA QueueStep ==
    ASSUME Core, QueueInv, [Next]_vars
    PROVE  QueueInv'
<1>. USE DEF QueueInv
<1>1. CASE Passive
  BY <1>1 DEF Passive
<1>2. CASE LinkLost
  BY <1>2, LinkLostEffect, EarlierUpdates DEF LinkLost
<1>3. CASE Death
  BY <1>3, DeathEffect, EarlierUpdates DEF Death
<1>4. ASSUME NEW k \in Updates, Publish(k)
      PROVE  QueueInv'
  BY <1>4 DEF Publish, dataVars, Core, TypeOK, Updates
<1>5. ASSUME NEW k \in Updates, Deliver(k)
      PROVE  QueueInv'
  BY <1>5 DEF Deliver, Core, TypeOK, Updates
<1>6. ASSUME NEW k \in Updates, TakeAck(k)
      PROVE  QueueInv'
  BY <1>6 DEF TakeAck, dataVars, Core, TypeOK, Updates
<1>7. ASSUME NEW g \in {"main", "notify"}, CloseDeletesQueue(g)
      PROVE  QueueInv'
  <2>1. /\ UNCHANGED <<buf, hand, proc>>
        /\ pc'["notify"] # "start" \/ pc["notify"] = "start"
        /\ pc["consume"] = "ack" => pc'["consume"] = "ack"
    BY <1>7 DEF CloseDeletesQueue, dataVars, Goto, Core, TypeOK, Goroutines
  <2>2. CASE proc.link /\ queue = "bound"
    BY <1>7, <2>1, <2>2, EarlierUpdates DEF CloseDeletesQueue
  <2>3. CASE UNCHANGED brokerVars
    BY <2>1, <2>3 DEF brokerVars
  <2>. QED
    BY <1>7, <2>2, <2>3 DEF CloseDeletesQueue
<1>8. CASE StartListening
  <2>1. /\ queue = "none" /\ pc["consume"] = "off"
        /\ pc'["notify"] = "range"
        /\ queue' = "bound" /\ UNCHANGED <<where, buf, hand, proc>>
    BY <1>8 DEF StartListening, Core, ControlInv, TypeOK, dataVars, Goroutines
  <2>. QED
    BY <2>1
<1>9. CASE ReadUpdate \/ StatusUpdate
  BY <1>9 DEF ReadUpdate, StatusUpdate, Goto, brokerVars, Core, TypeOK, Goroutines
<1>10. CASE Subscribe
  BY <1>10 DEF Subscribe, brokerVars, dataVars, Core, TypeOK, Goroutines
<1>11. CASE Receive
  BY <1>11 DEF Receive, Goto, brokerVars, Core, TypeOK, Goroutines
<1>12. CASE Acknowledge
  <2>1. hand["consume"] \in Updates /\ UNCHANGED <<queue, buf, hand, proc>>
    BY <1>12 DEF Acknowledge, dataVars, Core, ControlInv
  <2>. QED
    BY <1>12, <2>1 DEF Acknowledge, Goto, Core, TypeOK, Goroutines, Updates
<1>13. CASE SendOut
  BY <1>13 DEF SendOut, HandOver, Goto, brokerVars, Core, TypeOK, Goroutines
<1>. QED
  BY <1>1, <1>2, <1>3, <1>4, <1>5, <1>6, <1>7, <1>8, <1>9, <1>10, <1>11, <1>12, <1>13, StepKinds

-----------------------------------------------------------------------------
(* The pipeline from msgs to the console.                                  *)

(* What one place of the pipeline hands to the next.                       *)
LEMMA ReadUpdateEffect ==
    ASSUME Core, ReadUpdate
    PROVE  /\ UNCHANGED <<where, queue, buf, shown, proc>>
           /\ hand["notify"] = NoUpdate /\ hand'["consume"] = hand["consume"]
           /\ outCh' = << >>
           /\ hand'["notify"] \in Updates /\ outCh = <<hand'["notify"]>>
<1>1. pc["notify"] = "range" /\ outCh # << >>
  BY DEF ReadUpdate
<1>2. outCh \in Seq(Updates) /\ Len(outCh) = 1
  <2>1. outCh \in Seq(Updates) /\ Len(outCh) <= 1
    BY DEF Core, TypeOK
  <2>2. Len(outCh) \in Nat \ {0}
    BY <1>1, <2>1, EmptySeq
  <2>3. \A n \in Nat \ {0} : n <= 1 => n = 1
    OBVIOUS
  <2>. QED
    BY <2>1, <2>2, <2>3, Zenon
<1>3. outCh = <<Head(outCh)>> /\ Head(outCh) \in Updates /\ Tail(outCh) = << >>
  <2>1. Head(outCh) \in Updates /\ Tail(outCh) \in Seq(Updates) /\ Len(Tail(outCh)) = 0
    BY <1>1, <1>2, HeadTailProperties
  <2>2. Tail(outCh) = << >>
    BY <2>1, EmptySeq
  <2>3. <<Head(outCh)>> \in Seq(Updates) /\ Len(<<Head(outCh)>>) = 1
    BY <2>1
  <2>4. \A i \in 1 .. 1 : outCh[i] = <<Head(outCh)>>[i]
    BY <1>2
  <2>5. outCh = <<Head(outCh)>>
    BY <1>2, <2>3, <2>4, SeqEqual
  <2>. QED
    BY <2>1, <2>2, <2>5
<1>4. hand' = [hand EXCEPT !["notify"] = Head(outCh)] /\ outCh' = Tail(outCh)
  BY DEF ReadUpdate
<1>5. hand'["notify"] = Head(outCh) /\ hand'["consume"] = hand["consume"]
  BY <1>4 DEF Core, TypeOK
<1>. QED
  BY <1>1, <1>3, <1>4, <1>5 DEF ReadUpdate, brokerVars, Core, ControlInv

LEMMA StatusUpdateEffect ==
    ASSUME Core, StatusUpdate
    PROVE  /\ UNCHANGED <<where, queue, buf, outCh, proc>>
           /\ hand["notify"] \in Updates /\ hand'["consume"] = hand["consume"]
           /\ hand'["notify"] = NoUpdate
           /\ shown' = Append(shown, hand["notify"])
           /\ \A k : Shown(k)' <=> Shown(k) \/ k = hand["notify"]
<1>1. shown \in Seq(Updates) /\ Len(shown) \in Nat /\ hand["notify"] \in Updates
  BY DEF Core, TypeOK, ControlInv, StatusUpdate
<1>2. shown' = Append(shown, hand["notify"])
  BY DEF StatusUpdate
<1>3. /\ DOMAIN shown = 1 .. Len(shown) /\ DOMAIN shown' = 1 .. Len(shown) + 1
      /\ shown'[Len(shown) + 1] = hand["notify"]
      /\ \A i \in 1 .. Len(shown) : shown'[i] = shown[i]
  BY <1>1, <1>2
<1>4. \A i : i \in 1 .. Len(shown) + 1 <=> i \in 1 .. Len(shown) \/ i = Len(shown) + 1
  BY <1>1
<1>5. \A k : Shown(k)' <=> Shown(k) \/ k = hand["notify"]
  BY <1>3, <1>4, Zenon DEF Shown
<1>6. hand'["consume"] = hand["consume"] /\ hand'["notify"] = NoUpdate
  BY DEF StatusUpdate, Core, TypeOK
<1>. QED
  BY <1>1, <1>2, <1>5, <1>6 DEF StatusUpdate, brokerVars

LEMMA SendOutEffect ==
    ASSUME Core, SendOut
    PROVE  /\ UNCHANGED <<where, queue, buf, shown, proc>>
           /\ outCh = << >> /\ outCh' = <<hand["consume"]>>
           /\ hand["consume"] \in Updates /\ hand'["consume"] = NoUpdate
           /\ hand'["notify"] = hand["notify"]
  BY DEF SendOut, HandOver, brokerVars, Core, TypeOK, ControlInv

LEMMA ReceiveEffect ==
    ASSUME Core, Receive
    PROVE  /\ UNCHANGED <<where, queue, outCh, shown, proc>>
           /\ hand["consume"] = NoUpdate /\ hand'["notify"] = hand["notify"]
           /\ hand'["consume"] \in buf /\ hand'["consume"] \in Updates
           /\ \A j \in buf : hand'["consume"] <= j
           /\ buf' = buf \ {hand'["consume"]}
  BY DEF Receive, brokerVars, Core, TypeOK, ControlInv

LEMMA AcknowledgeEffect ==
    ASSUME Core, Acknowledge
    PROVE  /\ UNCHANGED <<queue, buf, hand, outCh, shown, proc>>
           /\ hand["consume"] \in Updates
           /\ \A k \in Updates : \/ where'[k] = where[k]
                                 \/ /\ k = hand["consume"] /\ where[k] = "unacked"
                                    /\ where'[k] = "acking"
<1>1. hand["consume"] \in Updates
  BY DEF Acknowledge, Core, ControlInv
<1>. QED
  BY <1>1 DEF Acknowledge, dataVars, Core, TypeOK

(* Sequences of one update are equal if the updates are.                   *)
LEMMA OneUpdate == \A k, n : <<k>> = <<n>> <=> k = n
  OBVIOUS

LEMMA NotEmpty == \A k : << >> # <<k>>
  OBVIOUS

LEMMA SameShown == UNCHANGED shown => \A k : Shown(k)' <=> Shown(k)
  BY DEF Shown

(* An acknowledged update is on its way to the terminal, unless the        *)
(* process ended.                                                          *)
LEMMA AckedStep ==
    ASSUME Core, AckedIsInside, [Next]_vars
    PROVE  AckedIsInside'
<1>. USE DEF AckedIsInside, Running
<1>1. CASE Passive
  BY <1>1, SameShown DEF Passive
<1>2. CASE LinkLost
  BY <1>2, LinkLostEffect, SameShown DEF LinkLost
<1>3. CASE Death
  BY <1>3, DeathEffect
<1>4. ASSUME NEW k \in Updates, Publish(k) \/ Deliver(k) \/ TakeAck(k)
      PROVE  AckedIsInside'
  <2>1. UNCHANGED <<hand, outCh, shown, proc>>
    BY <1>4 DEF Publish, Deliver, TakeAck, dataVars
  <2>2. \A j \in Updates : where'[j] \in {"acking", "gone"} => where[j] \in {"acking", "gone"}
    BY <1>4 DEF Publish, Deliver, TakeAck, Core, TypeOK
  <2>. QED
    BY <2>1, <2>2, SameShown
<1>5. ASSUME NEW g \in {"main", "notify"}, CloseDeletesQueue(g)
      PROVE  AckedIsInside'
  <2>1. UNCHANGED <<hand, outCh, shown, proc>>
    BY <1>5 DEF CloseDeletesQueue, dataVars
  <2>2. \A j \in Updates : where'[j] \in {"acking", "gone"} => where[j] \in {"acking", "gone"}
    BY <1>5 DEF CloseDeletesQueue, brokerVars
  <2>. QED
    BY <2>1, <2>2, SameShown
<1>6. CASE StartListening
  BY <1>6, SameShown DEF StartListening, dataVars
<1>7. CASE ReadUpdate
  BY <1>7, ReadUpdateEffect, SameShown, OneUpdate, SubscriberAssumption DEF Updates
<1>8. CASE StatusUpdate
  BY <1>8, StatusUpdateEffect
<1>9. CASE Subscribe
  <2>1. UNCHANGED <<where, hand, outCh, shown>> /\ proc'.exit = proc.exit
    BY <1>9 DEF Subscribe, brokerVars, dataVars, Core, TypeOK, Process
  <2>. QED
    BY <2>1, SameShown
<1>10. CASE Receive
  BY <1>10, ReceiveEffect, SameShown, SubscriberAssumption DEF Updates
<1>11. CASE Acknowledge
  BY <1>11, AcknowledgeEffect, SameShown
<1>12. CASE SendOut
  BY <1>12, SendOutEffect, SameShown, NotEmpty
<1>. QED
  BY <1>1, <1>2, <1>3, <1>4, <1>5, <1>6, <1>7, <1>8, <1>9, <1>10, <1>11, <1>12, StepKinds

(* A new delivery: everything before it is printed, on its way, or ahead   *)
(* of it in msgs.  This is where lost acknowledgements, redeliveries and   *)
(* deleted queues could let a gap in.                                      *)
LEMMA DeliverAfterAll ==
    ASSUME Core, QueueInv, AckedIsInside, NEW n \in Updates, Deliver(n),
           NEW k \in Updates, k < n
    PROVE  Done(k) \/ InNotify(k) \/ InChannel(k) \/ InConsume(k) \/ k \in buf
<1>1. k \in 1 .. n - 1
  BY UpdatesBelow
<1>2. where[k] # "ready" /\ where[n] = "ready" /\ proc.subscribed
  BY <1>1 DEF Deliver
<1>3. where[k] # "unpublished"
  BY <1>1, <1>2 DEF QueueInv
<1>4. where[k] # "dropped"
  BY <1>2 DEF QueueInv
<1>5. Running
  BY <1>2 DEF Core, ControlInv
<1>6. where[k] \in {"missed", "unacked", "acking", "gone"}
  BY <1>2, <1>3, <1>4 DEF Core, TypeOK, UpdateStates
<1>. QED
  BY <1>5, <1>6 DEF QueueInv, AckedIsInside, Done, InNotify, InChannel, InConsume

(* Places that keep what they hold, and updates that stay missed.          *)
LEMMA PipeFrame ==
    ASSUME Core, PipeInv, UNCHANGED <<hand, outCh, shown>>, buf' \subseteq buf, buf' = buf \/ buf' = {},
           \A k \in Updates : where[k] = "missed" => where'[k] = "missed"
    PROVE  PipeInv'
  BY SameShown DEF PipeInv, Done, InNotify, InChannel, InConsume

(* Whatever was published before an update stays ahead of it.              *)
LEMMA PipeStep ==
    ASSUME Core, QueueInv, AckedIsInside, PipeInv, [Next]_vars
    PROVE  PipeInv'
<1>1. CASE Passive
  BY <1>1, PipeFrame DEF Passive
<1>2. CASE LinkLost
  BY <1>2, LinkLostEffect, PipeFrame DEF LinkLost
<1>3. CASE Death
  <2>1. \A n \in Updates : ~InNotify(n)' /\ ~InChannel(n)' /\ ~InConsume(n)' /\ n \notin buf'
    BY <1>3, DeathEffect, NotEmpty, SubscriberAssumption DEF InNotify, InChannel, InConsume, Updates
  <2>. QED
    BY <2>1 DEF PipeInv
<1>4. ASSUME NEW k \in Updates, Publish(k) \/ TakeAck(k)
      PROVE  PipeInv'
  <2>1. \A j \in Updates : where[j] = "missed" => where'[j] = "missed"
    BY <1>4 DEF Publish, TakeAck, Core, TypeOK
  <2>. QED
    BY <1>4, <2>1, PipeFrame DEF Publish, TakeAck, dataVars
<1>5. ASSUME NEW m \in Updates, Deliver(m)
      PROVE  PipeInv'
  <2>1. UNCHANGED <<hand, outCh, shown>> /\ buf' = buf \cup {m}
    BY <1>5 DEF Deliver
  <2>2. \A j \in Updates : where[j] = "missed" => where'[j] = "missed"
    BY <1>5 DEF Deliver, Core, TypeOK
  <2>. QED
    BY <1>5, <2>1, <2>2, DeliverAfterAll, SameShown DEF PipeInv, Done, InNotify, InChannel, InConsume
<1>6. ASSUME NEW g \in {"main", "notify"}, CloseDeletesQueue(g)
      PROVE  PipeInv'
  <2>1. \A j \in Updates : where[j] = "missed" => where'[j] = "missed"
    BY <1>6 DEF CloseDeletesQueue, brokerVars
  <2>. QED
    BY <1>6, <2>1, PipeFrame DEF CloseDeletesQueue, dataVars
<1>7. CASE StartListening \/ Subscribe
  BY <1>7, PipeFrame DEF StartListening, Subscribe, brokerVars, dataVars
<1>8. CASE ReadUpdate
  BY <1>8, ReadUpdateEffect, SameShown, OneUpdate, NotEmpty, SubscriberAssumption
     DEF PipeInv, Done, InNotify, InChannel, InConsume, Updates
<1>9. CASE StatusUpdate
  BY <1>9, StatusUpdateEffect, SubscriberAssumption
     DEF PipeInv, Done, InNotify, InChannel, InConsume, Updates
<1>10. CASE Receive
  <2>1. \A k, n \in Updates : k < n /\ n = hand'["consume"] => k \notin buf
    BY <1>10, ReceiveEffect, UpdatesBelow
  <2>. QED
    BY <1>10, <2>1, ReceiveEffect, SameShown, SubscriberAssumption
       DEF PipeInv, Done, InNotify, InChannel, InConsume, Updates
<1>11. CASE Acknowledge
  BY <1>11, AcknowledgeEffect, PipeFrame
<1>12. CASE SendOut
  BY <1>12, SendOutEffect, SameShown, OneUpdate, NotEmpty, SubscriberAssumption
     DEF PipeInv, Done, InNotify, InChannel, InConsume, Updates
<1>. QED
  BY <1>1, <1>2, <1>3, <1>4, <1>5, <1>6, <1>7, <1>8, <1>9, <1>10, <1>11, <1>12, StepKinds

(* Nothing that was missed is published after all.                         *)
LEMMA MissedStays ==
    ASSUME Core, [Next]_vars, NEW k \in Updates, where[k] = "missed"
    PROVE  where'[k] = "missed"
<1>1. CASE Passive \/ LinkLost \/ Death
  BY <1>1, LinkLostEffect, DeathEffect DEF Passive
<1>2. ASSUME NEW j \in Updates, Publish(j) \/ Deliver(j) \/ TakeAck(j)
      PROVE  where'[k] = "missed"
  BY <1>2 DEF Publish, Deliver, TakeAck, Core, TypeOK
<1>3. ASSUME NEW g \in {"main", "notify"}, CloseDeletesQueue(g)
      PROVE  where'[k] = "missed"
  BY <1>3 DEF CloseDeletesQueue, brokerVars
<1>4. CASE StartListening \/ ReadUpdate \/ StatusUpdate \/ Subscribe \/ Receive \/ SendOut
  BY <1>4 DEF StartListening, ReadUpdate, StatusUpdate, Subscribe, Receive, SendOut, HandOver,
     brokerVars
<1>5. CASE Acknowledge
  BY <1>5, AcknowledgeEffect
<1>. QED
  BY <1>1, <1>2, <1>3, <1>4, <1>5, StepKinds

(* An update is printed first only after all before it.                    *)
LEMMA FirstShownStep ==
    ASSUME Core, PipeInv, FirstShownInOrder, [Next]_vars
    PROVE  FirstShownInOrder'
<1>1. \A k \in Updates : where[k] = "missed" => where'[k] = "missed"
  BY MissedStays
<1>2. shown \in Seq(Updates) /\ \A i \in DOMAIN shown : shown[i] \in Updates
  BY ElementOfSeq, LenProperties DEF Core, TypeOK
<1>3. CASE UNCHANGED shown
  BY <1>1, <1>2, <1>3, EarlierUpdates DEF FirstShownInOrder
<1>4. CASE StatusUpdate
  <2>. DEFINE n == hand["notify"]
  <2>1. n \in Updates /\ shown' = Append(shown, n) /\ UNCHANGED where
    BY <1>4, StatusUpdateEffect
  <2>2. \A k \in 1 .. n - 1 : where[k] = "missed" \/ \E j \in 1 .. Len(shown) : shown[j] = k
    <3>. SUFFICES ASSUME NEW k \in 1 .. n - 1
                  PROVE  where[k] = "missed" \/ Shown(k)
      BY <1>2, LenProperties DEF Shown
    <3>1. k \in Updates /\ k < n
      BY <2>1, EarlierUpdates, UpdatesBelow
    <3>. QED
      BY <2>1, <3>1 DEF PipeInv, InNotify, Done
  <2>3. /\ DOMAIN shown = 1 .. Len(shown) /\ DOMAIN shown' = 1 .. Len(shown) + 1
        /\ Len(shown) \in Nat /\ shown'[Len(shown) + 1] = n
        /\ \A i \in 1 .. Len(shown) : shown'[i] = shown[i]
    BY <1>2, <2>1
  <2>. SUFFICES ASSUME NEW i \in 1 .. Len(shown) + 1, NEW k \in 1 .. shown'[i] - 1
                PROVE  where[k] = "missed" \/ \E j \in 1 .. i - 1 : shown'[j] = k
    BY <2>1, <2>3 DEF FirstShownInOrder
  <2>4. CASE i \in 1 .. Len(shown)
    <3>1. where[k] = "missed" \/ \E j \in 1 .. i - 1 : shown[j] = k
      BY <2>3, <2>4 DEF FirstShownInOrder
    <3>2. \A j \in 1 .. i - 1 : j \in 1 .. Len(shown)
      BY <2>3, <2>4
    <3>. QED
      BY <2>3, <3>1, <3>2
  <2>5. CASE i = Len(shown) + 1
    <3>1. i - 1 = Len(shown)
      BY <2>3, <2>5
    <3>2. k \in 1 .. n - 1
      BY <2>3, <2>5
    <3>. QED
      BY <2>2, <2>3, <3>1, <3>2
  <2>. QED
    BY <2>3, <2>4, <2>5
<1>5. shown' = shown \/ StatusUpdate
  BY StepKinds DEF Passive, LinkLost, Death, Publish, Deliver, TakeAck, CloseDeletesQueue,
     StartListening, ReadUpdate, Subscribe, Receive, Acknowledge, SendOut, HandOver, dataVars
<1>. QED
  BY <1>3, <1>4, <1>5

-----------------------------------------------------------------------------
(* Results.                                                                *)

(* The inductive invariant of the subscriber: how updates are spread over  *)
(* the queue, msgs, startConsuming, outCh and Notify in every state.       *)
THEOREM InductiveInvariant == Spec => []IndInv
<1>1. Init => IndInv
  BY CoreInit, QueueInit, NotEmpty, SubscriberAssumption DEF Init, IndInv, AckedIsInside, PipeInv,
     FirstShownInOrder, InNotify, InChannel, InConsume, EmptyHands, Updates
<1>2. IndInv /\ [Next]_vars => IndInv'
  BY CoreStep, QueueStep, AckedStep, PipeStep, FirstShownStep DEF IndInv
<1>. QED
  BY <1>1, <1>2, PTL DEF Spec

(* Every state of the subscriber is well typed: outCh never holds more     *)
(* than its capacity and Start returns a result only once there is one.    *)
THEOREM TypeCorrect == Spec => []TypeOK
  BY InductiveInvariant, PTL DEF IndInv, Core

(* startConsuming and Notify print updates for the first time in the order *)
(* of the queue and without a gap.                                         *)
THEOREM ShownInOrder == Spec => []FirstShownInOrder
  BY InductiveInvariant, PTL DEF IndInv

(* What startConsuming has acknowledged is printed or held inside the      *)
(* process, as long as it runs.                                            *)
THEOREM AckedAreInside == Spec => []AckedIsInside
  BY InductiveInvariant, PTL DEF IndInv
=============================================================================
