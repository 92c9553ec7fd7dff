----------------------- MODULE NotificationSubscriber -----------------------
(***************************************************************************)
(* The notification-subscriber service: one process with four goroutines,  *)
(*                                                                         *)
(*   "main"     NotificationSubsriber.Start, which waits for a signal or   *)
(*              for errCh and then closes the service;                     *)
(*   "notify"   Service.Notify, which prints what it reads from outCh;     *)
(*   "consume"  startConsuming, which acknowledges updates, hands them on  *)
(*              and reconnects;                                            *)
(*   "alive"    isAlive, which looks for a closed connection.              *)
(*                                                                         *)
(* Status updates are numbered in the order in which they are published to *)
(* notifications_fanout.  The queue has a name chosen by the broker, is    *)
(* durable and survives its connections.                                   *)
(***************************************************************************)
EXTENDS Naturals, Sequences, FiniteSets

CONSTANTS
    MaxUpdates,   \* bound of the number of updates
    MaxAttempts,  \* attempts of reconnect (5 in the code)
    NoUpdate,     \* a goroutine that holds no update
    Budget        \* how often each kind of disturbance may happen

Disturbances == {"signal", "crash", "conn", "refused"}

ASSUME SubscriberAssumption ==
    /\ MaxUpdates \in Nat
    /\ MaxAttempts \in Nat \ {0}
    /\ NoUpdate \notin Nat
    /\ Budget \in [Disturbances -> Nat]

VARIABLES
    where,   \* where the broker has an update
    queue,   \* the queue is not declared, bound or deleted
    buf,     \* deliveries that wait in the client library (msgs)
    hand,    \* the update that consume and notify hold
    outCh,   \* the channel between them, of capacity 1
    shown,   \* what was printed
    pc,      \* where the goroutines are
    proc,    \* the other state of the process
    spent    \* disturbances so far

brokerVars == <<where, queue>>
dataVars == <<buf, hand, outCh, shown>>
vars == <<where, queue, buf, hand, outCh, shown, pc, proc, spent>>

Updates == 1 .. MaxUpdates
Goroutines == {"main", "notify", "consume", "alive"}

(* "acking": the client has acknowledged, the broker does not know it yet. *)
UpdateStates == {"unpublished", "missed", "ready", "unacked", "acking", "gone", "dropped"}

Places == {"off", "gone", "select", "start", "range", "print", "close_stop", "close_queue",
           "close_conn", "leave", "send_error", "subscribe", "loop", "ack", "send",
           "reconnect", "backoff", "done", "tick"}

Process ==
    [exit: {"running", "ok", "error", "killed"}, \* how it ended
     link: BOOLEAN,                   \* the connection is open
     subscribed: BOOLEAN,             \* basic.consume is active on it
     stop: BOOLEAN,                   \* the channel stop holds a token
     connClose: BOOLEAN,              \* so does connClose of the current isAlive
     errCh: BOOLEAN,                  \* errCh holds an error
     signal: BOOLEAN,                 \* shutdownCh holds a signal
     result: {"none", "ok", "error"}, \* what Start will return
     attempts: 0 .. MaxAttempts]      \* failed attempts of reconnect

TypeOK ==
    /\ where \in [Updates -> UpdateStates]
    /\ queue \in {"none", "bound", "deleted"}
    /\ buf \subseteq Updates
    /\ hand \in [{"consume", "notify"} -> Updates \cup {NoUpdate}]
    /\ outCh \in Seq(Updates) /\ Len(outCh) <= 1
    /\ shown \in Seq(Updates)
    /\ pc \in [Goroutines -> Places]
    /\ proc \in Process
    /\ spent \in [Disturbances -> Nat]

NewProcess ==
    [exit |-> "running", link |-> TRUE, subscribed |-> FALSE, stop |-> FALSE,
     connClose |-> FALSE, errCh |-> FALSE, signal |-> FALSE, result |-> "none",
     attempts |-> 0]

EmptyHands == [g \in {"consume", "notify"} |-> NoUpdate]

(* NewNotificationSubscriber has connected and Start has started Notify.   *)
Init ==
    /\ where = [k \in Updates |-> "unpublished"]
    /\ queue = "none"
    /\ buf = {}
    /\ hand = EmptyHands
    /\ outCh = << >>
    /\ shown = << >>
    /\ pc = [main |-> "select", notify |-> "start", consume |-> "off", alive |-> "off"]
    /\ proc = NewProcess
    /\ spent = [d \in Disturbances |-> 0]

Running == proc.exit = "running"

Disturb(d) ==
    /\ spent[d] < Budget[d]
    /\ spent' = [spent EXCEPT ![d] = @ + 1]

Goto(g, place) == pc' = [pc EXCEPT ![g] = place]

(* The connection p.link is gone: unsettled deliveries go back to their    *)
(* places in the queue and those in msgs are dropped.                      *)
LoseLink(p) ==
    /\ proc' = [p EXCEPT !.link = FALSE, !.subscribed = FALSE]
    /\ buf' = {}
    /\ where' = [k \in Updates |->
                    IF where[k] \in {"unacked", "acking"} THEN "ready" ELSE where[k]]

-----------------------------------------------------------------------------
(* The surroundings.                                                       *)

(* A kitchen worker publishes the next update.  The exchange keeps nothing:*)
(* without a bound queue the update is not seen by this subscriber.        *)
Publish(k) ==
    /\ Running
    /\ where[k] = "unpublished"
    /\ \A j \in 1 .. k - 1 : where[j] # "unpublished"
    /\ where' = [where EXCEPT ![k] = IF queue = "bound" THEN "ready" ELSE "missed"]
    /\ UNCHANGED <<queue, dataVars, pc, proc, spent>>

(* The broker delivers in the order of the queue; there is no prefetch     *)
(* limit.                                                                  *)
Deliver(k) ==
    /\ proc.subscribed
    /\ where[k] = "ready"
    /\ \A j \in 1 .. k - 1 : where[j] # "ready"
    /\ where' = [where EXCEPT ![k] = "unacked"]
    /\ buf' = buf \cup {k}
    /\ UNCHANGED <<queue, hand, outCh, shown, pc, proc, spent>>

(* An acknowledgement reaches the broker.                                  *)
TakeAck(k) ==
    /\ where[k] = "acking"
    /\ where' = [where EXCEPT ![k] = "gone"]
    /\ UNCHANGED <<queue, dataVars, pc, proc, spent>>

ConnLost ==
    /\ Running
    /\ proc.link
    /\ Disturb("conn")
    /\ LoseLink(proc)
    /\ UNCHANGED <<queue, hand, outCh, shown, pc>>

Signal ==
    /\ Running
    /\ ~proc.signal
    /\ Disturb("signal")
    /\ proc' = [proc EXCEPT !.signal = TRUE]
    /\ UNCHANGED <<brokerVars, dataVars, pc>>

(* The process is gone; the queue is not.                                  *)
Die(how) ==
    /\ LoseLink([NewProcess EXCEPT !.exit = how])
    /\ pc' = [g \in Goroutines |-> "gone"]
    /\ hand' = EmptyHands
    /\ outCh' = << >>

Crash ==
    /\ Running
    /\ Disturb("crash")
    /\ Die("killed")
    /\ UNCHANGED <<queue, shown>>

-----------------------------------------------------------------------------
(* Service.Notify.                                                         *)

(* declareAndBindQueue, and startConsuming in a goroutine of its own.      *)
StartListening ==
    /\ pc["notify"] = "start"
    /\ proc.link
    /\ queue' = "bound"
    /\ pc' = [pc EXCEPT !["notify"] = "range", !["consume"] = "subscribe"]
    /\ UNCHANGED <<where, dataVars, proc, spent>>

StartListeningFails ==
    /\ pc["notify"] = "start"
    /\ ~proc.link
    /\ proc' = [proc EXCEPT !.errCh = TRUE]
    /\ Goto("notify", "gone")
    /\ UNCHANGED <<brokerVars, dataVars, spent>>

ReadUpdate ==
    /\ pc["notify"] = "range"
    /\ outCh # << >>
    /\ hand' = [hand EXCEPT !["notify"] = Head(outCh)]
    /\ outCh' = Tail(outCh)
    /\ Goto("notify", "print")
    /\ UNCHANGED <<brokerVars, buf, shown, proc, spent>>

(* NotifyPrinter.StatusUpdate.                                             *)
StatusUpdate ==
    /\ pc["notify"] = "print"
    /\ shown' = Append(shown, hand["notify"])
    /\ hand' = [hand EXCEPT !["notify"] = NoUpdate]
    /\ Goto("notify", "range")
    /\ UNCHANGED <<brokerVars, buf, outCh, proc, spent>>

(* outCh is closed and empty: the deferred Close begins.                   *)
RangeEnds ==
    /\ pc["notify"] = "range"
    /\ pc["consume"] = "done"
    /\ outCh = << >>
    /\ Goto("notify", "close_stop")
    /\ UNCHANGED <<brokerVars, dataVars, proc, spent>>

(* The slip of a Notify that ends without telling Start.                   *)
ReportStoppedSilently ==
    /\ pc["notify"] = "send_error"
    /\ Goto("notify", "gone")
    /\ UNCHANGED <<brokerVars, dataVars, proc, spent>>

(* errCh <- ErrNotificationStopped.                                        *)
ReportStopped ==
    /\ pc["notify"] = "send_error"
    /\ ~proc.errCh
    /\ proc' = [proc EXCEPT !.errCh = TRUE]
    /\ Goto("notify", "gone")
    /\ UNCHANGED <<brokerVars, dataVars, spent>>

-----------------------------------------------------------------------------
(* NotificationSubscriber.Close, called by Notify when it ends and by main.*)

(* A token for stop, unless it holds one.                                  *)
CloseStops(g) ==
    /\ pc[g] = "close_stop"
    /\ proc' = [proc EXCEPT !.stop = TRUE]
    /\ Goto(g, "close_queue")
    /\ UNCHANGED <<brokerVars, dataVars, spent>>

(* QueueDelete, whether or not the queue is empty; on a closed connection  *)
(* it fails and the queue stays.  Deliveries in msgs can still be read.    *)
CloseDeletesQueue(g) ==
    /\ pc[g] = "close_queue"
    /\ IF proc.link /\ queue = "bound"
       THEN /\ queue' = "deleted"
            /\ where' = [k \in Updates |->
                           IF where[k] \in {"ready", "unacked"} THEN "dropped" ELSE where[k]]
       ELSE UNCHANGED brokerVars
    /\ Goto(g, "close_conn")
    /\ UNCHANGED <<dataVars, proc, spent>>

CloseDisconnects(g) ==
    /\ pc[g] = "close_conn"
    /\ LoseLink(proc)
    /\ Goto(g, IF g = "main" THEN "leave" ELSE "send_error")
    /\ UNCHANGED <<queue, hand, outCh, shown, spent>>

-----------------------------------------------------------------------------
(* NotificationSubsriber.Start returns nil after a signal and the error it *)
(* reads otherwise; the deferred close comes first.                        *)

MainSignalled ==
    /\ pc["main"] = "select"
    /\ proc.signal
    /\ proc' = [proc EXCEPT !.signal = FALSE, !.result = "ok"]
    /\ Goto("main", "close_stop")
    /\ UNCHANGED <<brokerVars, dataVars, spent>>

MainReadsError ==
    /\ pc["main"] = "select"
    /\ proc.errCh
    /\ proc' = [proc EXCEPT !.errCh = FALSE, !.result = "error"]
    /\ Goto("main", "close_stop")
    /\ UNCHANGED <<brokerVars, dataVars, spent>>

Leave ==
    /\ pc["main"] = "leave"
    /\ Die(proc.result)
    /\ UNCHANGED <<shown, queue, spent>>

-----------------------------------------------------------------------------
(* startConsuming and isAlive.                                             *)

(* The slip of starting isAlive for the first connection only.             *)
SubscribeUnwatched ==
    /\ pc["consume"] = "subscribe"
    /\ proc.link /\ queue = "bound"
    /\ proc' = [proc EXCEPT !.subscribed = TRUE, !.connClose = FALSE]
    /\ pc' = [pc EXCEPT !["consume"] = "loop",
                        !["alive"] = IF @ = "off" THEN "tick" ELSE @]
    /\ UNCHANGED <<brokerVars, dataVars, spent>>

(* basic.consume succeeds; a new isAlive watches the connection.           *)
Subscribe ==
    /\ pc["consume"] = "subscribe"
    /\ proc.link /\ queue = "bound"
    /\ proc' = [proc EXCEPT !.subscribed = TRUE, !.connClose = FALSE]
    /\ pc' = [pc EXCEPT !["consume"] = "loop", !["alive"] = "tick"]
    /\ UNCHANGED <<brokerVars, dataVars, spent>>

(* It fails, and the deferred close(outCh) ends the range of Notify.       *)
SubscribeFails ==
    /\ pc["consume"] = "subscribe"
    /\ ~proc.link \/ queue # "bound"
    /\ Goto("consume", "done")
    /\ UNCHANGED <<brokerVars, dataVars, proc, spent>>

(* The slip of handling deliveries in any order.                           *)
ReceiveAny ==
    /\ pc["consume"] = "loop"
    /\ \E k \in buf :
        /\ hand' = [hand EXCEPT !["consume"] = k]
        /\ buf' = buf \ {k}
    /\ Goto("consume", "ack")
    /\ UNCHANGED <<brokerVars, outCh, shown, proc, spent>>

Receive ==
    /\ pc["consume"] = "loop"
    /\ \E k \in buf :
        /\ \A j \in buf : k <= j
        /\ hand' = [hand EXCEPT !["consume"] = k]
        /\ buf' = buf \ {k}
    /\ Goto("consume", "ack")
    /\ UNCHANGED <<brokerVars, outCh, shown, proc, spent>>

(* msg.Ack; an error is only logged and the update handed on all the same. *)
Acknowledge ==
    /\ pc["consume"] = "ack"
    /\ where' = [where EXCEPT ![hand["consume"]] = IF @ = "unacked" THEN "acking" ELSE @]
    /\ Goto("consume", "send")
    /\ UNCHANGED <<queue, dataVars, proc, spent>>

(* The update leaves the hand of consume for the channel c.                *)
HandOver(c) ==
    /\ pc["consume"] = "send"
    /\ outCh' = c
    /\ hand' = [hand EXCEPT !["consume"] = NoUpdate]
    /\ Goto("consume", "loop")
    /\ UNCHANGED <<brokerVars, buf, shown, proc, spent>>

(* Slips: a channel without bound; a send that gives up if it is full.     *)
SendOutUnbounded == HandOver(Append(outCh, hand["consume"]))
SendOutDropping == HandOver(IF outCh = << >> THEN <<hand["consume"]>> ELSE outCh)

(* outCh <- update, which waits for room.                                  *)
SendOut == outCh = << >> /\ HandOver(<<hand["consume"]>>)

(* connClose is ready: reconnect begins.                                   *)
LossReported ==
    /\ pc["consume"] = "loop"
    /\ proc.connClose
    /\ proc' = [proc EXCEPT !.connClose = FALSE, !.attempts = 0]
    /\ Goto("consume", "reconnect")
    /\ UNCHANGED <<brokerVars, dataVars, spent>>

(* stop is ready, in the loop or between two attempts to reconnect.        *)
ConsumeStopped ==
    /\ pc["consume"] \in {"loop", "backoff"}
    /\ proc.stop
    /\ proc' = [proc EXCEPT !.stop = FALSE]
    /\ Goto("consume", "done")
    /\ UNCHANGED <<brokerVars, dataVars, spent>>

ReconnectSucceeds ==
    /\ pc["consume"] = "reconnect"
    /\ proc' = [proc EXCEPT !.link = TRUE]
    /\ Goto("consume", "subscribe")
    /\ UNCHANGED <<brokerVars, dataVars, spent>>

ReconnectFails ==
    /\ pc["consume"] = "reconnect"
    /\ Disturb("refused")
    /\ proc' = [proc EXCEPT !.attempts = @ + 1]
    /\ Goto("consume", "backoff")
    /\ UNCHANGED <<brokerVars, dataVars>>

(* The delay is over; the last attempt ends startConsuming.                *)
BackoffOver ==
    /\ pc["consume"] = "backoff"
    /\ ~proc.stop
    /\ Goto("consume", IF proc.attempts = MaxAttempts THEN "done" ELSE "reconnect")
    /\ UNCHANGED <<brokerVars, dataVars, proc, spent>>

AliveReports ==
    /\ pc["alive"] = "tick"
    /\ ~proc.link
    /\ proc' = [proc EXCEPT !.connClose = TRUE]
    /\ Goto("alive", "gone")
    /\ UNCHANGED <<brokerVars, dataVars, spent>>

(* isAlive takes the token: startConsuming does not see it.                *)
AliveStops ==
    /\ pc["alive"] = "tick"
    /\ proc.stop
    /\ proc' = [proc EXCEPT !.stop = FALSE]
    /\ Goto("alive", "gone")
    /\ UNCHANGED <<brokerVars, dataVars, spent>>

-----------------------------------------------------------------------------
CloseStep(g) == CloseStops(g) \/ CloseDeletesQueue(g) \/ CloseDisconnects(g)

MainStep == MainSignalled \/ MainReadsError \/ CloseStep("main") \/ Leave

NotifyStep ==
    \/ StartListening
    \/ StartListeningFails
    \/ ReadUpdate
    \/ StatusUpdate
    \/ RangeEnds
    \/ CloseStep("notify")
    \/ ReportStopped

ConsumeStep ==
    \/ Subscribe
    \/ SubscribeFails
    \/ Receive
    \/ Acknowledge
    \/ SendOut
    \/ LossReported
    \/ ConsumeStopped
    \/ ReconnectSucceeds
    \/ ReconnectFails
    \/ BackoffOver

AliveStep == AliveReports \/ AliveStops

BrokerStep == \E k \in Updates : Deliver(k) \/ TakeAck(k)

Next ==
    \/ \E k \in Updates : Publish(k)
    \/ BrokerStep
    \/ ConnLost
    \/ Signal
    \/ Crash
    \/ MainStep
    \/ NotifyStep
    \/ ConsumeStep
    \/ AliveStep

Spec == Init /\ [][Next]_vars

(* Every goroutine that can run does, and the broker delivers what it has  *)
(* to a consumer that is connected.                                        *)
FairSpec ==
    /\ Spec
    /\ WF_vars(MainStep)
    /\ WF_vars(NotifyStep)
    /\ WF_vars(ConsumeStep)
    /\ WF_vars(AliveStep)
    /\ WF_vars(BrokerStep)

-----------------------------------------------------------------------------
(* Properties.                                                             *)

Shown(k) == \E i \in DOMAIN shown : shown[i] = k

(* The first time an update is printed, every update before it that the    *)
(* queue received has been printed: startConsuming and Notify neither skip *)
(* nor reorder, over lost acknowledgements, redeliveries and reconnects.   *)
FirstShownInOrder ==
    \A i \in DOMAIN shown : \A k \in 1 .. shown[i] - 1 :
        where[k] = "missed" \/ \E j \in 1 .. i - 1 : shown[j] = k

(* An update that was acknowledged and is not printed is on its way to the *)
(* console: with startConsuming, in outCh or with Notify.  There are never *)
(* more than three, and these are lost if the process ends.                *)
AckedIsInside ==
    Running =>
        \A k \in Updates : where[k] \in {"acking", "gone"} =>
            Shown(k) \/ k \in {hand["consume"], hand["notify"]} \/ outCh = <<k>>

(* An update that reached the queue is printed, or the process ends: a     *)
(* lost connection is always noticed by some isAlive and either replaced   *)
(* or given up for good.                                                   *)
UpdateIsShown ==
    \A k \in Updates : where[k] = "ready" ~> Shown(k) \/ ~Running

(* Once startConsuming has given up, the process ends instead of staying   *)
(* alive without a consumer: close(outCh), Notify, errCh and Start pass    *)
(* the failure on.                                                         *)
FailureEndsProcess == pc["consume"] = "done" ~> ~Running

-----------------------------------------------------------------------------
(* What the documentation says and the code does not do.                   *)

(* README.md: graceful shutdowns prevent data loss.  An update that was    *)
(* acknowledged would then be printed before a graceful exit.              *)
ShutdownShowsAccepted ==
    proc.exit = "ok" => \A k \in Updates : where[k] = "gone" => Shown(k)
=============================================================================
