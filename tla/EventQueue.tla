----------------------------- MODULE EventQueue -----------------------------
(***************************************************************************)
(* The asynchronous event queue of one v2 facade                           *)
(* (evsocket/v2/socketio.go: dispatchEvent, enqueueEvent, drainEvents,     *)
(* invokeEventCallbacks).                                                  *)
(*                                                                         *)
(* Any goroutine may dispatch.  A queued event is appended under eventMu;  *)
(* the goroutine that finds eventDraining false also starts a drainer.     *)
(* The drainer reads the channel connectReady, waits until it is closed,   *)
(* and then takes one event at a time, running its callbacks outside the   *)
(* lock.  A connect event is not queued: its callbacks get a goroutine of  *)
(* their own.                                                              *)
(*                                                                         *)
(* A value of connectReady is its generation: the channel made with the    *)
(* facade is 0 and each Reconnect makes the next one.                      *)
(***************************************************************************)
EXTENDS Naturals, Sequences

CONSTANTS
    Kinds,      \* event names that may be dispatched
    Tags,       \* what tells two events of one kind apart
    NoEvent,    \* the hand of a drainer that never took an event
    Drainers,   \* identities for drainer goroutines
    MaxEvents,  \* bound on queued events
    MaxReady,   \* bound on generations of connectReady
    MaxConnects \* bound on connect callbacks running at once

ASSUME BoundsAssumption ==
    /\ MaxEvents \in Nat
    /\ MaxReady \in Nat
    /\ MaxConnects \in Nat

ASSUME NoEventAssumption == NoEvent \notin [kind : Kinds, tag : Tags]

VARIABLES
    eventQueue,     \* events waiting for the drainer
    eventDraining,  \* the flag that says a drainer exists
    connectReady,   \* generation of the channel in the facade's field
    closedReady,    \* generations that have been closed
    drainer,        \* where each drainer goroutine is
    gate,           \* the generation each drainer read
    taken,          \* the event each drainer took last
    connecting,     \* connect callbacks running in goroutines of their own
    enqueued,       \* history: every event ever queued, in queue order
    delivered       \* history: every event whose callbacks have returned

producerVars == <<eventQueue, eventDraining, enqueued>>
gateVars == <<connectReady, closedReady>>
vars == <<eventQueue, eventDraining, connectReady, closedReady, drainer, gate,
          taken, connecting, enqueued, delivered>>

Event == [kind : Kinds, tag : Tags]

QueuedKinds == {"message", "ping", "pong", "disconnect", "error", "close"}

\* Mutant: the connect event is queued like the others.
QueueConnectToo(kind) == kind \in QueuedKinds \cup {"connect"}

ShouldQueueEvent(kind) == kind \in QueuedKinds

-----------------------------------------------------------------------------
Init ==
    /\ eventQueue = <<>>
    /\ eventDraining = FALSE
    /\ connectReady = 0
    /\ closedReady = {}
    /\ drainer = [d \in Drainers |-> "idle"]
    /\ gate = [d \in Drainers |-> 0]
    /\ taken = [d \in Drainers |-> NoEvent]
    /\ connecting = 0
    /\ enqueued = <<>>
    /\ delivered = <<>>

(***************************************************************************)
(* Dispatching.                                                            *)
(***************************************************************************)
EnqueueEvent(e) ==
    /\ eventQueue' = Append(eventQueue, e)
    /\ enqueued' = Append(enqueued, e)
    /\ eventDraining' = TRUE
    /\ IF eventDraining
         THEN UNCHANGED drainer
         ELSE \E d \in Drainers :
                /\ drainer[d] = "idle"
                /\ drainer' = [drainer EXCEPT ![d] = "start"]
    /\ UNCHANGED <<gate, taken, connecting, delivered>>

InvokeInGoroutine ==
    /\ connecting' = connecting + 1
    /\ UNCHANGED <<producerVars, drainer, gate, taken, delivered>>

DispatchEvent(e) ==
    IF ShouldQueueEvent(e.kind) THEN EnqueueEvent(e) ELSE InvokeInGoroutine

(***************************************************************************)
(* What the connection does to the gate: OnOpen closes the current         *)
(* channel and connectClientTransport(true) replaces it.  The channel is   *)
(* replaced whether or not the old one was ever closed.                    *)
(***************************************************************************)
CloseReady ==
    /\ connectReady \notin closedReady
    /\ closedReady' = closedReady \cup {connectReady}
    /\ UNCHANGED connectReady

ReplaceReady ==
    /\ connectReady' = connectReady + 1
    /\ UNCHANGED closedReady

(***************************************************************************)
(* The drainer.                                                            *)
(***************************************************************************)
ReadReady(d) ==
    /\ drainer[d] = "start"
    /\ gate' = [gate EXCEPT ![d] = connectReady]
    /\ drainer' = [drainer EXCEPT ![d] = "wait"]
    /\ UNCHANGED <<producerVars, taken, connecting, delivered>>

PassReady(d) ==
    /\ drainer[d] = "wait"
    /\ gate[d] \in closedReady
    /\ drainer' = [drainer EXCEPT ![d] = "loop"]
    /\ UNCHANGED <<producerVars, gate, taken, connecting, delivered>>

\* Mutant: the newest event is handled first.
TakeNewest(d) ==
    /\ drainer[d] = "loop"
    /\ eventQueue # <<>>
    /\ taken' = [taken EXCEPT ![d] = eventQueue[Len(eventQueue)]]
    /\ eventQueue' = SubSeq(eventQueue, 1, Len(eventQueue) - 1)
    /\ drainer' = [drainer EXCEPT ![d] = "invoke"]
    /\ UNCHANGED <<eventDraining, enqueued, gate, connecting, delivered>>

TakeEvent(d) ==
    /\ drainer[d] = "loop"
    /\ eventQueue # <<>>
    /\ taken' = [taken EXCEPT ![d] = Head(eventQueue)]
    /\ eventQueue' = Tail(eventQueue)
    /\ drainer' = [drainer EXCEPT ![d] = "invoke"]
    /\ UNCHANGED <<eventDraining, enqueued, gate, connecting, delivered>>

\* Mutant: the emptiness of the queue is not looked at again under the lock.
StopWithoutLooking(d) ==
    /\ drainer[d] = "loop"
    /\ eventDraining' = FALSE
    /\ drainer' = [drainer EXCEPT ![d] = "idle"]
    /\ UNCHANGED <<eventQueue, enqueued, gate, taken, connecting, delivered>>

\* Mutant: the drainer returns and leaves the flag raised.
StopWithFlagRaised(d) ==
    /\ drainer[d] = "loop"
    /\ eventQueue = <<>>
    /\ drainer' = [drainer EXCEPT ![d] = "idle"]
    /\ UNCHANGED <<producerVars, gate, taken, connecting, delivered>>

StopDraining(d) ==
    /\ drainer[d] = "loop"
    /\ eventQueue = <<>>
    /\ eventDraining' = FALSE
    /\ drainer' = [drainer EXCEPT ![d] = "idle"]
    /\ UNCHANGED <<eventQueue, enqueued, gate, taken, connecting, delivered>>

(***************************************************************************)
(* User callbacks return sooner or later, and the only thing one waits for *)
(* is what the documentation allows a connect callback to wait for: a      *)
(* message of the new session.                                             *)
(***************************************************************************)
MayReturn(kind) ==
    kind = "connect" => \E i \in 1..Len(delivered) : delivered[i].kind = "message"

CallbacksReturn(d) ==
    /\ drainer[d] = "invoke"
    /\ MayReturn(taken[d].kind)
    /\ delivered' = Append(delivered, taken[d])
    /\ drainer' = [drainer EXCEPT ![d] = "loop"]
    /\ UNCHANGED <<producerVars, gate, taken, connecting>>

ConnectCallbackReturns ==
    /\ connecting > 0
    /\ MayReturn("connect")
    /\ connecting' = connecting - 1
    /\ UNCHANGED <<producerVars, drainer, gate, taken, delivered>>

DrainerStep(d) ==
    \/ ReadReady(d)
    \/ PassReady(d)
    \/ TakeEvent(d)
    \/ StopDraining(d)
    \/ CallbacksReturn(d)

-----------------------------------------------------------------------------
(***************************************************************************)
(* The queue by itself: anyone may dispatch and the connection may open    *)
(* and reconnect at any moment.                                            *)
(***************************************************************************)
Dispatch ==
    \E e \in Event :
        /\ IF ShouldQueueEvent(e.kind)
             THEN Len(enqueued) < MaxEvents
             ELSE connecting < MaxConnects
        /\ DispatchEvent(e)
        /\ UNCHANGED gateVars

Connection ==
    /\ \/ CloseReady
       \/ connectReady < MaxReady /\ ReplaceReady
    /\ UNCHANGED <<producerVars, drainer, gate, taken, connecting, delivered>>

Callbacks ==
    \/ \E d \in Drainers : DrainerStep(d) /\ UNCHANGED gateVars
    \/ ConnectCallbackReturns /\ UNCHANGED gateVars

Next == Dispatch \/ Connection \/ Callbacks

(***************************************************************************)
(* A started goroutine keeps being scheduled; nobody is obliged to         *)
(* dispatch, to open or to reconnect.                                      *)
(***************************************************************************)
Fairness ==
    /\ \A d \in Drainers : WF_vars(DrainerStep(d) /\ UNCHANGED gateVars)
    /\ WF_vars(ConnectCallbackReturns /\ UNCHANGED gateVars)

Spec == Init /\ [][Next]_vars /\ Fairness

-----------------------------------------------------------------------------
Places == {"idle", "start", "wait", "loop", "invoke"}

(* The values the variables of the queue range over. *)
TypeOK ==
    /\ eventQueue \in Seq(Event)
    /\ eventDraining \in BOOLEAN
    /\ connectReady \in 0..MaxReady
    /\ closedReady \subseteq 0..connectReady
    /\ drainer \in [Drainers -> Places]
    /\ gate \in [Drainers -> 0..connectReady]
    /\ taken \in [Drainers -> Event \cup {NoEvent}]
    /\ connecting \in Nat
    /\ enqueued \in Seq(Event)
    /\ delivered \in Seq(Event)

Active(d) == drainer[d] # "idle"

(* At most one goroutine drains, and eventDraining says whether one does: the
   flag is raised and lowered in the critical sections that append and find the
   queue empty, while the goroutine itself starts and ends elsewhere. *)
SingleDrainer ==
    /\ eventDraining <=> \E d \in Drainers : Active(d)
    /\ \A d1, d2 \in Drainers : Active(d1) /\ Active(d2) => d1 = d2

(* An event in the queue always has a drainer that is still going to look at the
   queue: the last look and the lowering of the flag leave no window in which a
   producer would count on a drainer that has already given up. *)
NoLostWakeup == eventQueue # <<>> => \E d \in Drainers : Active(d)

Invoking == {d \in Drainers : drainer[d] = "invoke"}

\* The event whose callbacks the drainer is running, as a sequence.
InFlight ==
    IF Invoking = {} THEN <<>> ELSE <<taken[CHOOSE d \in Invoking : TRUE]>>

(* Nothing is lost, duplicated or reordered between enqueueEvent and the
   callbacks, whatever the interleaving of producers, drainers and reconnects:
   delivered events, the one being handled and the waiting ones are together
   exactly what was queued, in that order. *)
SerialFIFO == enqueued = delivered \o InFlight \o eventQueue

\* The drainer's channel has not been closed by an OnOpen yet.
WaitsForOpen(d) ==
    /\ drainer[d] = "wait"
    /\ gate[d] \notin closedReady

(* Every queued event is delivered unless the drainer waits for an OnOpen that
   does not come, also when a connect callback waits for a message. *)
Delivery ==
    \A i \in 1..MaxEvents :
        Len(enqueued) >= i ~> \/ Len(delivered) >= i
                              \/ \E d \in Drainers : WaitsForOpen(d)

-----------------------------------------------------------------------------
(***************************************************************************)
(* The queue as SerialDelivery sees it.                                    *)
(***************************************************************************)
Running == IF Invoking = {} THEN NoEvent ELSE taken[CHOOSE d \in Invoking : TRUE]

Serial == INSTANCE SerialDelivery
            WITH None <- NoEvent, pending <- eventQueue, running <- Running

(* The queue implements SerialDelivery: one callback at a time, in the order in
   which the events were queued. *)
ImplementsSerial == Serial!Spec
=============================================================================
