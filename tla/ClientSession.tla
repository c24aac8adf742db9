---------------------------- MODULE ClientSession ----------------------------
(***************************************************************************)
(* The life of one v2 client facade (evsocket/v2/socketio.go).             *)
(*                                                                         *)
(* Three kinds of goroutine meet on the facade's fields: callers in        *)
(* Connect, Reconnect and Close; the read loop of each transport, which    *)
(* runs OnOpen, then the frame handlers, then OnClose; and SocketInstance. *)
(* Shutdown, which finalizes the live transport itself.  The event queue   *)
(* (EventQueue) and the heartbeat (ClientHeartbeat) are parts of the       *)
(* facade; their steps are steps of this module.                           *)
(*                                                                         *)
(* Every store, compare-and-swap and critical section, and every load      *)
(* whose value is used later, is a step of its own, in program order; the  *)
(* label of a goroutine names the step it takes next.                      *)
(*                                                                         *)
(* External: gws calls OnOpen once, then the frame handlers one at a time, *)
(* then OnClose once with a non-nil error, all on the read loop, which     *)
(* ends after the transport is closed by the peer or by WriteClose.        *)
(***************************************************************************)
EXTENDS Naturals, Sequences, FiniteSets

CONSTANTS
    Callers,        \* application goroutines that use the facade
    Sockets,        \* transports, one per successful handshake
    NoSocket,       \* nil
    NoEvent,
    Drainers,       \* identities for drainer goroutines
    MaxCalls,       \* bound on Connect, Reconnect and Close calls
    MaxMessages,    \* bound on messages received
    ShutdownAllowed,\* whether Shutdown may be called
    DialMayFail,    \* whether a handshake may fail
    OpenMayTimeOut, \* whether OnOpen may take longer than the 2s a caller waits
    Liberties       \* calls made outside the recommended order, see below

ASSUME ProcessesAssumption ==
    /\ NoSocket \notin Sockets
    /\ IsFiniteSet(Callers)
    /\ IsFiniteSet(Sockets)
    /\ Callers \cap Sockets = {}
    /\ NoEvent \notin [kind : {"connect", "message", "disconnect", "error"}, tag : Sockets]
    /\ MaxCalls \in Nat
    /\ MaxMessages \in Nat

VARIABLES
    isShutdown,     \* SocketInstance.isShutdown
    alive,          \* the facade's fields
    transport,
    clientState,
    inPool,         \* the facade is in the instance's pool
    opened,         \* transports whose "opened" channel is closed
    closed,         \* external: transports that are closed
    caller,         \* label of each caller
    dialed,         \* the transport each caller dialed last
    reader,         \* label of each transport's read loop
    stopper,        \* label of Shutdown
    stopping,       \* the transport Shutdown loaded
    established,    \* some Connect has returned nil
    calls,          \* number of calls made
    givenUp,        \* history: transports whose OnOpen a caller did not wait for
    crashed         \* a panic has ended the process

VARIABLES \* of EventQueue
    eventQueue, eventDraining, connectReady, closedReady, drainer, gate, taken,
    connecting, enqueued, delivered

VARIABLES \* of ClientHeartbeat
    heartbeatStop, heartbeatConn, stopped, started, beating

Kinds == {"connect", "message", "disconnect", "error"}

MaxEvents == MaxMessages + 2 * Cardinality(Sockets)

producerVars == <<eventQueue, eventDraining, enqueued>>
gateVars == <<connectReady, closedReady>>
drainerVars == <<drainer, gate, taken, connecting, delivered>>
queueVars == <<producerVars, gateVars, drainerVars>>
heartbeatVars == <<heartbeatStop, heartbeatConn, stopped, started, beating>>

Queue == INSTANCE EventQueue
           WITH Tags <- Sockets, MaxReady <- MaxCalls,
                MaxConnects <- Cardinality(Sockets)

Heartbeat == INSTANCE ClientHeartbeat

fields == <<alive, transport, clientState, inPool>>
sockets == <<opened, closed>>
labels == <<caller, dialed, reader, stopper, stopping>>
usage == <<established, calls, givenUp>>
vars == <<isShutdown, fields, sockets, labels, usage, crashed, queueVars, heartbeatVars>>

Init ==
    /\ isShutdown = FALSE
    /\ alive = FALSE
    /\ transport = NoSocket
    /\ clientState = "disconnected"
    /\ inPool = FALSE
    /\ opened = {}
    /\ closed = {}
    /\ caller = [c \in Callers |-> "idle"]
    /\ dialed = [c \in Callers |-> NoSocket]
    /\ reader = [s \in Sockets |-> "none"]
    /\ stopper = "idle"
    /\ stopping = NoSocket
    /\ established = FALSE
    /\ calls = 0
    /\ givenUp = {}
    /\ crashed = FALSE
    /\ Queue!Init
    /\ Heartbeat!Init

-----------------------------------------------------------------------------
\* Transports are made one after the other; which is which does not matter.
Fresh == {s \in Sockets : reader[s] = "none"}

NewSocket == CHOOSE s \in Sockets : s \in Fresh

(***************************************************************************)
(* Callers.                                                                *)
(***************************************************************************)
\* A step of caller c.  Nothing moves any more after a panic.
Goto(c, label) ==
    /\ ~crashed
    /\ caller' = [caller EXCEPT ![c] = label]
    /\ UNCHANGED crashed

\* OnDisconnected has at least begun to run for transport s.
Told(s) ==
    LET e == [kind |-> "disconnect", tag |-> s]
    IN \/ \E i \in 1..Len(delivered) : delivered[i] = e
       \/ \E d \in Drainers : drainer[d] = "invoke" /\ taken[d] = e

(***************************************************************************)
(* The order MIGRATION.md recommends: Connect until it has succeeded once, *)
(* and from then on Reconnect, once OnDisconnected has been called.  Each  *)
(* member of Liberties lifts one condition; the code checks none of them.  *)
(***************************************************************************)
MayConnect == established => "connect again" \in Liberties

MayReconnect ==
    /\ established \/ "reconnect first" \in Liberties
    /\ (\A s \in opened : Told(s)) \/ "reconnect live" \in Liberties

\* The bounds: a call is made while calls and transports are left.
Call(c, label) ==
    /\ caller[c] = "idle"
    /\ calls < MaxCalls
    /\ Fresh # {}
    /\ calls' = calls + 1
    /\ Goto(c, IF isShutdown THEN "idle" ELSE label)
    /\ UNCHANGED <<isShutdown, fields, sockets, dialed, reader, stopper, stopping,
                   established, givenUp, queueVars, heartbeatVars>>

CallConnect(c) == MayConnect /\ Call(c, "connect")

CallReconnect(c) == MayReconnect /\ Call(c, "reconnect")

\* What beginClientDial leaves alone, and with it every step of a call that only
\* sets clientState.
OnlyState ==
    UNCHANGED <<isShutdown, alive, transport, inPool, sockets, dialed,
                reader, stopper, stopping, calls, givenUp, queueVars, heartbeatVars>>

\* Mutant: a dial in progress is not refused.
BeginBesideDial(c) ==
    /\ caller[c] \in {"connect", "reconnect"}
    /\ clientState' = "connecting"
    /\ Goto(c, IF caller[c] = "connect" THEN "dial" ELSE "closeOld")
    /\ UNCHANGED established
    /\ OnlyState

BeginClientDial(c) ==
    /\ caller[c] \in {"connect", "reconnect"}
    /\ \/ /\ clientState = "connecting"
          /\ Goto(c, "idle")
          /\ UNCHANGED <<clientState, established>>
       \/ /\ clientState = "connected" /\ alive /\ caller[c] = "connect"
          /\ Goto(c, "idle")
          /\ established' = TRUE
          /\ UNCHANGED clientState
       \/ /\ clientState # "connecting"
          /\ ~(clientState = "connected" /\ alive /\ caller[c] = "connect")
          /\ clientState' = "connecting"
          /\ Goto(c, IF caller[c] = "connect" THEN "dial" ELSE "closeOld")
          /\ UNCHANGED established
    /\ OnlyState

CloseOld(c) ==
    /\ caller[c] = "closeOld"
    /\ closed' = closed \cup ({transport} \ {NoSocket})
    /\ Goto(c, "replaceReady")
    /\ UNCHANGED <<isShutdown, fields, opened, dialed, reader, stopper, stopping,
                   usage, queueVars, heartbeatVars>>

\* Mutant: Reconnect goes on with the channel of the first connection.
KeepConnectReady(c) ==
    /\ caller[c] = "replaceReady"
    /\ Goto(c, "redial")
    /\ UNCHANGED <<isShutdown, fields, sockets, dialed, reader, stopper, stopping, usage,
                   queueVars, heartbeatVars>>

ReplaceConnectReady(c) ==
    /\ caller[c] = "replaceReady"
    /\ Queue!ReplaceReady
    /\ Goto(c, "redial")
    /\ UNCHANGED <<isShutdown, fields, sockets, dialed, reader, stopper, stopping, usage,
                   producerVars, drainerVars, heartbeatVars>>

\* gws.NewClient fails; its callbacks run in goroutines of their own and touch
\* nothing.
DialFails(c) ==
    /\ DialMayFail
    /\ caller[c] \in {"dial", "redial"}
    /\ Goto(c, "fail")
    /\ UNCHANGED <<isShutdown, fields, sockets, dialed, reader, stopper, stopping,
                   established, calls, givenUp, queueVars, heartbeatVars>>

\* gws.NewClient returns a transport and its read loop is started.
DialSucceeds(c) ==
    /\ caller[c] \in {"dial", "redial"}
    /\ NewSocket \in Fresh
    /\ reader' = [reader EXCEPT ![NewSocket] = "storeTransport"]
    /\ dialed' = [dialed EXCEPT ![c] = NewSocket]
    /\ Goto(c, "await")
    /\ UNCHANGED <<isShutdown, fields, sockets, stopper, stopping, usage,
                   queueVars, heartbeatVars>>

OpenSeen(c) ==
    /\ caller[c] = "await"
    /\ dialed[c] \in opened
    /\ Goto(c, "idle")
    /\ established' = TRUE
    /\ UNCHANGED clientState
    /\ OnlyState

OpenTimesOut(c) ==
    /\ OpenMayTimeOut
    /\ caller[c] = "await"
    /\ closed' = closed \cup {dialed[c]}
    /\ givenUp' = givenUp \cup {dialed[c]}
    /\ Goto(c, "fail")
    /\ UNCHANGED <<isShutdown, fields, opened, dialed, reader, stopper, stopping,
                   established, calls, queueVars, heartbeatVars>>

ReturnError(c) ==
    /\ caller[c] = "fail"
    /\ clientState' = "disconnected"
    /\ Goto(c, "idle")
    /\ UNCHANGED established
    /\ OnlyState

\* Mutant: Close reports the disconnect itself, as Shutdown does.
CloseReporting(c) ==
    /\ caller[c] = "idle"
    /\ transport # NoSocket
    /\ calls < MaxCalls
    /\ calls' = calls + 1
    /\ closed' = closed \cup {transport}
    /\ Goto(c, "idle")
    /\ Queue!DispatchEvent([kind |-> "disconnect", tag |-> transport])
    /\ UNCHANGED <<isShutdown, fields, opened, dialed, reader, stopper, stopping, established,
                   givenUp, gateVars, heartbeatVars>>

\* Close writes a close frame to the transport it loads, if any.
Close(c) ==
    /\ caller[c] = "idle"
    /\ transport # NoSocket
    /\ calls < MaxCalls
    /\ calls' = calls + 1
    /\ closed' = closed \cup {transport}
    /\ Goto(c, "idle")
    /\ UNCHANGED <<isShutdown, fields, opened, dialed, reader, stopper, stopping, established,
                   givenUp, queueVars, heartbeatVars>>

CallerStep(c) ==
    \/ BeginClientDial(c)
    \/ CloseOld(c)
    \/ ReplaceConnectReady(c)
    \/ DialFails(c)
    \/ DialSucceeds(c)
    \/ OpenSeen(c)
    \/ OpenTimesOut(c)
    \/ ReturnError(c)

-----------------------------------------------------------------------------
(***************************************************************************)
(* OnOpen, on the read loop of transport s.                                *)
(***************************************************************************)
ReadLoop(s, from, to) ==
    /\ ~crashed
    /\ reader[s] = from
    /\ reader' = [reader EXCEPT ![s] = to]
    /\ UNCHANGED <<isShutdown, caller, dialed, stopper, stopping, usage>>

StoreTransport(s) ==
    /\ ReadLoop(s, "storeTransport", "setAlive")
    /\ transport' = s
    /\ UNCHANGED <<alive, clientState, inPool, sockets, crashed,
                   queueVars, heartbeatVars>>

\* connectedOnce, stored here as well, only decides whether a later dial that fails
\* calls OnConnectFailed; neither is modelled.
SetAlive(s) ==
    /\ ReadLoop(s, "setAlive", "setConnected")
    /\ alive' = TRUE
    /\ UNCHANGED <<transport, clientState, inPool, sockets, crashed,
                   queueVars, heartbeatVars>>

SetConnected(s) ==
    /\ ReadLoop(s, "setConnected", "startHeartbeat")
    /\ clientState' = "connected"
    /\ UNCHANGED <<alive, transport, inPool, sockets, crashed,
                   queueVars, heartbeatVars>>

\* Mutant: the heartbeat runs and the facade does not know its stop channel.
StartUnregistered(s) ==
    /\ ReadLoop(s, "startHeartbeat", "enterPool")
    /\ started' = started \cup {s}
    /\ beating' = beating \cup {s}
    /\ UNCHANGED <<heartbeatStop, heartbeatConn, stopped>>
    /\ UNCHANGED <<fields, sockets, crashed, queueVars>>

StartHeartbeat(s) ==
    /\ ReadLoop(s, "startHeartbeat", "enterPool")
    /\ Heartbeat!StartClientHeartbeat(s)
    /\ UNCHANGED <<fields, sockets, crashed, queueVars>>

EnterPool(s) ==
    /\ ReadLoop(s, "enterPool", "closeOpened")
    /\ inPool' = TRUE
    /\ UNCHANGED <<alive, transport, clientState, sockets, crashed,
                   queueVars, heartbeatVars>>

\* Mutant: the channel Connect waits for is never closed.
OpenedStaysOpen(s) ==
    /\ ReadLoop(s, "closeOpened", "closeReady")
    /\ UNCHANGED <<fields, sockets, crashed, queueVars, heartbeatVars>>

CloseOpened(s) ==
    /\ ReadLoop(s, "closeOpened", "closeReady")
    /\ opened' = opened \cup {s}
    /\ UNCHANGED <<fields, closed, crashed, queueVars, heartbeatVars>>

\* close(connectReady) panics when the channel in the field is closed already.
CloseConnectReady(s) ==
    /\ ReadLoop(s, "closeReady", "dispatchConnect")
    /\ IF connectReady \in closedReady
         THEN crashed' = TRUE /\ UNCHANGED gateVars
         ELSE Queue!CloseReady /\ UNCHANGED crashed
    /\ UNCHANGED <<fields, sockets, producerVars, drainerVars, heartbeatVars>>

DispatchConnect(s) ==
    /\ ReadLoop(s, "dispatchConnect", "reading")
    /\ Queue!DispatchEvent([kind |-> "connect", tag |-> s])
    /\ UNCHANGED <<fields, sockets, crashed, gateVars, heartbeatVars>>

OnMessage(s) ==
    LET e == [kind |-> "message", tag |-> s]
    IN /\ ReadLoop(s, "reading", "reading")
       /\ Cardinality({i \in 1..Len(enqueued) : enqueued[i].kind = "message"}) < MaxMessages
       /\ Queue!EnqueueEvent(e)
       /\ UNCHANGED <<fields, sockets, crashed, gateVars, heartbeatVars>>

\* External: the peer closes, or WriteClose has been called, or the read deadline
\* passes; gws leaves its loop and calls OnClose.
ReadEnds(s) ==
    /\ ReadLoop(s, "reading", "checkCurrent")
    /\ closed' = closed \cup {s}
    /\ UNCHANGED <<fields, opened, crashed, queueVars, heartbeatVars>>

-----------------------------------------------------------------------------
(***************************************************************************)
(* finalizeTransportClose(s, err), the step at label "at".  The goroutine  *)
(* goes on to Follow, which is "done" at the early returns; only OnClose   *)
(* passes a non-nil err.                                                   *)
(***************************************************************************)
\* Mutant: the facade leaves the pool after it has reported the disconnect.
LeavePoolLast(at) ==
    [checkCurrent |-> "takeAlive", takeAlive |-> "stopHeartbeat",
     stopHeartbeat |-> "clearTransport", clearTransport |-> "setDisconnected",
     setDisconnected |-> "dispatchDisconnect", dispatchDisconnect |-> "leavePool",
     leavePool |-> "dispatchError", dispatchError |-> "done"][at]

\* Mutant: the disconnect is reported before the transport is cleared.
ReportFirst(at) ==
    [checkCurrent |-> "takeAlive", takeAlive |-> "dispatchDisconnect",
     dispatchDisconnect |-> "stopHeartbeat", stopHeartbeat |-> "clearTransport",
     clearTransport |-> "setDisconnected", setDisconnected |-> "leavePool",
     leavePool |-> "dispatchError", dispatchError |-> "done"][at]

FinalizeOrder(at) ==
    [checkCurrent |-> "takeAlive", takeAlive |-> "stopHeartbeat",
     stopHeartbeat |-> "clearTransport", clearTransport |-> "setDisconnected",
     setDisconnected |-> "leavePool", leavePool |-> "dispatchDisconnect",
     dispatchDisconnect |-> "dispatchError", dispatchError |-> "done"][at]

\* Mutant: the result of the compare-and-swap on alive is ignored.
IgnoreAlive(at, s, failed) ==
    IF \/ at = "checkCurrent" /\ (s = NoSocket \/ transport # s)
       \/ at = "dispatchDisconnect" /\ ~failed
      THEN "done"
      ELSE FinalizeOrder(at)

Follow(at, s, failed) ==
    IF \/ at = "checkCurrent" /\ (s = NoSocket \/ transport # s)
       \/ at = "takeAlive" /\ ~alive
       \/ at = "dispatchDisconnect" /\ ~failed
      THEN "done"
      ELSE FinalizeOrder(at)

\* alive, transport, clientState and inPool, in this order.
FinalizeFields(at) ==
    /\ alive' = (alive /\ at # "takeAlive")
    /\ transport' = IF at = "clearTransport" THEN NoSocket ELSE transport
    /\ clientState' = IF at = "setDisconnected" /\ clientState # "connecting"
                         THEN "disconnected"
                         ELSE clientState
    /\ inPool' = (inPool /\ at # "leavePool")

\* Mutant: the events of the session that has ended are thrown away.
DispatchDiscarding(at, s) ==
    CASE at = "dispatchDisconnect" ->
           /\ Queue!DispatchEvent([kind |-> "disconnect", tag |-> s])
           /\ UNCHANGED gateVars
      [] at = "dispatchError" ->
           /\ eventQueue' = <<>>
           /\ UNCHANGED <<eventDraining, enqueued, gateVars, drainerVars>>
      [] OTHER -> UNCHANGED queueVars

FinalizeDispatch(at, s) ==
    CASE at = "dispatchDisconnect" ->
           /\ Queue!DispatchEvent([kind |-> "disconnect", tag |-> s])
           /\ UNCHANGED gateVars
      [] at = "dispatchError" ->
           /\ Queue!DispatchEvent([kind |-> "error", tag |-> s])
           /\ UNCHANGED gateVars
      [] OTHER -> UNCHANGED queueVars

FinalizeLabels ==
    {"checkCurrent", "takeAlive", "stopHeartbeat", "clearTransport",
     "setDisconnected", "leavePool", "dispatchDisconnect", "dispatchError"}

FinalizeTransportClose(at, s) ==
    /\ FinalizeFields(at)
    /\ IF at = "stopHeartbeat"
         THEN Heartbeat!StopClientHeartbeat(s)
         ELSE UNCHANGED heartbeatVars
    /\ FinalizeDispatch(at, s)
    /\ UNCHANGED <<sockets, crashed>>

OnClose(s) ==
    /\ reader[s] \in FinalizeLabels
    /\ ReadLoop(s, reader[s], Follow(reader[s], s, TRUE))
    /\ FinalizeTransportClose(reader[s], s)

ReadLoopStep(s) ==
    \/ StoreTransport(s)
    \/ SetAlive(s)
    \/ SetConnected(s)
    \/ StartHeartbeat(s)
    \/ EnterPool(s)
    \/ CloseOpened(s)
    \/ CloseConnectReady(s)
    \/ DispatchConnect(s)
    \/ OnClose(s)

-----------------------------------------------------------------------------
(***************************************************************************)
(* SocketInstance.Shutdown, as far as this facade is concerned.            *)
(***************************************************************************)
StopperGoto(from, to) ==
    /\ ~crashed
    /\ stopper = from
    /\ stopper' = to
    /\ UNCHANGED <<opened, caller, dialed, reader, usage, crashed>>

BeginShutdown ==
    /\ ShutdownAllowed
    /\ StopperGoto("idle", "snapshot")
    /\ isShutdown' = TRUE
    /\ UNCHANGED <<fields, sockets, stopping, queueVars, heartbeatVars>>

SnapshotPool ==
    /\ StopperGoto("snapshot", IF inPool THEN "visit" ELSE "resetListeners")
    /\ UNCHANGED <<isShutdown, fields, sockets, stopping, queueVars, heartbeatVars>>

VisitConnection ==
    /\ StopperGoto("visit", IF alive THEN "load" ELSE "resetListeners")
    /\ UNCHANGED <<isShutdown, fields, sockets, stopping, queueVars, heartbeatVars>>

LoadTransport ==
    /\ StopperGoto("load", "close")
    /\ stopping' = transport
    /\ UNCHANGED <<isShutdown, fields, sockets, queueVars, heartbeatVars>>

\* conn.Close() loads the transport for itself.
CloseConnection ==
    /\ StopperGoto("close", "checkCurrent")
    /\ closed' = closed \cup ({transport} \ {NoSocket})
    /\ UNCHANGED <<isShutdown, fields, opened, stopping, queueVars, heartbeatVars>>

FinalizeConnection ==
    LET to == Follow(stopper, stopping, FALSE)
    IN /\ stopper \in FinalizeLabels
       /\ StopperGoto(stopper, IF to = "done" THEN "resetListeners" ELSE to)
       /\ FinalizeTransportClose(stopper, stopping)
       /\ UNCHANGED <<isShutdown, stopping>>

\* The queue does not look at the listeners: a disconnect queued after this step
\* finds none registered with On, and OnDisconnected is still called.
ResetListeners ==
    /\ StopperGoto("resetListeners", "done")
    /\ UNCHANGED <<isShutdown, fields, sockets, stopping, queueVars, heartbeatVars>>

ShutdownStep ==
    \/ SnapshotPool
    \/ VisitConnection
    \/ LoadTransport
    \/ CloseConnection
    \/ FinalizeConnection
    \/ ResetListeners

-----------------------------------------------------------------------------
(***************************************************************************)
(* Goroutines inside the facade.                                           *)
(***************************************************************************)
FacadeRests ==
    /\ ~crashed
    /\ UNCHANGED <<isShutdown, fields, sockets, labels, usage, crashed>>

Drain(d) ==
    /\ Queue!DrainerStep(d)
    /\ UNCHANGED <<gateVars, heartbeatVars>>
    /\ FacadeRests

ConnectCallback ==
    /\ Queue!ConnectCallbackReturns
    /\ UNCHANGED <<gateVars, heartbeatVars>>
    /\ FacadeRests

\* At a tick the heartbeat looks at the facade, then writes to its socket.
HeartbeatEnds(s) ==
    /\ Heartbeat!HeartbeatReturns(s, transport = s /\ alive /\ s \notin closed)
    /\ UNCHANGED queueVars
    /\ FacadeRests

-----------------------------------------------------------------------------
Next ==
    \/ \E c \in Callers :
         CallConnect(c) \/ CallReconnect(c) \/ Close(c) \/ CallerStep(c)
    \/ \E s \in Sockets :
         ReadLoopStep(s) \/ OnMessage(s) \/ ReadEnds(s) \/ HeartbeatEnds(s)
    \/ BeginShutdown
    \/ ShutdownStep
    \/ \E d \in Drainers : Drain(d)
    \/ ConnectCallback

Spec == Init /\ [][Next]_vars

(***************************************************************************)
(* What goroutines that have been started do by themselves; a transport    *)
(* that is closed ends its read loop.                                      *)
(***************************************************************************)
Work ==
    \/ \E c \in Callers : CallerStep(c)
    \/ \E s \in Sockets : ReadLoopStep(s) \/ (s \in closed /\ ReadEnds(s))
    \/ ShutdownStep
    \/ \E d \in Drainers : Drain(d)

(***************************************************************************)
(* As long as a goroutine can go on, one does.  Calls are bounded, so each *)
(* has its turn: this is all that is needed of the scheduler.  Nobody is   *)
(* obliged to call anything, and no peer to send or to close.              *)
(***************************************************************************)
Fairness == WF_vars(Work)

FairSpec == Spec /\ Fairness

-----------------------------------------------------------------------------
CallerLabels == {"idle", "connect", "reconnect", "dial", "closeOld", "replaceReady",
                 "redial", "await", "fail"}

OpenLabels == {"storeTransport", "setAlive", "setConnected", "startHeartbeat",
               "enterPool", "closeOpened", "closeReady", "dispatchConnect"}

\* The facade's own variables.  Shutdown passes no error and never reaches the
\* label that reports one.
FacadeTypes ==
    /\ {isShutdown, alive, inPool, established, crashed} \subseteq BOOLEAN
    /\ {transport, stopping} \subseteq Sockets \cup {NoSocket}
    /\ clientState \in {"connecting", "connected", "disconnected"}
    /\ opened \subseteq Sockets
    /\ closed \subseteq Sockets
    /\ givenUp \subseteq closed
    /\ caller \in [Callers -> CallerLabels]
    /\ dialed \in [Callers -> Sockets \cup {NoSocket}]
    /\ \A c \in Callers : caller[c] = "await" => dialed[c] \in Sockets
    /\ reader \in [Sockets -> {"none", "reading", "done"} \cup OpenLabels \cup FinalizeLabels]
    /\ stopper \in {"idle", "snapshot", "visit", "load", "close", "resetListeners", "done"}
                    \cup (FinalizeLabels \ {"dispatchError"})
    /\ stopper \in FinalizeLabels \ {"checkCurrent"} => stopping # NoSocket
    /\ calls \in 0..MaxCalls

(* The values the variables of the facade, of its queue and of its heartbeat range
   over. *)
TypeOK == FacadeTypes /\ Queue!TypeOK /\ Heartbeat!TypeOK

(* No interleaving of callers, read loops and Shutdown panics: the only panic a
   facade can raise is closing connectReady a second time. *)
NoCrash == ~crashed

\* No goroutine is inside a handler or a call.
Quiet ==
    /\ \A c \in Callers : caller[c] = "idle"
    /\ \A s \in Sockets : reader[s] \in {"none", "reading", "done"}
    /\ stopper \in {"idle", "done"}

(* The fields that say whether the facade is connected agree whenever nobody is
   changing them: IsAlive, the transport, the client state, the pool entry and the
   heartbeat tell one story, and the transport is one whose read loop runs. *)
FacadeCoherent ==
    ~crashed /\ Quiet =>
        /\ alive <=> transport # NoSocket
        /\ alive <=> clientState = "connected"
        /\ alive <=> inPool
        /\ heartbeatConn = transport
        /\ alive => reader[transport] = "reading"

(* A transport whose read loop still runs is the one the facade holds: no session
   that lost its facade goes on receiving messages. *)
NoStraySession ==
    ~crashed /\ Quiet =>
        \A s \in Sockets : reader[s] = "reading" /\ s \notin closed => transport = s

Reports(s) ==
    {i \in 1..Len(enqueued) : enqueued[i] = [kind |-> "disconnect", tag |-> s]}

(* When everybody is done with a transport that opened, its disconnect has been queued
   once, although its read loop and Shutdown may both have finalized it: OnDisconnected
   and EventDisconnect are owed to every session. *)
EverySessionReported ==
    ~crashed /\ Quiet =>
        \A s \in Sockets : reader[s] = "done" => Cardinality(Reports(s)) = 1

(* An application that reconnects from OnDisconnected sees one session after the
   other, until Shutdown, which reports the disconnect beside the read loop: a message
   is delivered before the disconnect of its session and after those of the sessions
   before it. *)
SessionsDoNotMix ==
    ~isShutdown => \A i, j \in 1..Len(delivered) :
        /\ delivered[i].kind = "disconnect"
        /\ delivered[j].kind = "message"
        => \/ i < j /\ delivered[i].tag # delivered[j].tag
           \/ i > j /\ \E k \in (j + 1)..i :
                         delivered[k] = [kind |-> "disconnect", tag |-> delivered[j].tag]

\* Goroutines that own the right to dial: from beginClientDial to SetConnected.
Dialing ==
    {c \in Callers : caller[c] \in {"closeOld", "replaceReady", "dial", "redial", "fail"}}
      \cup {s \in Sockets : reader[s] \in {"storeTransport", "setAlive", "setConnected"}}

(* One dial at a time, and clientState says so, whatever the callers do, until a
   caller gives up waiting for OnOpen: beginClientDial takes the right, and a
   failure, or the OnOpen of the dialed transport, gives it back. *)
DialExclusive ==
    givenUp = {} =>
        /\ clientState = "connecting" <=> Dialing # {}
        /\ \A p, q \in Dialing : p = q

\* A step of the finalization of transport s, by its read loop or by Shutdown.
StopsItsOwn(s) ==
    \/ reader[s] = "stopHeartbeat" /\ reader'[s] # reader[s]
    \/ stopper = "stopHeartbeat" /\ stopping = s /\ stopper' # stopper

(* A heartbeat is told to stop by the end of its own transport or because another one is
   started, whatever calls overlap: the OnClose of a transport that has been replaced
   meanwhile, which has passed its checks before, does not silence its successor. *)
HeartbeatKept ==
    [][\A s \in stopped' \ stopped : StopsItsOwn(s) \/ started' # started]_vars

(* The facade uses its queue and its heartbeat as they are meant to be used: what is
   proved of the two components holds inside the facade. *)
UsesQueue == Queue!Init /\ [][Queue!Next]_(Queue!vars)

UsesHeartbeat == Heartbeat!Spec

(* Every call returns. *)
CallsReturn == \A c \in Callers : []<>(caller[c] = "idle" \/ crashed)

\* A drainer waits for an OnOpen that does not come: its channel has been replaced, and
\* an OnOpen closes only the one in the field; or nobody dials, and a Reconnect will
\* replace it before it dials.
Abandoned(d) ==
    /\ Queue!WaitsForOpen(d)
    /\ \/ gate[d] # connectReady
       \/ /\ \A c \in Callers : caller[c] = "idle"
          /\ \A s \in Sockets : reader[s] \notin OpenLabels

(* The OnDisconnected callback of every session that ends is eventually called, unless a
   drainer has been abandoned.  Such a drainer is not released by a later Reconnect that
   succeeds: every event queued after it, the later disconnects among them, waits for
   good.  It takes no more than a Reconnect from OnDisconnected that fails, while the
   error event of the session is still queued. *)
DisconnectDelivered ==
    \A s \in Sockets :
        []<>(\/ reader[s] \notin FinalizeLabels \cup {"done"}
             \/ Told(s)
             \/ crashed
             \/ \E d \in Drainers : Abandoned(d))
=============================================================================
