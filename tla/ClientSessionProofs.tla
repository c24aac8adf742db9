------------------------- MODULE ClientSessionProofs -------------------------
(***************************************************************************)
(* Proofs about the facade: its heartbeat by itself, what holds of it      *)
(* whatever its callers do, and what the recommended use adds.  The        *)
(* invariants come first; each step lemma has one step per action, or per  *)
(* group of actions that disturb its goal alike.                           *)
(*                                                                         *)
(* The first part of the invariants holds of every instance.  It says what *)
(* the facade owes to its queue and its heartbeat: no start of a heartbeat *)
(* is repeated, and the transports and calls that are left pay for the     *)
(* events, the connect callbacks and the channels still to come.           *)
(*                                                                         *)
(* The second part holds when the facade is used as MIGRATION.md           *)
(* recommends, by one caller that does not give up on an OnOpen: there is  *)
(* one session at a time, and the fields follow how far it has got.        *)
(***************************************************************************)
EXTENDS ClientSession, FiniteSetTheorems, SequenceTheorems, TLAPS

QueueProofs == INSTANCE EventQueueProofs
                 WITH Tags <- Sockets, MaxReady <- MaxCalls,
                      MaxConnects <- Cardinality(Sockets)

\* Finalizing, after the compare-and-swap on alive has been won.
TakenLabels == {"stopHeartbeat", "clearTransport", "setDisconnected", "leavePool",
                "dispatchDisconnect"}

-----------------------------------------------------------------------------
(***************************************************************************)
(* The heartbeat inside the facade.                                        *)
(***************************************************************************)
StartLabels == {"none", "storeTransport", "setAlive", "setConnected", "startHeartbeat"}

\* A read loop that has started its heartbeat does not come back to the start.
StartsOnce == \A s \in started : reader[s] \notin StartLabels

\* The stop channel and the socket beside it name the same start.
HeartbeatInv ==
    /\ Heartbeat!TypeOK
    /\ heartbeatStop = heartbeatConn
    /\ heartbeatConn \in started \cup {NoSocket}
    /\ Heartbeat!NoDoubleClose
    /\ Heartbeat!OneUntoldHeartbeat

-----------------------------------------------------------------------------
(***************************************************************************)
(* The bounds of the queue.                                                *)
(***************************************************************************)
Where(S, f, L) == {x \in S : f[x] \in L}

Amount(b) == IF b THEN 1 ELSE 0

ComingLabels == {"none", "storeTransport", "setAlive"}

UnopenedLabels == {"none"} \cup OpenLabels

UnfinishedLabels == {"none", "reading"} \cup OpenLabels \cup FinalizeLabels

BeforeRedial == {"reconnect", "closeOld", "replaceReady"}

(* A transport queues an error when it has been finalized.  Its disconnect is paid for
   first by its coming SetAlive, then by alive, and then by the goroutine that has
   taken alive away. *)
Weight(label) == Amount(label \in ComingLabels) + Amount(label \in TakenLabels)
                   + Amount(label \in UnfinishedLabels)

LoopsOwe(r) == Cardinality(Where(Sockets, r, ComingLabels))
                 + Cardinality(Where(Sockets, r, TakenLabels))
                 + Cardinality(Where(Sockets, r, UnfinishedLabels))

\* The disconnects and errors that may still be queued.
Owes(r, label, living) == LoopsOwe(r) + Amount(label \in TakenLabels) + Amount(living)

Messages == {i \in 1..Len(enqueued) : enqueued[i].kind = "message"}

Within(messages, events, owed, n) ==
    /\ messages \in 0..MaxMessages
    /\ events \in Nat
    /\ owed \in Nat
    /\ events + owed <= messages + 2 * n

EventsLeft ==
    Within(Cardinality(Messages), Len(enqueued), Owes(reader, stopper, alive),
           Cardinality(Sockets))

\* What a step does to that account.
EventsMove ==
    /\ Owes(reader', stopper', alive') \in Nat
    /\ \/ /\ enqueued' = enqueued
          /\ Owes(reader', stopper', alive') <= Owes(reader, stopper, alive)
       \/ \E e \in Queue!Event :
             /\ enqueued' = Append(enqueued, e)
             /\ IF e.kind = "message"
                  THEN /\ Cardinality(Messages) < MaxMessages
                       /\ Owes(reader', stopper', alive') <= Owes(reader, stopper, alive)
                  ELSE Owes(reader', stopper', alive') + 1 <= Owes(reader, stopper, alive)

Unopened(r) == Cardinality(Where(Sockets, r, UnopenedLabels))

\* A transport has one connect callback.
ConnectsLeft ==
    /\ connecting \in Nat
    /\ connecting + Unopened(reader) <= Cardinality(Sockets)

Redialing(f) == Cardinality(Where(Callers, f, BeforeRedial))

\* A Reconnect makes one channel.
ReadiesLeft ==
    /\ connectReady \in Nat
    /\ connectReady + Redialing(caller) <= calls

-----------------------------------------------------------------------------
(***************************************************************************)
(* The recommended use.                                                    *)
(***************************************************************************)
Recommended ==
    /\ \A c, d \in Callers : c = d
    /\ Liberties = {}
    /\ ~OpenMayTimeOut

EarlyLabels == {"storeTransport", "setAlive", "setConnected", "startHeartbeat", "enterPool"}

\* The labels at which alive is true.
Up == {"setConnected", "startHeartbeat", "enterPool", "closeOpened", "closeReady",
       "dispatchConnect", "reading", "checkCurrent", "takeAlive"}

Over == {"none", "dispatchError", "done"}

Calling == {"connect", "reconnect", "closeOld", "replaceReady", "dial", "redial", "fail"}

(* How far the session of transport s has got.  Shutdown, once it has taken alive
   away, carries on in place of the read loop. *)
Phase(s) ==
    IF stopping = s /\ stopper \in TakenLabels
      THEN stopper
      ELSE IF /\ stopping = s
              /\ stopper \in {"resetListeners", "done"}
              /\ reader[s] \notin TakenLabels \cup {"dispatchError"}
             THEN "done"
             ELSE reader[s]

Busy(s) == reader[s] \notin Over \/ Phase(s) \notin Over

(* One session at a time.  What makes it hold: a caller that dials has found every
   session over, and only the caller that waits for an OnOpen lets one go on. *)
OneSession ==
    /\ \A s, t \in Sockets : Busy(s) /\ Busy(t) => s = t
    /\ \A c \in Callers :
          /\ caller[c] \in Calling => \A s \in Sockets : ~Busy(s)
          /\ caller[c] # "await" /\ ~established => \A s \in Sockets : reader[s] = "none"
          /\ caller[c] \in {"connect", "dial"} => ~established
          /\ caller[c] = "await" =>
                /\ reader[dialed[c]] # "none"
                /\ \A s \in Sockets : Busy(s) => s = dialed[c]
                /\ ~established => \A s \in Sockets : reader[s] # "none" => s = dialed[c]
    /\ \A s \in Sockets :
          /\ reader[s] \in EarlyLabels \cup {"closeOpened"} =>
                \E c \in Callers : caller[c] = "await" /\ dialed[c] = s
          /\ s \in opened <=> reader[s] \notin EarlyLabels \cup {"closeOpened", "none"}

(* Shutdown looks at a session that has entered the pool; whoever calls afterwards is
   refused. *)
StopperLate ==
    /\ stopper = "idle" <=> ~isShutdown
    /\ stopper \in {"idle", "snapshot", "visit", "load"} => stopping = NoSocket
    /\ stopping # NoSocket \/ stopper \in {"visit", "load", "close"} \cup FinalizeLabels =>
          /\ isShutdown
          /\ \A c \in Callers : caller[c] \notin Calling
          /\ \A s \in Sockets : reader[s] \notin EarlyLabels
    /\ stopping # NoSocket =>
          /\ reader[stopping] # "none"
          /\ \A s \in Sockets : Busy(s) => s = stopping
    /\ stopper \in TakenLabels => reader[stopping] \in Up \cup {"done"}

\* Every field is a function of the phase of the session.
Fields ==
    /\ alive <=> \E s \in Sockets : Phase(s) \in Up
    /\ inPool <=> \E s \in Sockets :
          Phase(s) \in (Up \ EarlyLabels) \cup {"stopHeartbeat", "clearTransport",
                                                "setDisconnected", "leavePool"}
    /\ clientState = "connected" <=> \E s \in Sockets :
          Phase(s) \in (Up \ {"setConnected"}) \cup {"stopHeartbeat", "clearTransport",
                                                     "setDisconnected"}
    /\ \A s \in Sockets :
          /\ transport = s <=>
                Phase(s) \in Up \cup {"setAlive", "stopHeartbeat", "clearTransport"}
          /\ heartbeatConn = s <=>
                Phase(s) \in (Up \ {"setConnected", "startHeartbeat"}) \cup {"stopHeartbeat"}

\* Shutdown has closed a transport whose read loop it leaves behind.
Closing ==
    /\ stopping # NoSocket
    /\ reader[stopping] \in Up
    /\ stopper \in FinalizeLabels \cup {"resetListeners", "done"}
    => stopping \in closed

\* The channel an OnOpen is going to close is open.
ReadyFresh ==
    /\ ~crashed
    /\ \A c \in Callers :
          /\ ~established /\ caller[c] # "await" => closedReady = {}
          /\ caller[c] = "redial" => connectReady \notin closedReady
    /\ \A s \in Sockets :
          reader[s] \in EarlyLabels \cup {"closeOpened", "closeReady"} =>
              connectReady \notin closedReady

Finished(s) == Phase(s) \in {"dispatchError", "done"}

\* A session has queued its disconnect once when it has finished, and not before.
Reported ==
    \A s \in Sockets :
        IF Finished(s)
          THEN \E i \in 1..Len(enqueued) : Reports(s) = {i}
          ELSE Reports(s) = {}

\* OnOpen of transport s is over.
Past(s) == reader[s] \notin UnopenedLabels

\* SessionsDoNotMix, of the events in the order they are queued.
MessageFirst ==
    ~isShutdown =>
        /\ \A j \in 1..Len(enqueued) : enqueued[j].kind = "message" =>
              /\ Past(enqueued[j].tag)
              /\ Finished(enqueued[j].tag) =>
                    \E k \in (j + 1)..Len(enqueued) :
                        enqueued[k] = [kind |-> "disconnect", tag |-> enqueued[j].tag]
        /\ \A i, j \in 1..Len(enqueued) :
              /\ enqueued[i].kind = "disconnect"
              /\ enqueued[j].kind = "message"
              => \/ i < j /\ enqueued[i].tag # enqueued[j].tag
                 \/ i > j /\ \E k \in (j + 1)..i :
                       enqueued[k] = [kind |-> "disconnect", tag |-> enqueued[j].tag]

-----------------------------------------------------------------------------
(***************************************************************************)
(* A fact the steps rest on, from the queue.                               *)
(***************************************************************************)
ToldReported == \A s \in Sockets : Told(s) => Finished(s)

\* What a step queues: nothing, an event that is no disconnect, or the disconnect of
\* a session that finishes.
QueueStep ==
    \/ /\ UNCHANGED enqueued
       /\ \A t \in Sockets : Finished(t)' <=> Finished(t)
    \/ /\ \E s \in Sockets, kind \in {"message", "error"} :
             /\ enqueued' = Append(enqueued, [kind |-> kind, tag |-> s])
             /\ kind = "message" /\ ~isShutdown => Past(s) /\ ~Finished(s)
       /\ \A t \in Sockets : Finished(t)' <=> Finished(t)
    \/ \E s \in Sockets :
          /\ enqueued' = Append(enqueued, [kind |-> "disconnect", tag |-> s])
          /\ Finished(s)' /\ ~Finished(s)
          /\ \A t \in Sockets \ {s} :
                /\ Finished(t)' <=> Finished(t)
                /\ Past(t) /\ ~isShutdown => Finished(t)

Onward ==
    /\ ~isShutdown' => ~isShutdown
    /\ \A t \in Sockets : Past(t) => Past(t)'

-----------------------------------------------------------------------------
(***************************************************************************)
(* The heartbeat by itself.                                                *)
(***************************************************************************)
(* The invariant holds in the initial state. *)
LEMMA HeartbeatInit == Heartbeat!Init => HeartbeatInv
BY DEF Heartbeat!Init, HeartbeatInv, Heartbeat!TypeOK, Heartbeat!NoDoubleClose,
   Heartbeat!OneUntoldHeartbeat

(* Every step of the heartbeat keeps the invariant. *)
LEMMA HeartbeatNext ==
    ASSUME HeartbeatInv, [Heartbeat!Next]_(Heartbeat!vars)
    PROVE  HeartbeatInv'
<1> USE ProcessesAssumption DEF HeartbeatInv, Heartbeat!TypeOK,
        Heartbeat!NoDoubleClose, Heartbeat!OneUntoldHeartbeat
<1>1. ASSUME NEW s \in Sockets \ started, Heartbeat!StartClientHeartbeat(s)
      PROVE  HeartbeatInv'
    BY <1>1 DEF Heartbeat!StartClientHeartbeat
<1>2. ASSUME NEW s \in started, Heartbeat!StopClientHeartbeat(s)
      PROVE  HeartbeatInv'
    <2>1. CASE heartbeatConn # s
        BY <1>2, <2>1 DEF Heartbeat!StopClientHeartbeat, Heartbeat!vars
    <2>2. CASE heartbeatConn = s
        BY <1>2, <2>2 DEF Heartbeat!StopClientHeartbeat
    <2> QED
        BY <2>1, <2>2
<1>3. ASSUME NEW s \in Sockets, NEW current \in BOOLEAN,
             Heartbeat!HeartbeatReturns(s, current)
      PROVE  HeartbeatInv'
    BY <1>3 DEF Heartbeat!HeartbeatReturns
<1>4. CASE UNCHANGED Heartbeat!vars
    BY <1>4 DEF Heartbeat!vars
<1> QED
    BY <1>1, <1>2, <1>3, <1>4 DEF Heartbeat!Next

(* The heartbeat fields keep their types and agree, in whatever order the transports of
   a facade open and close. *)
THEOREM HeartbeatInvariance == Heartbeat!Spec => []HeartbeatInv
BY HeartbeatInit, HeartbeatNext, PTL DEF Heartbeat!Spec

(* No heartbeat stop channel is closed twice, which would panic in the read loop. *)
THEOREM ChannelClosedOnce == Heartbeat!Spec => []Heartbeat!NoDoubleClose
<1>1. HeartbeatInv => Heartbeat!NoDoubleClose
    BY DEF HeartbeatInv
<1> QED
    BY <1>1, HeartbeatInvariance, PTL

(* At most one heartbeat is left running untold, whatever the number of dials. *)
THEOREM NoHeartbeatLeak == Heartbeat!Spec => []Heartbeat!OneUntoldHeartbeat
<1>1. HeartbeatInv => Heartbeat!OneUntoldHeartbeat
    BY DEF HeartbeatInv
<1> QED
    BY <1>1, HeartbeatInvariance, PTL

-----------------------------------------------------------------------------
(***************************************************************************)
(* Types, and the right to dial.                                           *)
(***************************************************************************)
(* Where a goroutine goes in finalizeTransportClose. *)
LEMMA FollowIs ==
    ASSUME NEW at \in FinalizeLabels, NEW s, NEW failed
    PROVE  /\ Follow(at, s, failed) \in (FinalizeLabels \ {"checkCurrent"}) \cup {"done"}
           /\ Follow(at, s, FALSE) # "dispatchError"
           /\ at = "checkCurrent" /\ s = NoSocket => Follow(at, s, failed) = "done"
BY DEF FinalizeLabels, Follow, FinalizeOrder

(* Every step keeps the types of the facade's variables. *)
LEMMA TypesStep ==
    ASSUME FacadeTypes, [Next]_vars
    PROVE  FacadeTypes'
<1> USE ProcessesAssumption DEF FacadeTypes, CallerLabels, OpenLabels, fields, sockets,
        labels, usage
<1>1. ASSUME NEW c \in Callers, CallConnect(c)
      PROVE  FacadeTypes'
    BY <1>1 DEF CallConnect, Call, Goto
<1>2. ASSUME NEW c \in Callers, CallReconnect(c)
      PROVE  FacadeTypes'
    BY <1>2 DEF CallReconnect, Call, Goto
<1>3. ASSUME NEW c \in Callers, BeginClientDial(c)
      PROVE  FacadeTypes'
    BY <1>3 DEF BeginClientDial, OnlyState, Goto
<1>4. ASSUME NEW c \in Callers, CloseOld(c)
      PROVE  FacadeTypes'
    BY <1>4 DEF CloseOld, Goto
<1>5. ASSUME NEW c \in Callers, ReplaceConnectReady(c)
      PROVE  FacadeTypes'
    BY <1>5 DEF ReplaceConnectReady, Queue!ReplaceReady, Goto
<1>6. ASSUME NEW c \in Callers, DialFails(c)
      PROVE  FacadeTypes'
    BY <1>6 DEF DialFails, Goto
<1>7. ASSUME NEW c \in Callers, DialSucceeds(c)
      PROVE  FacadeTypes'
    BY <1>7 DEF DialSucceeds, Goto, Fresh
<1>8. ASSUME NEW c \in Callers, OpenSeen(c)
      PROVE  FacadeTypes'
    BY <1>8 DEF OpenSeen, OnlyState, Goto
<1>9. ASSUME NEW c \in Callers, OpenTimesOut(c)
      PROVE  FacadeTypes'
    BY <1>9 DEF OpenTimesOut, Goto
<1>10. ASSUME NEW c \in Callers, ReturnError(c)
       PROVE  FacadeTypes'
    BY <1>10 DEF ReturnError, OnlyState, Goto
<1>11. ASSUME NEW c \in Callers, Close(c)
       PROVE  FacadeTypes'
    BY <1>11 DEF Close, Goto
<1>12. ASSUME NEW s \in Sockets, StoreTransport(s)
       PROVE  FacadeTypes'
    BY <1>12 DEF StoreTransport, ReadLoop
<1>13. ASSUME NEW s \in Sockets, SetAlive(s)
       PROVE  FacadeTypes'
    BY <1>13 DEF SetAlive, ReadLoop
<1>14. ASSUME NEW s \in Sockets, SetConnected(s)
       PROVE  FacadeTypes'
    BY <1>14 DEF SetConnected, ReadLoop
<1>15. ASSUME NEW s \in Sockets, StartHeartbeat(s)
       PROVE  FacadeTypes'
    BY <1>15 DEF StartHeartbeat, Heartbeat!StartClientHeartbeat, ReadLoop
<1>16. ASSUME NEW s \in Sockets, EnterPool(s)
       PROVE  FacadeTypes'
    BY <1>16 DEF EnterPool, ReadLoop
<1>17. ASSUME NEW s \in Sockets, CloseOpened(s)
       PROVE  FacadeTypes'
    BY <1>17 DEF CloseOpened, ReadLoop
<1>18. ASSUME NEW s \in Sockets, CloseConnectReady(s)
       PROVE  FacadeTypes'
    BY <1>18 DEF CloseConnectReady, Queue!CloseReady, ReadLoop
<1>19. ASSUME NEW s \in Sockets, DispatchConnect(s)
       PROVE  FacadeTypes'
    BY <1>19 DEF DispatchConnect, ReadLoop
<1>20. ASSUME NEW s \in Sockets, OnMessage(s)
       PROVE  FacadeTypes'
    BY <1>20 DEF OnMessage, ReadLoop
<1>21. ASSUME NEW s \in Sockets, ReadEnds(s)
       PROVE  FacadeTypes'
    BY <1>21 DEF ReadEnds, ReadLoop, FinalizeLabels
<1>22. ASSUME NEW s \in Sockets, OnClose(s)
       PROVE  FacadeTypes'
    <2>1. Follow(reader[s], s, TRUE) \in FinalizeLabels \cup {"done"}
        BY <1>22, FollowIs DEF OnClose
    <2> QED
        BY <1>22, <2>1 DEF OnClose, ReadLoop, FinalizeTransportClose, FinalizeFields
<1>23. ASSUME NEW s \in Sockets, HeartbeatEnds(s)
       PROVE  FacadeTypes'
    BY <1>23 DEF HeartbeatEnds, Heartbeat!HeartbeatReturns, FacadeRests
<1>24. CASE BeginShutdown
    BY <1>24 DEF BeginShutdown, StopperGoto, FinalizeLabels
<1>25. CASE SnapshotPool
    BY <1>25 DEF SnapshotPool, StopperGoto, FinalizeLabels
<1>26. CASE VisitConnection
    BY <1>26 DEF VisitConnection, StopperGoto, FinalizeLabels
<1>27. CASE LoadTransport
    BY <1>27 DEF LoadTransport, StopperGoto, FinalizeLabels
<1>28. CASE CloseConnection
    BY <1>28 DEF CloseConnection, StopperGoto, FinalizeLabels
<1>29. CASE FinalizeConnection
    <2>1. stopper \in FinalizeLabels
        BY <1>29 DEF FinalizeConnection
    <2>2. /\ Follow(stopper, stopping, FALSE) \in
                (FinalizeLabels \ {"checkCurrent", "dispatchError"}) \cup {"done"}
          /\ stopper = "checkCurrent" /\ stopping = NoSocket =>
                Follow(stopper, stopping, FALSE) = "done"
        BY <2>1, FollowIs
    <2> QED
        BY <1>29, <2>1, <2>2 DEF FinalizeLabels, FinalizeConnection, StopperGoto,
           FinalizeTransportClose, FinalizeFields
<1>30. CASE ResetListeners
    BY <1>30 DEF ResetListeners, StopperGoto, FinalizeLabels
<1>31. CASE ConnectCallback
    BY <1>31 DEF ConnectCallback, FacadeRests
<1>32. ASSUME NEW d \in Drainers, Drain(d)
       PROVE  FacadeTypes'
    BY <1>32 DEF Drain, FacadeRests
<1>33. CASE UNCHANGED vars
    BY <1>33 DEF vars
<1> QED
    BY <1>1, <1>2, <1>3, <1>4, <1>5, <1>6, <1>7, <1>8, <1>9, <1>10, <1>11, <1>12, <1>13,
       <1>14, <1>15, <1>16, <1>17, <1>18, <1>19, <1>20, <1>21, <1>22, <1>23, <1>24,
       <1>25, <1>26, <1>27, <1>28, <1>29, <1>30, <1>31, <1>32, <1>33
    DEF Next, CallerStep, ReadLoopStep, ShutdownStep

(* Every step keeps the dial exclusive. *)
LEMMA DialStep ==
    ASSUME FacadeTypes, DialExclusive, [Next]_vars
    PROVE  DialExclusive'
<1> USE ProcessesAssumption DEF FacadeTypes, DialExclusive, Dialing, CallerLabels,
        OpenLabels, fields, sockets, labels, usage
<1>1. ASSUME NEW c \in Callers, CallConnect(c) \/ CallReconnect(c)
                                \/ BeginClientDial(c) \/ CloseOld(c)
                                \/ ReplaceConnectReady(c)
      PROVE  DialExclusive'
    BY <1>1 DEF CallConnect, Call, Goto, CallReconnect, BeginClientDial, OnlyState,
       CloseOld, ReplaceConnectReady, Queue!ReplaceReady
<1>2. ASSUME NEW c \in Callers, DialFails(c) \/ DialSucceeds(c) \/ OpenSeen(c)
                                \/ OpenTimesOut(c) \/ ReturnError(c)
      PROVE  DialExclusive'
    BY <1>2 DEF DialFails, Goto, DialSucceeds, Fresh, OpenSeen, OnlyState, OpenTimesOut,
       ReturnError
<1>3. ASSUME NEW c \in Callers, Close(c)
      PROVE  DialExclusive'
    BY <1>3 DEF Close, Goto
<1>4. ASSUME NEW s \in Sockets, StoreTransport(s) \/ SetAlive(s) \/ SetConnected(s)
                                \/ StartHeartbeat(s) \/ EnterPool(s)
      PROVE  DialExclusive'
    BY <1>4 DEF StoreTransport, ReadLoop, SetAlive, SetConnected, StartHeartbeat,
       Heartbeat!StartClientHeartbeat, EnterPool
<1>5. ASSUME NEW s \in Sockets, CloseOpened(s) \/ CloseConnectReady(s)
                                \/ DispatchConnect(s) \/ OnMessage(s) \/ ReadEnds(s)
      PROVE  DialExclusive'
    BY <1>5 DEF CloseOpened, ReadLoop, CloseConnectReady, Queue!CloseReady,
       DispatchConnect, OnMessage, ReadEnds
<1>6. ASSUME NEW s \in Sockets, OnClose(s)
      PROVE  DialExclusive'
    <2>1. Follow(reader[s], s, TRUE) \in FinalizeLabels \cup {"done"}
        BY <1>6, FollowIs DEF OnClose
    <2>2. Dialing' = Dialing
        BY <1>6, <2>1 DEF OnClose, ReadLoop, FinalizeLabels
    <2>3. clientState' = "connecting" <=> clientState = "connecting"
        BY <1>6 DEF OnClose, FinalizeTransportClose, FinalizeFields
    <2> QED
        BY <1>6, <2>2, <2>3 DEF OnClose, ReadLoop
<1>7. ASSUME NEW s \in Sockets, HeartbeatEnds(s)
      PROVE  DialExclusive'
    BY <1>7 DEF HeartbeatEnds, Heartbeat!HeartbeatReturns, FacadeRests
<1>8. CASE BeginShutdown \/ SnapshotPool \/ VisitConnection \/ LoadTransport
           \/ CloseConnection
    BY <1>8 DEF BeginShutdown, StopperGoto, SnapshotPool, VisitConnection, LoadTransport,
       CloseConnection
<1>9. CASE FinalizeConnection
    <2>1. stopper \in FinalizeLabels
        BY <1>9 DEF FinalizeConnection
    <2>2. Dialing' = Dialing
        BY <1>9 DEF FinalizeConnection, StopperGoto
    <2>3. clientState' = "connecting" <=> clientState = "connecting"
        BY <1>9, <2>1 DEF FinalizeConnection, FinalizeTransportClose, FinalizeFields
    <2> QED
        BY <1>9, <2>2, <2>3 DEF FinalizeConnection, StopperGoto
<1>10. CASE ResetListeners \/ ConnectCallback
    BY <1>10 DEF ResetListeners, StopperGoto, ConnectCallback, FacadeRests
<1>11. ASSUME NEW d \in Drainers, Drain(d)
       PROVE  DialExclusive'
    BY <1>11 DEF Drain, FacadeRests
<1>12. CASE UNCHANGED vars
    BY <1>12 DEF vars
<1> QED
    BY <1>1, <1>2, <1>3, <1>4, <1>5, <1>6, <1>7, <1>8, <1>9, <1>10, <1>11, <1>12
    DEF Next, CallerStep, ReadLoopStep, ShutdownStep

(* Every step of the facade is a step of the heartbeat or leaves it alone: a started
   heartbeat is not started again. *)
LEMMA HeartbeatStep ==
    ASSUME FacadeTypes, HeartbeatInv, StartsOnce, [Next]_vars
    PROVE  StartsOnce' /\ [Heartbeat!Next]_(Heartbeat!vars)
<1> USE ProcessesAssumption DEF FacadeTypes, HeartbeatInv, Heartbeat!TypeOK,
        Heartbeat!NoDoubleClose, Heartbeat!OneUntoldHeartbeat, StartsOnce, StartLabels,
        OpenLabels, labels, heartbeatVars, Heartbeat!vars
<1>1. ASSUME NEW c \in Callers, CallConnect(c) \/ CallReconnect(c)
                                \/ BeginClientDial(c) \/ CloseOld(c)
                                \/ ReplaceConnectReady(c)
      PROVE  StartsOnce' /\ [Heartbeat!Next]_(Heartbeat!vars)
    BY <1>1 DEF CallConnect, Call, Goto, CallReconnect, BeginClientDial, OnlyState,
       CloseOld, ReplaceConnectReady, Queue!ReplaceReady
<1>2. ASSUME NEW c \in Callers, DialFails(c) \/ DialSucceeds(c) \/ OpenSeen(c)
                                \/ OpenTimesOut(c) \/ ReturnError(c)
      PROVE  StartsOnce' /\ [Heartbeat!Next]_(Heartbeat!vars)
    BY <1>2 DEF DialFails, Goto, DialSucceeds, Fresh, OpenSeen, OnlyState, OpenTimesOut,
       ReturnError
<1>3. ASSUME NEW c \in Callers, Close(c)
      PROVE  StartsOnce' /\ [Heartbeat!Next]_(Heartbeat!vars)
    BY <1>3 DEF Close, Goto
<1>4. ASSUME NEW s \in Sockets, StoreTransport(s) \/ SetAlive(s) \/ SetConnected(s)
                                \/ EnterPool(s) \/ CloseOpened(s)
      PROVE  StartsOnce' /\ [Heartbeat!Next]_(Heartbeat!vars)
    BY <1>4 DEF StoreTransport, ReadLoop, SetAlive, SetConnected, EnterPool, CloseOpened
<1>5. ASSUME NEW s \in Sockets, StartHeartbeat(s)
      PROVE  StartsOnce' /\ [Heartbeat!Next]_(Heartbeat!vars)
    BY <1>5 DEF StartHeartbeat, Heartbeat!StartClientHeartbeat, ReadLoop, Heartbeat!Next
<1>6. ASSUME NEW s \in Sockets, CloseConnectReady(s) \/ DispatchConnect(s)
                                \/ OnMessage(s) \/ ReadEnds(s)
      PROVE  StartsOnce' /\ [Heartbeat!Next]_(Heartbeat!vars)
    BY <1>6 DEF CloseConnectReady, Queue!CloseReady, ReadLoop, DispatchConnect,
       OnMessage, ReadEnds
<1>7. ASSUME NEW s \in Sockets, OnClose(s)
      PROVE  StartsOnce' /\ [Heartbeat!Next]_(Heartbeat!vars)
    <2>1. Follow(reader[s], s, TRUE) \notin StartLabels
        BY <1>7, FollowIs DEF OnClose, FinalizeLabels
    <2>2. UNCHANGED started => StartsOnce'
        BY <1>7, <2>1 DEF OnClose, ReadLoop
    <2>3. CASE UNCHANGED heartbeatVars
        BY <2>2, <2>3
    <2>4. CASE Heartbeat!StopClientHeartbeat(s) /\ heartbeatConn = s
        BY <2>2, <2>4 DEF Heartbeat!StopClientHeartbeat, Heartbeat!Next
    <2> QED
        BY <1>7, <2>3, <2>4 DEF OnClose, FinalizeTransportClose,
           Heartbeat!StopClientHeartbeat
<1>8. ASSUME NEW s \in Sockets, HeartbeatEnds(s)
      PROVE  StartsOnce' /\ [Heartbeat!Next]_(Heartbeat!vars)
    BY <1>8 DEF HeartbeatEnds, Heartbeat!HeartbeatReturns, FacadeRests, Heartbeat!Next
<1>9. CASE BeginShutdown \/ SnapshotPool \/ VisitConnection \/ LoadTransport
           \/ CloseConnection
    BY <1>9 DEF BeginShutdown, StopperGoto, SnapshotPool, VisitConnection, LoadTransport,
       CloseConnection
<1>10. CASE FinalizeConnection
    <2>1. CASE stopper = "stopHeartbeat"
        BY <1>10, <2>1 DEF FinalizeConnection, StopperGoto, FinalizeTransportClose,
           FinalizeFields, Heartbeat!StopClientHeartbeat, Heartbeat!Next
    <2>2. CASE stopper # "stopHeartbeat"
        BY <1>10, <2>2 DEF FinalizeConnection, StopperGoto, FinalizeTransportClose,
           FinalizeFields
    <2> QED
        BY <2>1, <2>2
<1>11. CASE ResetListeners \/ ConnectCallback
    BY <1>11 DEF ResetListeners, StopperGoto, ConnectCallback, FacadeRests
<1>12. ASSUME NEW d \in Drainers, Drain(d)
       PROVE  StartsOnce' /\ [Heartbeat!Next]_(Heartbeat!vars)
    BY <1>12 DEF Drain, FacadeRests
<1>13. CASE UNCHANGED vars
    BY <1>13 DEF vars
<1> QED
    BY <1>1, <1>2, <1>3, <1>4, <1>5, <1>6, <1>7, <1>8, <1>9, <1>10, <1>11, <1>12, <1>13
    DEF Next, CallerStep, ReadLoopStep, ShutdownStep

(* A step that closes a stop channel starts another heartbeat or is the end of the
   transport the channel belongs to. *)
LEMMA HeartbeatKeeps ==
    ASSUME FacadeTypes, HeartbeatInv, StartsOnce, [Next]_vars
    PROVE  \A s \in stopped' \ stopped : StopsItsOwn(s) \/ started' # started
<1> USE ProcessesAssumption DEF FacadeTypes, HeartbeatInv, Heartbeat!TypeOK, labels,
        heartbeatVars
<1>1. ASSUME UNCHANGED stopped
      PROVE  \A s \in stopped' \ stopped : StopsItsOwn(s) \/ started' # started
    BY <1>1
<1>2. ASSUME NEW c \in Callers, \/ CallConnect(c) \/ CallReconnect(c) \/ Close(c)
                                \/ BeginClientDial(c) \/ CloseOld(c)
                                \/ ReplaceConnectReady(c)
      PROVE  UNCHANGED stopped
    BY <1>2 DEF CallConnect, Call, CallReconnect, Close, BeginClientDial, OnlyState,
       CloseOld, ReplaceConnectReady
<1>3. ASSUME NEW c \in Callers, DialFails(c) \/ DialSucceeds(c) \/ OpenSeen(c)
                                \/ OpenTimesOut(c) \/ ReturnError(c)
      PROVE  UNCHANGED stopped
    BY <1>3 DEF DialFails, DialSucceeds, OpenSeen, OnlyState, OpenTimesOut, ReturnError
<1>4. ASSUME NEW s \in Sockets, \/ StoreTransport(s) \/ SetAlive(s) \/ SetConnected(s)
                                \/ EnterPool(s) \/ CloseOpened(s) \/ CloseConnectReady(s)
                                \/ DispatchConnect(s) \/ OnMessage(s) \/ ReadEnds(s)
      PROVE  UNCHANGED stopped
    BY <1>4 DEF StoreTransport, SetAlive, SetConnected, EnterPool, CloseOpened,
       CloseConnectReady, DispatchConnect, OnMessage, ReadEnds
<1>5. ASSUME NEW s \in Sockets, StartHeartbeat(s)
      PROVE  \A t \in stopped' \ stopped : StopsItsOwn(t) \/ started' # started
    <2>1. s \notin started
        BY <1>5 DEF StartHeartbeat, ReadLoop, StartsOnce, StartLabels
    <2> QED
        BY <1>5, <2>1 DEF StartHeartbeat, Heartbeat!StartClientHeartbeat
<1>6. ASSUME NEW s \in Sockets, OnClose(s)
      PROVE  \A t \in stopped' \ stopped : StopsItsOwn(t) \/ started' # started
    <2>1. reader'[s] = Follow(reader[s], s, TRUE)
        BY <1>6 DEF OnClose, ReadLoop
    <2>2. CASE reader[s] = "stopHeartbeat"
        <3>1. StopsItsOwn(s)
            BY <2>1, <2>2 DEF Follow, FinalizeOrder, StopsItsOwn
        <3>2. stopped' \ stopped \subseteq {s}
            BY <1>6, <2>2 DEF OnClose, FinalizeTransportClose,
               Heartbeat!StopClientHeartbeat, Heartbeat!vars
        <3> QED
            BY <3>1, <3>2
    <2>3. CASE reader[s] # "stopHeartbeat"
        BY <1>6, <2>3 DEF OnClose, FinalizeTransportClose
    <2> QED
        BY <2>2, <2>3
<1>7. CASE FinalizeConnection
    <2>1. CASE stopper = "stopHeartbeat"
        <3>1. stopper' # stopper /\ stopping # NoSocket
            BY <1>7, <2>1 DEF FinalizeConnection, StopperGoto, Follow, FinalizeOrder,
               FinalizeLabels
        <3> QED
            BY <1>7, <2>1, <3>1 DEF FinalizeConnection, FinalizeTransportClose,
               StopsItsOwn, Heartbeat!StopClientHeartbeat, Heartbeat!vars
    <2>2. CASE stopper # "stopHeartbeat"
        BY <1>7, <2>2 DEF FinalizeConnection, FinalizeTransportClose
    <2> QED
        BY <2>1, <2>2
<1>8. ASSUME \/ BeginShutdown \/ SnapshotPool \/ VisitConnection \/ LoadTransport
             \/ CloseConnection \/ ResetListeners \/ ConnectCallback
             \/ \E d \in Drainers : Drain(d)
             \/ \E s \in Sockets : HeartbeatEnds(s)
             \/ UNCHANGED vars
      PROVE  UNCHANGED stopped
    BY <1>8 DEF BeginShutdown, SnapshotPool, VisitConnection, LoadTransport,
       CloseConnection, ResetListeners, ConnectCallback, Drain, HeartbeatEnds,
       Heartbeat!HeartbeatReturns, vars
<1> QED
    BY <1>1, <1>2, <1>3, <1>4, <1>5, <1>6, <1>7, <1>8
    DEF Next, CallerStep, ReadLoopStep, ShutdownStep

-----------------------------------------------------------------------------
(***************************************************************************)
(* The bounds of the queue: what is still owed is counted.                 *)
(***************************************************************************)
(* A function that changes at one place moves at most that place in or out of the
   counted set. *)
LEMMA CountMoves ==
    ASSUME NEW S, IsFiniteSet(S), NEW x \in S, NEW L, NEW f, NEW g,
           \A y \in S \ {x} : g[y] = f[y]
    PROVE  /\ Cardinality(Where(S, f, L)) \in Nat
           /\ Cardinality(Where(S, g, L)) \in Nat
           /\ Cardinality(Where(S, g, L)) + Amount(f[x] \in L)
                = Cardinality(Where(S, f, L)) + Amount(g[x] \in L)
<1> DEFINE A == Where(S, f, L)
           B == Where(S, g, L)
<1>1. IsFiniteSet(A) /\ IsFiniteSet(B)
    BY FS_Subset DEF Where
<1>2. /\ Cardinality(A) \in Nat /\ (x \in A => Cardinality(A) # 0)
      /\ Cardinality(B) \in Nat
    BY <1>1, FS_CardinalityType, FS_EmptySet
<1>3. /\ x \in A <=> f[x] \in L
      /\ x \in B <=> g[x] \in L
    BY DEF Where
<1>4. A \ {x} = B \ {x}
    BY DEF Where
<1> HIDE DEF A, B
<1>5. CASE x \in A <=> x \in B
    <2>1. A = B
        BY <1>4, <1>5
    <2>2. Amount(f[x] \in L) = Amount(g[x] \in L) /\ Amount(f[x] \in L) \in Nat
        BY <1>3, <1>5 DEF Amount
    <2> QED
        BY <1>2, <2>1, <2>2 DEF A, B
<1>6. CASE x \in A /\ x \notin B
    <2>1. B = A \ {x}
        BY <1>4, <1>6
    <2>2. Amount(f[x] \in L) = 1 /\ Amount(g[x] \in L) = 0
        BY <1>3, <1>6 DEF Amount
    <2>3. Cardinality(B) = Cardinality(A) - 1
        BY <1>1, <1>6, <2>1, FS_RemoveElement
    <2> QED
        BY <1>2, <1>6, <2>2, <2>3 DEF A, B
<1>7. CASE x \notin A /\ x \in B
    <2>1. B = A \cup {x}
        BY <1>4, <1>7
    <2>2. Amount(f[x] \in L) = 0 /\ Amount(g[x] \in L) = 1
        BY <1>3, <1>7 DEF Amount
    <2>3. Cardinality(B) = Cardinality(A) + 1
        BY <1>1, <1>7, <2>1, FS_AddElement
    <2> QED
        BY <1>2, <2>2, <2>3 DEF A, B
<1> QED
    BY <1>5, <1>6, <1>7

(* An event that is queued counts as a message if it is one. *)

(* An event that is queued counts as a message if it is one. *)
LEMMA CountMessages ==
    ASSUME enqueued \in Seq(Queue!Event), NEW e \in Queue!Event,
           enqueued' = Append(enqueued, e)
    PROVE  /\ Cardinality(Messages) \in Nat
           /\ Len(enqueued) \in Nat
           /\ Len(enqueued)' = Len(enqueued) + 1
           /\ Cardinality(Messages)' = Cardinality(Messages)
                                         + Amount(e.kind = "message")
<1>1. /\ Len(enqueued) \in Nat
      /\ Len(enqueued)' = Len(enqueued) + 1
      /\ \A i \in 1..Len(enqueued) : enqueued'[i] = enqueued[i]
      /\ enqueued'[Len(enqueued) + 1] = e
    OBVIOUS
<1>2. IsFiniteSet(Messages) /\ Cardinality(Messages) \in Nat
    <2>1. IsFiniteSet(1..Len(enqueued)) /\ Messages \in SUBSET (1..Len(enqueued))
        BY <1>1, FS_Interval DEF Messages
    <2> QED
        BY <2>1, FS_Subset, FS_CardinalityType
<1>3. Messages' = IF e.kind = "message" THEN Messages \cup {Len(enqueued) + 1} ELSE Messages
    BY <1>1 DEF Messages
<1>4. Len(enqueued) + 1 \notin Messages
    BY <1>1 DEF Messages
<1>5. Cardinality(Messages \cup {Len(enqueued) + 1}) = Cardinality(Messages) + 1
    BY <1>2, <1>4, FS_AddElement
<1>6. CASE e.kind = "message"
    BY <1>1, <1>2, <1>3, <1>5, <1>6 DEF Amount
<1>7. CASE e.kind # "message"
    BY <1>1, <1>2, <1>3, <1>7 DEF Amount
<1> QED
    BY <1>6, <1>7

(* What is counted is a number. *)

(* What is counted is a number. *)
LEMMA CountsAre ==
    /\ Cardinality(Sockets) \in Nat
    /\ \A r, L : Cardinality(Where(Sockets, r, L)) \in Nat
    /\ \A f, L : Cardinality(Where(Callers, f, L)) \in Nat
    /\ \A b : Amount(b) \in Nat /\ Amount(b) <= 1
    /\ \A r : LoopsOwe(r) \in Nat
    /\ \A label : Weight(label) \in Nat
    /\ Amount(TRUE) = 1 /\ Amount(FALSE) = 0
<1>1. /\ \A r, L : IsFiniteSet(Where(Sockets, r, L))
      /\ \A f, L : IsFiniteSet(Where(Callers, f, L))
    BY FS_Subset, ProcessesAssumption DEF Where
<1>2. /\ Cardinality(Sockets) \in Nat
      /\ \A r, L : Cardinality(Where(Sockets, r, L)) \in Nat
      /\ \A f, L : Cardinality(Where(Callers, f, L)) \in Nat
    BY <1>1, FS_CardinalityType, ProcessesAssumption
<1>3. \A b : Amount(b) \in Nat /\ Amount(b) <= 1
    BY DEF Amount
<1>4. \A r : LoopsOwe(r) \in Nat
    BY <1>2 DEF LoopsOwe
<1>5. \A label : Weight(label) \in Nat
    BY <1>3 DEF Weight
<1> QED
    BY <1>2, <1>3, <1>4, <1>5 DEF Amount

(* A step of one read loop changes what the loops owe by the weight of its label. *)

(* A step of one read loop changes what the loops owe by the weight of its label. *)
LEMMA LoopMoves ==
    ASSUME FacadeTypes, NEW s \in Sockets, reader' = [reader EXCEPT ![s] = reader'[s]]
    PROVE  /\ LoopsOwe(reader') + Weight(reader[s]) = LoopsOwe(reader) + Weight(reader'[s])
           /\ Unopened(reader) \in Nat /\ Unopened(reader') \in Nat
           /\ (reader'[s] \in UnopenedLabels => reader[s] \in UnopenedLabels) =>
                Unopened(reader') <= Unopened(reader)
           /\ reader[s] \in UnopenedLabels /\ reader'[s] \notin UnopenedLabels =>
                Unopened(reader') + 1 <= Unopened(reader)
<1>1. \A t \in Sockets \ {s} : reader'[t] = reader[t]
    BY DEF FacadeTypes
<1>2. ASSUME NEW L
      PROVE  /\ Cardinality(Where(Sockets, reader, L)) \in Nat
             /\ Cardinality(Where(Sockets, reader', L)) \in Nat
             /\ Cardinality(Where(Sockets, reader', L)) + Amount(reader[s] \in L)
                  = Cardinality(Where(Sockets, reader, L)) + Amount(reader'[s] \in L)
    BY <1>1, CountMoves, ProcessesAssumption
<1>3. Weight(reader[s]) \in Nat /\ Weight(reader'[s]) \in Nat /\ \A b : Amount(b) \in Nat
    BY CountsAre
<1>4. LoopsOwe(reader') + Weight(reader[s]) = LoopsOwe(reader) + Weight(reader'[s])
    BY <1>2, <1>3 DEF LoopsOwe, Weight
<1>5. /\ Unopened(reader) \in Nat /\ Unopened(reader') \in Nat
      /\ Unopened(reader') + Amount(reader[s] \in UnopenedLabels)
           = Unopened(reader) + Amount(reader'[s] \in UnopenedLabels)
    BY <1>2 DEF Unopened
<1> QED
    BY <1>4, <1>5 DEF Amount

(* A caller that replaces connectReady no longer is before it. *)

(* A caller that replaces connectReady no longer is before it. *)
LEMMA CallerMoves ==
    ASSUME FacadeTypes, NEW c \in Callers, caller' = [caller EXCEPT ![c] = caller'[c]]
    PROVE  /\ Redialing(caller) \in Nat /\ Redialing(caller') \in Nat
           /\ Redialing(caller') <= Redialing(caller) + 1
           /\ (caller'[c] \in BeforeRedial => caller[c] \in BeforeRedial) =>
                Redialing(caller') <= Redialing(caller)
           /\ caller[c] \in BeforeRedial /\ caller'[c] \notin BeforeRedial =>
                Redialing(caller') + 1 <= Redialing(caller)
<1>1. \A t \in Callers \ {c} : caller'[t] = caller[t]
    BY DEF FacadeTypes
<1>2. /\ Redialing(caller) \in Nat /\ Redialing(caller') \in Nat
      /\ Redialing(caller') + Amount(caller[c] \in BeforeRedial)
           = Redialing(caller) + Amount(caller'[c] \in BeforeRedial)
    BY <1>1, CountMoves, ProcessesAssumption DEF Redialing
<1> QED
    BY <1>2 DEF Amount

(* A goroutine pays for what another owes less. *)

(* A goroutine pays for what another owes less. *)
LEMMA Balance ==
    ASSUME NEW l \in Nat, NEW m \in Nat, NEW w \in Nat, NEW v \in Nat, NEW t \in Nat,
           NEW a \in Nat, NEW b \in Nat, m + w = l + v
    PROVE  /\ v + b <= w + a => m + t + b <= l + t + a
           /\ v + b + 1 <= w + a => m + t + b + 1 <= l + t + a
    OBVIOUS

(* What is owed when a read loop has moved and alive has been taken or set. *)

(* What is owed when a read loop has moved and alive has been taken or set. *)
LEMMA LoopOwes ==
    ASSUME FacadeTypes, NEW s \in Sockets, reader' = [reader EXCEPT ![s] = reader'[s]],
           UNCHANGED stopper
    PROVE  /\ Owes(reader', stopper', alive') \in Nat
           /\ \/ Weight(reader'[s]) <= Weight(reader[s]) /\ (UNCHANGED alive \/ ~alive')
              \/ Weight(reader'[s]) + 1 <= Weight(reader[s])
              \/ Weight(reader'[s]) <= Weight(reader[s]) + 1 /\ alive /\ ~alive'
              => Owes(reader', stopper', alive') <= Owes(reader, stopper, alive)
           /\ Weight(reader'[s]) + 1 <= Weight(reader[s]) /\ UNCHANGED alive =>
                Owes(reader', stopper', alive') + 1 <= Owes(reader, stopper, alive)
<1>1. /\ LoopsOwe(reader) \in Nat /\ LoopsOwe(reader') \in Nat
      /\ Weight(reader[s]) \in Nat /\ Weight(reader'[s]) \in Nat
      /\ Amount(stopper \in TakenLabels) \in Nat
      /\ Amount(alive) \in Nat /\ Amount(alive') \in Nat
      /\ Amount(alive) <= 1 /\ Amount(alive') <= 1
    BY CountsAre
<1>2. /\ alive => Amount(alive) = 1
      /\ ~alive' => Amount(alive') = 0
    BY DEF Amount
<1>3. LoopsOwe(reader') + Weight(reader[s]) = LoopsOwe(reader) + Weight(reader'[s])
    BY LoopMoves
<1>4. /\ Owes(reader', stopper', alive') \in Nat
      /\ Weight(reader'[s]) + Amount(alive') <= Weight(reader[s]) + Amount(alive) =>
           Owes(reader', stopper', alive') <= Owes(reader, stopper, alive)
      /\ Weight(reader'[s]) + Amount(alive') + 1 <= Weight(reader[s]) + Amount(alive) =>
           Owes(reader', stopper', alive') + 1 <= Owes(reader, stopper, alive)
    BY <1>1, <1>3, Balance DEF Owes
<1> QED
    BY <1>1, <1>2, <1>4

(* What is owed when Shutdown has moved. *)

(* What is owed when Shutdown has moved. *)
LEMMA StopperOwes ==
    ASSUME UNCHANGED reader
    PROVE  /\ Owes(reader', stopper', alive') \in Nat
           /\ \/ (stopper' \in TakenLabels => stopper \in TakenLabels) /\ UNCHANGED alive
              \/ stopper' \notin TakenLabels /\ ~alive'
              \/ alive /\ ~alive'
              => Owes(reader', stopper', alive') <= Owes(reader, stopper, alive)
           /\ stopper' \notin TakenLabels /\ stopper \in TakenLabels /\ UNCHANGED alive =>
                Owes(reader', stopper', alive') + 1 <= Owes(reader, stopper, alive)
<1>1. /\ LoopsOwe(reader) \in Nat
      /\ Amount(alive) \in Nat /\ Amount(alive') \in Nat
    BY CountsAre
<1> QED
    BY <1>1 DEF Owes, Amount

(* An account that was within the bounds stays there when what is owed falls by what
   is queued, and its events are below the bound before. *)

(* An account that was within the bounds stays there when what is owed falls by what
   is queued, and its events are below the bound before. *)
LEMMA Spend ==
    ASSUME NEW m, NEW l, NEW o, NEW n \in Nat, Within(m, l, o, n),
           NEW m2 \in Nat, NEW l2 \in Nat, NEW o2 \in Nat,
           \/ l2 = l /\ m2 = m /\ o2 <= o
           \/ l2 = l + 1 /\ m2 = m /\ o2 + 1 <= o
           \/ l2 = l + 1 /\ m2 = m + 1 /\ o2 <= o /\ m < MaxMessages
    PROVE  /\ Within(m2, l2, o2, n)
           /\ l2 = l + 1 => l < MaxMessages + 2 * n
<1>1. m \in Nat /\ m <= MaxMessages /\ l \in Nat /\ o \in Nat /\ l + o <= m + 2 * n
    BY DEF Within
<1>2. l2 + o2 <= m2 + 2 * n /\ (l2 = l + 1 => l < MaxMessages + 2 * n)
    <2> DEFINE k == 2 * n
    <2>1. k \in Nat
        OBVIOUS
    <2>2. l + o <= m + k
        BY <1>1
    <2> HIDE DEF k
    <2>3. l2 + o2 <= m2 + k /\ (l2 = l + 1 => l < MaxMessages + k)
        BY <1>1, <2>1, <2>2, ProcessesAssumption
    <2> QED
        BY <2>3 DEF k
<1>3. m2 <= MaxMessages
    BY <1>1, ProcessesAssumption
<1> QED
    BY <1>2, <1>3, ProcessesAssumption DEF Within

(* A connect callback is started by an OnOpen that is over. *)
LEMMA ConnectsStep ==
    ASSUME FacadeTypes, ConnectsLeft, [Next]_vars
    PROVE  ConnectsLeft'
<1> USE ProcessesAssumption DEF ConnectsLeft, OpenLabels, FinalizeLabels, labels,
        usage, fields, Queue!DispatchEvent, Queue!EnqueueEvent,
        Queue!InvokeInGoroutine, Queue!ShouldQueueEvent, Queue!QueuedKinds,
        Queue!producerVars, Queue!CloseReady, Queue!ReplaceReady, producerVars,
        queueVars, gateVars, drainerVars
<1>1. ASSUME NEW c \in Callers, CallConnect(c) \/ CallReconnect(c)
                                \/ BeginClientDial(c) \/ CloseOld(c)
                                \/ ReplaceConnectReady(c)
      PROVE  ConnectsLeft'
    BY <1>1 DEF CallConnect, Call, Goto, CallReconnect, BeginClientDial, OnlyState,
       CloseOld, ReplaceConnectReady, Queue!ReplaceReady
<1>2. ASSUME NEW c \in Callers, DialFails(c) \/ OpenSeen(c) \/ OpenTimesOut(c)
                                \/ ReturnError(c) \/ Close(c)
      PROVE  ConnectsLeft'
    BY <1>2 DEF DialFails, Goto, OpenSeen, OnlyState, OpenTimesOut, ReturnError, Close
<1>3. ASSUME NEW c \in Callers, DialSucceeds(c)
      PROVE  ConnectsLeft'
    <2>1. /\ NewSocket \in Sockets
          /\ reader' = [reader EXCEPT ![NewSocket] = reader'[NewSocket]]
          /\ reader[NewSocket] \in UnopenedLabels
          /\ UNCHANGED connecting
        BY <1>3 DEF DialSucceeds, Goto, Fresh, FacadeTypes, UnopenedLabels
    <2> QED
        BY <2>1, LoopMoves, CountsAre
<1>4. ASSUME NEW s \in Sockets, StoreTransport(s) \/ SetAlive(s) \/ SetConnected(s)
                                \/ StartHeartbeat(s) \/ EnterPool(s)
                                \/ CloseOpened(s) \/ CloseConnectReady(s)
      PROVE  ConnectsLeft'
    <2>1. /\ s \in Sockets /\ reader' = [reader EXCEPT ![s] = reader'[s]]
          /\ reader[s] \in UnopenedLabels
          /\ UNCHANGED connecting
        BY <1>4 DEF StoreTransport, ReadLoop, SetAlive, SetConnected, StartHeartbeat,
           Heartbeat!StartClientHeartbeat, EnterPool, CloseOpened, CloseConnectReady,
           Queue!CloseReady, FacadeTypes, UnopenedLabels
    <2> QED
        BY <2>1, LoopMoves, CountsAre
<1>5. ASSUME NEW s \in Sockets, DispatchConnect(s)
      PROVE  ConnectsLeft'
    <2>1. /\ s \in Sockets /\ reader' = [reader EXCEPT ![s] = reader'[s]]
          /\ reader[s] \in UnopenedLabels /\ reader'[s] \notin UnopenedLabels
          /\ connecting' = connecting + 1
        BY <1>5 DEF DispatchConnect, ReadLoop, FacadeTypes, UnopenedLabels
    <2> QED
        BY <2>1, LoopMoves, CountsAre
<1>6. ASSUME NEW s \in Sockets, OnMessage(s) \/ ReadEnds(s)
      PROVE  ConnectsLeft'
    <2>1. /\ s \in Sockets /\ reader' = [reader EXCEPT ![s] = reader'[s]]
          /\ reader'[s] \notin UnopenedLabels
          /\ UNCHANGED connecting
        BY <1>6 DEF OnMessage, ReadLoop, ReadEnds, FacadeTypes, UnopenedLabels
    <2> QED
        BY <2>1, LoopMoves, CountsAre
<1>7. ASSUME NEW s \in Sockets, OnClose(s)
      PROVE  ConnectsLeft'
    <2>1. s \in Sockets /\ reader' = [reader EXCEPT ![s] = reader'[s]]
        BY <1>7 DEF OnClose, ReadLoop, FinalizeTransportClose, FinalizeFields, FacadeTypes
    <2>2. reader'[s] \in FinalizeLabels \cup {"done"}
        BY <1>7, FollowIs DEF OnClose, ReadLoop, FacadeTypes
    <2>3. reader'[s] \notin UnopenedLabels
        BY <2>2 DEF UnopenedLabels
    <2>4. UNCHANGED connecting
        BY <1>7 DEF OnClose, ReadLoop, FinalizeTransportClose, FinalizeFields,
           FinalizeDispatch
    <2>5. Unopened(reader') <= Unopened(reader)
        BY <2>1, <2>3, LoopMoves
    <2>6. Unopened(reader) \in Nat /\ Unopened(reader') \in Nat
        BY CountsAre DEF Unopened
    <2> QED
        BY <2>4, <2>5, <2>6, CountsAre
<1>8. ASSUME NEW s \in Sockets, HeartbeatEnds(s)
      PROVE  ConnectsLeft'
    BY <1>8 DEF HeartbeatEnds, Heartbeat!HeartbeatReturns, FacadeRests
<1>9. CASE BeginShutdown \/ SnapshotPool \/ VisitConnection \/ LoadTransport
           \/ CloseConnection
    BY <1>9 DEF BeginShutdown, StopperGoto, SnapshotPool, VisitConnection, LoadTransport,
       CloseConnection
<1>10. CASE FinalizeConnection
    BY <1>10 DEF FinalizeConnection, StopperGoto, FinalizeTransportClose, FinalizeFields,
       FinalizeDispatch
<1>11. CASE ResetListeners
    BY <1>11 DEF ResetListeners, StopperGoto
<1>12. CASE ConnectCallback
    <2>1. /\ UNCHANGED reader
          /\ connecting' = connecting - 1 /\ connecting > 0
        BY <1>12 DEF ConnectCallback, FacadeRests, Queue!ConnectCallbackReturns
    <2>2. Unopened(reader) \in Nat
        BY <2>1, CountsAre DEF Unopened
    <2> QED
        BY <2>1, <2>2, CountsAre
<1>13. ASSUME NEW d \in Drainers, Drain(d)
       PROVE  ConnectsLeft'
    BY <1>13 DEF Drain, FacadeRests, Queue!DrainerStep, Queue!ReadReady, Queue!PassReady,
       Queue!TakeEvent, Queue!StopDraining, Queue!CallbacksReturn
<1>14. CASE UNCHANGED vars
    BY <1>14 DEF vars
<1> QED
    BY <1>1, <1>2, <1>3, <1>4, <1>5, <1>6, <1>7, <1>8, <1>9, <1>10, <1>11, <1>12, <1>13,
       <1>14
    DEF Next, CallerStep, ReadLoopStep, ShutdownStep

(* A channel is made by a Reconnect that goes on to dial. *)
LEMMA ReadiesStep ==
    ASSUME FacadeTypes, ReadiesLeft, [Next]_vars
    PROVE  ReadiesLeft'
<1> USE ProcessesAssumption DEF ReadiesLeft, labels, usage, fields, gateVars, queueVars
<1>1. ASSUME NEW c \in Callers, CallConnect(c) \/ BeginClientDial(c) \/ CloseOld(c)
                                \/ DialFails(c) \/ DialSucceeds(c) \/ OpenSeen(c)
                                \/ OpenTimesOut(c) \/ ReturnError(c) \/ Close(c)
      PROVE  ReadiesLeft'
    <2>1. /\ caller' = [caller EXCEPT ![c] = caller'[c]]
          /\ connectReady' = connectReady /\ calls' \in {calls, calls + 1} /\ calls \in Nat
          /\ caller'[c] \in BeforeRedial => caller[c] \in BeforeRedial
        BY <1>1 DEF CallConnect, Call, Goto, BeginClientDial, OnlyState, CloseOld,
           DialFails, DialSucceeds, Fresh, OpenSeen, OpenTimesOut, ReturnError, Close,
           BeforeRedial, FacadeTypes
    <2> QED
        BY <2>1, CallerMoves, CountsAre
<1>2. ASSUME NEW c \in Callers, CallReconnect(c)
      PROVE  ReadiesLeft'
    <2>1. /\ caller' = [caller EXCEPT ![c] = caller'[c]]
          /\ connectReady' = connectReady /\ calls' = calls + 1 /\ calls \in Nat
        BY <1>2 DEF CallReconnect, Call, Goto, BeforeRedial, FacadeTypes
    <2> QED
        BY <2>1, CallerMoves, CountsAre
<1>3. ASSUME NEW c \in Callers, ReplaceConnectReady(c)
      PROVE  ReadiesLeft'
    <2>1. /\ caller' = [caller EXCEPT ![c] = caller'[c]]
          /\ connectReady' = connectReady + 1 /\ calls' = calls /\ calls \in Nat
          /\ caller[c] \in BeforeRedial /\ caller'[c] \notin BeforeRedial
        BY <1>3 DEF ReplaceConnectReady, Queue!ReplaceReady, Goto, BeforeRedial,
           FacadeTypes
    <2> QED
        BY <2>1, CallerMoves, CountsAre
<1>4. ASSUME NEW s \in Sockets, StoreTransport(s) \/ SetAlive(s) \/ SetConnected(s)
                                \/ StartHeartbeat(s) \/ EnterPool(s)
      PROVE  ReadiesLeft'
    BY <1>4 DEF StoreTransport, ReadLoop, SetAlive, SetConnected, StartHeartbeat,
       Heartbeat!StartClientHeartbeat, EnterPool
<1>5. ASSUME NEW s \in Sockets, CloseOpened(s) \/ CloseConnectReady(s)
                                \/ DispatchConnect(s) \/ OnMessage(s) \/ ReadEnds(s)
      PROVE  ReadiesLeft'
    BY <1>5 DEF CloseOpened, ReadLoop, CloseConnectReady, Queue!CloseReady,
       DispatchConnect, OnMessage, ReadEnds
<1>6. ASSUME NEW s \in Sockets, OnClose(s)
      PROVE  ReadiesLeft'
    BY <1>6 DEF OnClose, ReadLoop, FinalizeTransportClose, FinalizeFields,
       FinalizeDispatch
<1>7. ASSUME NEW s \in Sockets, HeartbeatEnds(s)
      PROVE  ReadiesLeft'
    BY <1>7 DEF HeartbeatEnds, Heartbeat!HeartbeatReturns, FacadeRests
<1>8. CASE BeginShutdown \/ SnapshotPool \/ VisitConnection \/ LoadTransport
           \/ CloseConnection
    BY <1>8 DEF BeginShutdown, StopperGoto, SnapshotPool, VisitConnection, LoadTransport,
       CloseConnection
<1>9. CASE FinalizeConnection
    BY <1>9 DEF FinalizeConnection, StopperGoto, FinalizeTransportClose, FinalizeFields,
       FinalizeDispatch
<1>10. CASE ResetListeners \/ ConnectCallback
    BY <1>10 DEF ResetListeners, StopperGoto, ConnectCallback, FacadeRests
<1>11. ASSUME NEW d \in Drainers, Drain(d)
       PROVE  ReadiesLeft'
    BY <1>11 DEF Drain, FacadeRests
<1>12. CASE UNCHANGED vars
    BY <1>12 DEF vars
<1> QED
    BY <1>1, <1>2, <1>3, <1>4, <1>5, <1>6, <1>7, <1>8, <1>9, <1>10, <1>11, <1>12
    DEF Next, CallerStep, ReadLoopStep, ShutdownStep

(* What a step queues has been paid for. *)
LEMMA EventsMoveStep ==
    ASSUME FacadeTypes, [Next]_vars
    PROVE  EventsMove
<1> USE DEF EventsMove, labels, usage, fields, queueVars, producerVars
<1>1. ASSUME NEW c \in Callers, CallConnect(c) \/ CallReconnect(c)
                                \/ BeginClientDial(c) \/ CloseOld(c)
                                \/ ReplaceConnectReady(c) \/ DialFails(c)
                                \/ OpenSeen(c) \/ OpenTimesOut(c) \/ ReturnError(c)
                                \/ Close(c)
      PROVE  EventsMove
    <2>1. /\ UNCHANGED <<reader, alive, enqueued>>
          /\ stopper' \in TakenLabels <=> stopper \in TakenLabels
        BY <1>1 DEF CallConnect, Call, Goto, CallReconnect, BeginClientDial, OnlyState,
           CloseOld, ReplaceConnectReady, Queue!ReplaceReady, DialFails, OpenSeen,
           OpenTimesOut, ReturnError, Close, TakenLabels, FinalizeLabels, producerVars,
           Queue!producerVars
    <2>2. /\ Owes(reader', stopper', alive') = Owes(reader, stopper, alive)
          /\ Owes(reader, stopper, alive) \in Nat
        BY <2>1, CountsAre DEF Owes, Amount
    <2> QED
        BY <2>1, <2>2
<1>2. ASSUME NEW c \in Callers, DialSucceeds(c)
      PROVE  EventsMove
    <2>1. /\ NewSocket \in Sockets
          /\ reader' = [reader EXCEPT ![NewSocket] = reader'[NewSocket]]
          /\ UNCHANGED <<stopper, enqueued, alive>>
        BY <1>2 DEF DialSucceeds, Goto, Fresh, FacadeTypes, Queue!DispatchEvent,
           Queue!EnqueueEvent, Queue!InvokeInGoroutine, Queue!ShouldQueueEvent,
           Queue!QueuedKinds, Queue!producerVars, producerVars
    <2>2. Weight(reader'[NewSocket]) <= Weight(reader[NewSocket])
        BY <1>2 DEF DialSucceeds, Fresh, FacadeTypes, Weight, ComingLabels, TakenLabels,
           UnfinishedLabels, OpenLabels, FinalizeLabels, Amount
    <2> QED
        BY <2>1, <2>2, LoopOwes
<1>3. ASSUME NEW s \in Sockets, StoreTransport(s) \/ SetConnected(s)
                                \/ StartHeartbeat(s) \/ EnterPool(s)
                                \/ CloseOpened(s) \/ CloseConnectReady(s)
                                \/ DispatchConnect(s) \/ ReadEnds(s)
      PROVE  EventsMove
    <2>1. /\ s \in Sockets /\ reader' = [reader EXCEPT ![s] = reader'[s]]
          /\ UNCHANGED <<stopper, enqueued, alive>>
        BY <1>3 DEF StoreTransport, ReadLoop, SetConnected, StartHeartbeat,
           Heartbeat!StartClientHeartbeat, EnterPool, CloseOpened, CloseConnectReady,
           Queue!CloseReady, DispatchConnect, ReadEnds, FacadeTypes, Queue!DispatchEvent,
           Queue!EnqueueEvent, Queue!InvokeInGoroutine, Queue!ShouldQueueEvent,
           Queue!QueuedKinds, Queue!producerVars, producerVars
    <2>2. Weight(reader'[s]) <= Weight(reader[s])
        BY <1>3 DEF ReadLoop, StoreTransport, SetConnected, StartHeartbeat, EnterPool,
           CloseOpened, CloseConnectReady, DispatchConnect, ReadEnds, FacadeTypes,
           Weight, ComingLabels, TakenLabels, UnfinishedLabels, OpenLabels,
           FinalizeLabels, Amount
    <2> QED
        BY <2>1, <2>2, LoopOwes
<1>4. ASSUME NEW s \in Sockets, SetAlive(s)
      PROVE  EventsMove
    <2>1. /\ s \in Sockets /\ reader' = [reader EXCEPT ![s] = reader'[s]]
          /\ UNCHANGED <<stopper, enqueued>>
        BY <1>4 DEF SetAlive, ReadLoop, FacadeTypes, Queue!DispatchEvent,
           Queue!EnqueueEvent, Queue!InvokeInGoroutine, Queue!ShouldQueueEvent,
           Queue!QueuedKinds, Queue!producerVars, producerVars
    <2>2. Weight(reader'[s]) + 1 <= Weight(reader[s])
        BY <1>4 DEF ReadLoop, SetAlive, FacadeTypes, Weight, ComingLabels, TakenLabels,
           UnfinishedLabels, OpenLabels, FinalizeLabels, Amount
    <2> QED
        BY <2>1, <2>2, LoopOwes
<1>5. ASSUME NEW s \in Sockets, OnMessage(s)
      PROVE  EventsMove
    <2> DEFINE e == [kind |-> "message", tag |-> s]
    <2>1. UNCHANGED <<reader, alive, stopper>>
        BY <1>5 DEF OnMessage, ReadLoop, FacadeTypes
    <2>2. /\ e \in Queue!Event /\ e.kind = "message"
          /\ enqueued' = Append(enqueued, e)
          /\ Cardinality(Messages) < MaxMessages
        BY <1>5 DEF OnMessage, Messages, Queue!EnqueueEvent, Queue!Event, Kinds
    <2> HIDE DEF e
    <2>3. /\ Owes(reader', stopper', alive') = Owes(reader, stopper, alive)
          /\ Owes(reader, stopper, alive) \in Nat
        BY <2>1, CountsAre DEF Owes
    <2> QED
        BY <2>2, <2>3
<1>6. ASSUME NEW s \in Sockets, OnClose(s)
      PROVE  EventsMove
    <2>1. /\ s \in Sockets /\ reader' = [reader EXCEPT ![s] = reader'[s]]
          /\ UNCHANGED stopper
        BY <1>6 DEF OnClose, ReadLoop, FinalizeTransportClose, FinalizeFields, FacadeTypes
    <2>2. /\ reader[s] \in FinalizeLabels
          /\ reader'[s] = Follow(reader[s], s, TRUE)
          /\ FinalizeFields(reader[s])
          /\ alive \in BOOLEAN
        BY <1>6 DEF OnClose, ReadLoop, FinalizeTransportClose, FinalizeFields, FacadeTypes
    <2>3. CASE reader[s] = "dispatchDisconnect"
        <3> DEFINE e == [kind |-> "disconnect", tag |-> s]
        <3>1. e \in Queue!Event /\ e.kind # "message" /\ enqueued' = Append(enqueued, e)
            BY <1>6, <2>3 DEF OnClose, ReadLoop, FinalizeTransportClose, FinalizeFields,
               FinalizeDispatch, Queue!DispatchEvent, Queue!EnqueueEvent,
               Queue!InvokeInGoroutine, Queue!ShouldQueueEvent, Queue!QueuedKinds,
               Queue!producerVars, producerVars, Queue!Event, Kinds
        <3>2. UNCHANGED alive /\ Weight(reader[s]) = 2 /\ Weight(reader'[s]) = 1
            BY <2>2, <2>3 DEF FinalizeFields, Follow, FinalizeOrder, Weight,
               ComingLabels, TakenLabels, UnfinishedLabels, OpenLabels, FinalizeLabels,
               Amount
        <3> HIDE DEF e
        <3> QED
            BY <2>1, <3>1, <3>2, LoopOwes
    <2>4. CASE reader[s] = "dispatchError"
        <3> DEFINE e == [kind |-> "error", tag |-> s]
        <3>1. e \in Queue!Event /\ e.kind # "message" /\ enqueued' = Append(enqueued, e)
            BY <1>6, <2>4 DEF OnClose, ReadLoop, FinalizeTransportClose, FinalizeFields,
               FinalizeDispatch, Queue!DispatchEvent, Queue!EnqueueEvent,
               Queue!InvokeInGoroutine, Queue!ShouldQueueEvent, Queue!QueuedKinds,
               Queue!producerVars, producerVars, Queue!Event, Kinds
        <3>2. UNCHANGED alive /\ Weight(reader[s]) = 1 /\ Weight(reader'[s]) = 0
            BY <2>2, <2>4 DEF FinalizeFields, Follow, FinalizeOrder, Weight,
               ComingLabels, TakenLabels, UnfinishedLabels, OpenLabels, FinalizeLabels,
               Amount
        <3> HIDE DEF e
        <3> QED
            BY <2>1, <3>1, <3>2, LoopOwes
    <2>5. CASE reader[s] = "takeAlive"
        <3>1. UNCHANGED enqueued /\ ~alive'
            BY <1>6, <2>2, <2>5 DEF OnClose, ReadLoop, FinalizeTransportClose,
               FinalizeFields, FinalizeDispatch
        <3>2. Weight(reader[s]) = 1
            BY <2>5 DEF Weight, ComingLabels, TakenLabels, UnfinishedLabels, OpenLabels,
               FinalizeLabels, Amount
        <3>3. CASE alive
            <4>1. Weight(reader'[s]) = 2
                BY <2>2, <2>5, <3>3 DEF Follow, FinalizeOrder, Weight, ComingLabels,
                   TakenLabels, UnfinishedLabels, OpenLabels, FinalizeLabels, Amount
            <4>2. Weight(reader'[s]) <= Weight(reader[s]) + 1 /\ alive /\ ~alive'
                BY <3>1, <3>2, <3>3, <4>1
            <4>3. /\ Owes(reader', stopper', alive') \in Nat
                  /\ Owes(reader', stopper', alive') <= Owes(reader, stopper, alive)
                BY <2>1, <4>2, LoopOwes
            <4> QED
                BY <3>1, <4>3
        <3>4. CASE ~alive
            <4>1. Weight(reader'[s]) = 0
                BY <2>2, <2>5, <3>4 DEF Follow, FinalizeOrder, Weight, ComingLabels,
                   TakenLabels, UnfinishedLabels, OpenLabels, FinalizeLabels, Amount
            <4> QED
                BY <2>1, <3>1, <3>2, <3>4, <4>1, LoopOwes
        <3> QED
            BY <3>3, <3>4
    <2>6. CASE reader[s] \notin {"takeAlive", "dispatchDisconnect", "dispatchError"}
        <3>1. UNCHANGED <<enqueued, alive>>
            BY <1>6, <2>6 DEF OnClose, ReadLoop, FinalizeTransportClose, FinalizeFields,
               FinalizeDispatch, FacadeTypes
        <3>2. Weight(reader'[s]) <= Weight(reader[s])
            BY <2>2, <2>6 DEF Follow, FinalizeOrder, Weight, ComingLabels, TakenLabels,
               UnfinishedLabels, OpenLabels, FinalizeLabels, Amount
        <3> QED
            BY <2>1, <3>1, <3>2, LoopOwes
    <2> QED
        BY <2>3, <2>4, <2>5, <2>6
<1>7. ASSUME NEW s \in Sockets, HeartbeatEnds(s)
      PROVE  EventsMove
    <2>1. /\ UNCHANGED <<reader, alive, enqueued>>
          /\ stopper' \in TakenLabels <=> stopper \in TakenLabels
        BY <1>7 DEF HeartbeatEnds, Heartbeat!HeartbeatReturns, FacadeRests, TakenLabels,
           FinalizeLabels, producerVars, Queue!producerVars
    <2>2. /\ Owes(reader', stopper', alive') = Owes(reader, stopper, alive)
          /\ Owes(reader, stopper, alive) \in Nat
        BY <2>1, CountsAre DEF Owes, Amount
    <2> QED
        BY <2>1, <2>2
<1>8. CASE BeginShutdown \/ SnapshotPool \/ VisitConnection \/ LoadTransport
           \/ CloseConnection \/ ResetListeners
    <2>1. /\ UNCHANGED <<reader, alive, enqueued>>
          /\ stopper' \in TakenLabels <=> stopper \in TakenLabels
        BY <1>8 DEF BeginShutdown, StopperGoto, SnapshotPool, VisitConnection,
           LoadTransport, CloseConnection, ResetListeners, TakenLabels, FinalizeLabels,
           producerVars, Queue!producerVars
    <2>2. /\ Owes(reader', stopper', alive') = Owes(reader, stopper, alive)
          /\ Owes(reader, stopper, alive) \in Nat
        BY <2>1, CountsAre DEF Owes, Amount
    <2> QED
        BY <2>1, <2>2
<1>9. CASE FinalizeConnection
    <2>1. /\ UNCHANGED reader
          /\ stopper \in FinalizeLabels \ {"dispatchError"}
          /\ stopper # "checkCurrent" => stopping \in Sockets
          /\ stopper' = IF Follow(stopper, stopping, FALSE) = "done"
                           THEN "resetListeners"
                           ELSE Follow(stopper, stopping, FALSE)
          /\ FinalizeFields(stopper)
          /\ alive \in BOOLEAN
        BY <1>9 DEF FinalizeConnection, StopperGoto, FinalizeTransportClose,
           FinalizeFields, FacadeTypes
    <2>2. CASE stopper = "dispatchDisconnect"
        <3> DEFINE e == [kind |-> "disconnect", tag |-> stopping]
        <3>1. e \in Queue!Event /\ e.kind # "message" /\ enqueued' = Append(enqueued, e)
            BY <1>9, <2>1, <2>2 DEF FinalizeConnection, StopperGoto,
               FinalizeTransportClose, FinalizeFields, FinalizeDispatch,
               Queue!DispatchEvent, Queue!EnqueueEvent, Queue!InvokeInGoroutine,
               Queue!ShouldQueueEvent, Queue!QueuedKinds, Queue!producerVars,
               producerVars, Queue!Event, Kinds
        <3>2. UNCHANGED alive /\ stopper \in TakenLabels /\ stopper' \notin TakenLabels
            BY <2>1, <2>2 DEF TakenLabels, FinalizeFields, Follow, FinalizeOrder
        <3> HIDE DEF e
        <3> QED
            BY <2>1, <3>1, <3>2, StopperOwes
    <2>3. CASE stopper = "takeAlive"
        <3>1. UNCHANGED enqueued /\ ~alive' /\ (alive \/ stopper' \notin TakenLabels)
            BY <1>9, <2>1, <2>3 DEF FinalizeConnection, StopperGoto,
               FinalizeTransportClose, FinalizeFields, FinalizeDispatch, Follow,
               FinalizeOrder, TakenLabels
        <3> QED
            BY <2>1, <3>1, StopperOwes
    <2>4. CASE stopper \notin {"takeAlive", "dispatchDisconnect"}
        <3>1. UNCHANGED <<enqueued, alive>>
            BY <1>9, <2>1, <2>4 DEF FinalizeConnection, StopperGoto,
               FinalizeTransportClose, FinalizeFields, FinalizeDispatch, FacadeTypes
        <3>2. stopper' \in TakenLabels => stopper \in TakenLabels
            BY <2>1, <2>4 DEF FinalizeLabels, Follow, FinalizeOrder, TakenLabels
        <3> QED
            BY <2>1, <3>1, <3>2, StopperOwes
    <2> QED
        BY <2>2, <2>3, <2>4
<1>10. CASE ConnectCallback
    <2>1. /\ UNCHANGED <<reader, alive, enqueued>>
          /\ stopper' \in TakenLabels <=> stopper \in TakenLabels
        BY <1>10 DEF ConnectCallback, FacadeRests, TakenLabels, FinalizeLabels,
           producerVars, Queue!producerVars, Queue!ConnectCallbackReturns
    <2>2. /\ Owes(reader', stopper', alive') = Owes(reader, stopper, alive)
          /\ Owes(reader, stopper, alive) \in Nat
        BY <2>1, CountsAre DEF Owes, Amount
    <2> QED
        BY <2>1, <2>2
<1>11. ASSUME NEW d \in Drainers, Drain(d)
       PROVE  EventsMove
    <2>1. /\ UNCHANGED <<reader, alive, enqueued>>
          /\ stopper' \in TakenLabels <=> stopper \in TakenLabels
        BY <1>11 DEF Drain, FacadeRests, TakenLabels, FinalizeLabels, producerVars,
           Queue!producerVars, Queue!DrainerStep, Queue!ReadReady, Queue!PassReady,
           Queue!TakeEvent, Queue!StopDraining, Queue!CallbacksReturn
    <2>2. /\ Owes(reader', stopper', alive') = Owes(reader, stopper, alive)
          /\ Owes(reader, stopper, alive) \in Nat
        BY <2>1, CountsAre DEF Owes, Amount
    <2> QED
        BY <2>1, <2>2
<1>12. CASE UNCHANGED vars
    <2>1. /\ UNCHANGED <<reader, alive, enqueued>>
          /\ stopper' \in TakenLabels <=> stopper \in TakenLabels
        BY <1>12 DEF vars, TakenLabels, FinalizeLabels, producerVars, Queue!producerVars
    <2>2. /\ Owes(reader', stopper', alive') = Owes(reader, stopper, alive)
          /\ Owes(reader, stopper, alive) \in Nat
        BY <2>1, CountsAre DEF Owes, Amount
    <2> QED
        BY <2>1, <2>2
<1> QED
    BY <1>1, <1>2, <1>3, <1>4, <1>5, <1>6, <1>7, <1>8, <1>9, <1>10, <1>11, <1>12
    DEF Next, CallerStep, ReadLoopStep, ShutdownStep

(* What has been queued and what is owed stay within the bound. *)

(* What has been queued and what is owed stay within the bound. *)
LEMMA EventsStep ==
    ASSUME EventsLeft, enqueued \in Seq(Queue!Event), EventsMove
    PROVE  /\ EventsLeft'
           /\ \A e : enqueued' = Append(enqueued, e) => Len(enqueued) < MaxEvents
<1> DEFINE n == Cardinality(Sockets)
           m == Cardinality(Messages)
<1>1. n \in Nat /\ Within(m, Len(enqueued), Owes(reader, stopper, alive), n)
    BY CountsAre DEF EventsLeft
<1>2. /\ m \in Nat /\ Len(enqueued) \in Nat
      /\ Owes(reader, stopper, alive) \in Nat /\ Owes(reader', stopper', alive') \in Nat
    BY <1>1 DEF Within, EventsMove
<1>3. CASE enqueued' = enqueued /\ Owes(reader', stopper', alive') <= Owes(reader, stopper, alive)
    <2>1. Messages' = Messages /\ Len(enqueued)' = Len(enqueued)
        BY <1>3 DEF Messages
    <2>2. Within(m, Len(enqueued), Owes(reader', stopper', alive'), n)
        BY <1>1, <1>2, <1>3, Spend
    <2>3. \A e : enqueued' # Append(enqueued, e)
        BY <1>3
    <2> QED
        BY <2>1, <2>2, <2>3 DEF EventsLeft
<1>4. ASSUME NEW e \in Queue!Event, enqueued' = Append(enqueued, e),
             IF e.kind = "message"
               THEN /\ m < MaxMessages
                    /\ Owes(reader', stopper', alive') <= Owes(reader, stopper, alive)
               ELSE Owes(reader', stopper', alive') + 1 <= Owes(reader, stopper, alive)
      PROVE  EventsLeft' /\ Len(enqueued) < MaxEvents
    <2>1. /\ Len(enqueued)' = Len(enqueued) + 1
          /\ Cardinality(Messages)' = m + Amount(e.kind = "message")
        BY <1>4, CountMessages
    <2>2. CASE e.kind = "message"
        <3>1. /\ Cardinality(Messages)' = m + 1 /\ m < MaxMessages
              /\ Owes(reader', stopper', alive') <= Owes(reader, stopper, alive)
            BY <1>4, <2>1, <2>2 DEF Amount
        <3> HIDE DEF m, n
        <3>2. /\ Within(m + 1, Len(enqueued) + 1, Owes(reader', stopper', alive'), n)
              /\ Len(enqueued) < MaxMessages + 2 * n
            BY <1>1, <1>2, <3>1, Spend
        <3> QED
            BY <2>1, <3>1, <3>2 DEF EventsLeft, MaxEvents, m, n
    <2>3. CASE e.kind # "message"
        <3>1. /\ Cardinality(Messages)' = m
              /\ Owes(reader', stopper', alive') + 1 <= Owes(reader, stopper, alive)
            BY <1>2, <1>4, <2>1, <2>3 DEF Amount
        <3> HIDE DEF m, n
        <3>2. /\ Within(m, Len(enqueued) + 1, Owes(reader', stopper', alive'), n)
              /\ Len(enqueued) < MaxMessages + 2 * n
            BY <1>1, <1>2, <3>1, Spend
        <3> QED
            BY <2>1, <3>1, <3>2 DEF EventsLeft, MaxEvents, m, n
    <2> QED
        BY <2>2, <2>3
<1> QED
    BY <1>3, <1>4 DEF EventsMove

(* An event that goes into the queue is a step of the queue. *)

(* An event that goes into the queue is a step of the queue. *)
LEMMA EventDispatched ==
    ASSUME \A e : enqueued' = Append(enqueued, e) => Len(enqueued) < MaxEvents,
           NEW kind \in {"message", "disconnect", "error"}, NEW s \in Sockets,
           Queue!DispatchEvent([kind |-> kind, tag |-> s]), UNCHANGED gateVars
    PROVE  Queue!Next
<1> DEFINE e == [kind |-> kind, tag |-> s]
<1>1. e \in Queue!Event /\ e.kind = kind /\ Queue!ShouldQueueEvent(e.kind)
    BY DEF Queue!Event, Kinds, Queue!ShouldQueueEvent, Queue!QueuedKinds
<1>2. Queue!DispatchEvent(e)
    OBVIOUS
<1> HIDE DEF e
<1>3. enqueued' = Append(enqueued, e)
    BY <1>1, <1>2 DEF Queue!DispatchEvent, Queue!EnqueueEvent
<1> QED
    BY <1>1, <1>2, <1>3 DEF Queue!Next, Queue!Dispatch, gateVars, Queue!gateVars

(* The dispatches of finalizeTransportClose are steps of the queue. *)

(* The dispatches of finalizeTransportClose are steps of the queue. *)
LEMMA FinalDispatched ==
    ASSUME \A e : enqueued' = Append(enqueued, e) => Len(enqueued) < MaxEvents,
           NEW at, NEW s, FinalizeDispatch(at, s),
           at \in {"dispatchDisconnect", "dispatchError"} => s \in Sockets
    PROVE  [Queue!Next]_(Queue!vars)
<1>1. CASE at = "dispatchDisconnect"
    <2>1. Queue!DispatchEvent([kind |-> "disconnect", tag |-> s]) /\ UNCHANGED gateVars
        BY <1>1 DEF FinalizeDispatch
    <2> QED
        BY <1>1, <2>1, EventDispatched
<1>2. CASE at = "dispatchError"
    <2>1. Queue!DispatchEvent([kind |-> "error", tag |-> s]) /\ UNCHANGED gateVars
        BY <1>2 DEF FinalizeDispatch
    <2> QED
        BY <1>2, <2>1, EventDispatched
<1>3. CASE at \notin {"dispatchDisconnect", "dispatchError"}
    <2>1. UNCHANGED queueVars
        BY <1>3 DEF FinalizeDispatch
    <2> QED
        BY <2>1 DEF queueVars, producerVars, gateVars, drainerVars, Queue!vars
<1> QED
    BY <1>1, <1>2, <1>3

(* Every step of the facade is a step of the queue, within the queue's bounds, or leaves
   it alone. *)
LEMMA UsesQueueStep ==
    ASSUME FacadeTypes, EventsLeft, ConnectsLeft, ReadiesLeft,
           \A e : enqueued' = Append(enqueued, e) => Len(enqueued) < MaxEvents, [Next]_vars
    PROVE  [Queue!Next]_(Queue!vars)
<1> USE DEF vars, queueVars, producerVars, gateVars, drainerVars, Queue!vars
<1>1. ASSUME NEW c \in Callers, CallConnect(c) \/ CallReconnect(c)
                                \/ BeginClientDial(c) \/ CloseOld(c) \/ DialFails(c)
      PROVE  [Queue!Next]_(Queue!vars)
    BY <1>1 DEF CallConnect, Call, Goto, CallReconnect, BeginClientDial, OnlyState,
       CloseOld, DialFails
<1>2. ASSUME NEW c \in Callers, ReplaceConnectReady(c)
      PROVE  [Queue!Next]_(Queue!vars)
    <2>1. /\ caller' = [caller EXCEPT ![c] = caller'[c]]
          /\ caller[c] \in BeforeRedial /\ caller'[c] \notin BeforeRedial
          /\ calls \in 0..MaxCalls
        BY <1>2 DEF ReplaceConnectReady, Queue!ReplaceReady, Goto, BeforeRedial,
           FacadeTypes
    <2>2. connectReady < MaxCalls
        BY <2>1, CallerMoves, ProcessesAssumption DEF ReadiesLeft
    <2> QED
        BY <1>2, <2>2 DEF ReplaceConnectReady, Queue!Next, Queue!Connection,
           Queue!producerVars
<1>3. ASSUME NEW c \in Callers, DialSucceeds(c) \/ OpenSeen(c) \/ OpenTimesOut(c)
                                \/ ReturnError(c) \/ Close(c)
      PROVE  [Queue!Next]_(Queue!vars)
    BY <1>3 DEF DialSucceeds, Goto, Fresh, OpenSeen, OnlyState, OpenTimesOut,
       ReturnError, Close
<1>4. ASSUME NEW s \in Sockets, StoreTransport(s) \/ SetAlive(s) \/ SetConnected(s)
                                \/ StartHeartbeat(s) \/ EnterPool(s)
      PROVE  [Queue!Next]_(Queue!vars)
    BY <1>4 DEF StoreTransport, ReadLoop, SetAlive, SetConnected, StartHeartbeat,
       Heartbeat!StartClientHeartbeat, EnterPool
<1>5. ASSUME NEW s \in Sockets, CloseOpened(s) \/ ReadEnds(s) \/ HeartbeatEnds(s)
      PROVE  [Queue!Next]_(Queue!vars)
    BY <1>5 DEF CloseOpened, ReadLoop, ReadEnds, HeartbeatEnds,
       Heartbeat!HeartbeatReturns, FacadeRests
<1>6. ASSUME NEW s \in Sockets, CloseConnectReady(s)
      PROVE  [Queue!Next]_(Queue!vars)
    BY <1>6 DEF CloseConnectReady, Queue!Next, Queue!Connection, Queue!producerVars
<1>7. ASSUME NEW s \in Sockets, DispatchConnect(s)
      PROVE  [Queue!Next]_(Queue!vars)
    <2> DEFINE e == [kind |-> "connect", tag |-> s]
    <2>1. /\ s \in Sockets /\ reader' = [reader EXCEPT ![s] = reader'[s]]
          /\ reader[s] \in UnopenedLabels /\ reader'[s] \notin UnopenedLabels
        BY <1>7 DEF DispatchConnect, ReadLoop, FacadeTypes, UnopenedLabels, OpenLabels
    <2>2. connecting < Cardinality(Sockets)
        BY <2>1, LoopMoves, CountsAre DEF ConnectsLeft
    <2>3. e \in Queue!Event /\ e.kind = "connect" /\ ~Queue!ShouldQueueEvent(e.kind)
        BY DEF Queue!Event, Kinds, Queue!ShouldQueueEvent, Queue!QueuedKinds
    <2>4. Queue!DispatchEvent(e) /\ UNCHANGED gateVars
        BY <1>7 DEF DispatchConnect
    <2> HIDE DEF e
    <2> QED
        BY <2>2, <2>3, <2>4 DEF Queue!Next, Queue!Dispatch, gateVars, Queue!gateVars
<1>8. ASSUME NEW s \in Sockets, OnMessage(s)
      PROVE  [Queue!Next]_(Queue!vars)
    <2>1. Queue!DispatchEvent([kind |-> "message", tag |-> s]) /\ UNCHANGED gateVars
        BY <1>8 DEF OnMessage, Queue!DispatchEvent, Queue!ShouldQueueEvent,
           Queue!QueuedKinds
    <2> QED
        BY <1>8, <2>1, EventDispatched
<1>9. ASSUME NEW s \in Sockets, OnClose(s)
      PROVE  [Queue!Next]_(Queue!vars)
    <2>1. /\ FinalizeDispatch(reader[s], s)
          /\ reader[s] \in {"dispatchDisconnect", "dispatchError"} => s \in Sockets
        BY <1>9 DEF OnClose, ReadLoop, FinalizeTransportClose, FinalizeFields, FacadeTypes
    <2> QED
        BY <2>1, FinalDispatched
<1>10. CASE BeginShutdown \/ SnapshotPool \/ VisitConnection \/ LoadTransport
            \/ CloseConnection
    BY <1>10 DEF BeginShutdown, StopperGoto, SnapshotPool, VisitConnection,
       LoadTransport, CloseConnection
<1>11. CASE FinalizeConnection
    <2>1. /\ FinalizeDispatch(stopper, stopping)
          /\ stopper \in {"dispatchDisconnect", "dispatchError"} => stopping \in Sockets
        BY <1>11 DEF FinalizeConnection, StopperGoto, FinalizeTransportClose,
           FinalizeFields, FacadeTypes
    <2> QED
        BY <2>1, FinalDispatched
<1>12. CASE ResetListeners
    BY <1>12 DEF ResetListeners, StopperGoto
<1>13. CASE ConnectCallback
    BY <1>13 DEF ConnectCallback, Queue!Next, Queue!Callbacks, Queue!gateVars
<1>14. ASSUME NEW d \in Drainers, Drain(d)
       PROVE  [Queue!Next]_(Queue!vars)
    BY <1>14 DEF Drain, Queue!Next, Queue!Callbacks, Queue!gateVars
<1>15. CASE UNCHANGED vars
    BY <1>15 DEF vars
<1> QED
    BY <1>1, <1>2, <1>3, <1>4, <1>5, <1>6, <1>7, <1>8, <1>9, <1>10, <1>11, <1>12, <1>13,
       <1>14, <1>15
    DEF Next, CallerStep, ReadLoopStep, ShutdownStep

-----------------------------------------------------------------------------
(***************************************************************************)
(* The queue inside the facade.  EventQueueProofs is about the same queue: *)
(* its definitions and those of Queue are the same formulas.               *)
(***************************************************************************)
LEMMA MaxOk == MaxEvents \in Nat /\ Cardinality(Sockets) \in Nat
BY FS_CardinalityType, ProcessesAssumption DEF MaxEvents

(* A step of the one is a step of the other. *)
LEMMA SameNext == QueueProofs!Next <=> Queue!Next
<1> USE DEF QueueProofs!producerVars, Queue!producerVars, QueueProofs!gateVars,
        Queue!gateVars
<1>1. QueueProofs!Dispatch <=> Queue!Dispatch
    BY DEF QueueProofs!Dispatch, Queue!Dispatch, QueueProofs!DispatchEvent,
       Queue!DispatchEvent, QueueProofs!EnqueueEvent, Queue!EnqueueEvent,
       QueueProofs!InvokeInGoroutine, Queue!InvokeInGoroutine,
       QueueProofs!ShouldQueueEvent, Queue!ShouldQueueEvent, QueueProofs!QueuedKinds,
       Queue!QueuedKinds, QueueProofs!Event, Queue!Event
<1>2. QueueProofs!Connection <=> Queue!Connection
    BY DEF QueueProofs!Connection, Queue!Connection, QueueProofs!CloseReady,
       Queue!CloseReady, QueueProofs!ReplaceReady, Queue!ReplaceReady
<1>3. ASSUME NEW d
      PROVE  QueueProofs!DrainerStep(d) <=> Queue!DrainerStep(d)
    <2>1. /\ QueueProofs!ReadReady(d) <=> Queue!ReadReady(d)
          /\ QueueProofs!PassReady(d) <=> Queue!PassReady(d)
        BY DEF QueueProofs!ReadReady, Queue!ReadReady, QueueProofs!PassReady,
           Queue!PassReady
    <2>2. /\ QueueProofs!TakeEvent(d) <=> Queue!TakeEvent(d)
          /\ QueueProofs!StopDraining(d) <=> Queue!StopDraining(d)
        BY DEF QueueProofs!TakeEvent, Queue!TakeEvent, QueueProofs!StopDraining,
           Queue!StopDraining
    <2>3. QueueProofs!CallbacksReturn(d) <=> Queue!CallbacksReturn(d)
        BY DEF QueueProofs!CallbacksReturn, Queue!CallbacksReturn, QueueProofs!MayReturn,
           Queue!MayReturn
    <2> QED
        BY <2>1, <2>2, <2>3 DEF QueueProofs!DrainerStep, Queue!DrainerStep
<1>4. QueueProofs!ConnectCallbackReturns <=> Queue!ConnectCallbackReturns
    BY DEF QueueProofs!ConnectCallbackReturns, Queue!ConnectCallbackReturns,
       QueueProofs!MayReturn, Queue!MayReturn
<1> QED
    BY <1>1, <1>2, <1>3, <1>4 DEF QueueProofs!Next, Queue!Next, QueueProofs!Callbacks,
       Queue!Callbacks

(* The queue starts with its invariant. *)
LEMMA QueueInit == Queue!Init => QueueProofs!IInv
<1>1. QueueProofs!Init <=> Queue!Init
    BY DEF QueueProofs!Init, Queue!Init
<1> QED
    BY <1>1, QueueProofs!InitIInv, MaxOk, ProcessesAssumption DEF Kinds

(* What is proved of the queue by itself holds of it inside the facade. *)
LEMMA QueueStays ==
    ASSUME QueueProofs!IInv, [Queue!Next]_(Queue!vars)
    PROVE  QueueProofs!IInv'
<1>1. [QueueProofs!Next]_(QueueProofs!vars)
    BY SameNext DEF QueueProofs!vars, Queue!vars
<1> QED
    BY <1>1, QueueProofs!NextIInv, MaxOk, ProcessesAssumption DEF Kinds

-----------------------------------------------------------------------------
(***************************************************************************)
(* What holds of every instance, whatever the callers do.                  *)
(***************************************************************************)
SafeInv ==
    /\ FacadeTypes
    /\ DialExclusive
    /\ HeartbeatInv
    /\ StartsOnce
    /\ EventsLeft
    /\ ConnectsLeft
    /\ ReadiesLeft
    /\ QueueProofs!IInv

(* The facade starts with the invariant. *)
LEMMA InitSafe == Init => SafeInv
<1> SUFFICES ASSUME Init
             PROVE  SafeInv
    OBVIOUS
<1> USE ProcessesAssumption DEF Init
<1>1. FacadeTypes
    <2>1. caller \in [Callers -> CallerLabels] /\ 0 \in 0..MaxCalls
        BY DEF CallerLabels
    <2>2. stopper = "idle" /\ stopper \notin FinalizeLabels
        BY DEF FinalizeLabels
    <2> QED
        BY <2>1, <2>2 DEF FacadeTypes
<1>2. DialExclusive
    BY DEF DialExclusive, Dialing
<1>3. HeartbeatInv /\ StartsOnce
    BY HeartbeatInit DEF StartsOnce, Heartbeat!Init
<1>4. Messages = {} /\ Len(enqueued) = 0
    BY DEF Messages, Queue!Init
<1>5. EventsLeft
    <2>1. /\ Where(Sockets, reader, ComingLabels) = Sockets
          /\ Where(Sockets, reader, UnfinishedLabels) = Sockets
          /\ Where(Sockets, reader, TakenLabels) = {}
        BY DEF Where, ComingLabels, UnfinishedLabels, TakenLabels
    <2>2. Cardinality({}) = 0
        BY FS_EmptySet
    <2>3. Amount(stopper \in TakenLabels) = 0 /\ Amount(alive) = 0
        BY DEF Amount, TakenLabels
    <2>4. LoopsOwe(reader) = Cardinality(Sockets) + Cardinality({}) + Cardinality(Sockets)
        BY <2>1 DEF LoopsOwe
    <2>5. Owes(reader, stopper, alive) = 2 * Cardinality(Sockets)
        BY <2>2, <2>3, <2>4, MaxOk DEF Owes
    <2> QED
        BY <1>4, <2>2, <2>5, MaxOk DEF EventsLeft, Within
<1>6. ConnectsLeft
    <2>1. Where(Sockets, reader, UnopenedLabels) = Sockets
        BY DEF Where, UnopenedLabels
    <2> QED
        BY <2>1, MaxOk DEF ConnectsLeft, Unopened, Queue!Init
<1>7. ReadiesLeft
    <2>1. Where(Callers, caller, BeforeRedial) = {}
        BY DEF Where, BeforeRedial
    <2>2. Redialing(caller) = 0
        BY <2>1, FS_EmptySet DEF Redialing
    <2> QED
        BY <2>2 DEF ReadiesLeft, Queue!Init
<1> QED
    BY <1>1, <1>2, <1>3, <1>5, <1>6, <1>7, QueueInit DEF SafeInv

(* Every step keeps the invariant and is one the queue and the heartbeat allow. *)
LEMMA SafeStep ==
    ASSUME SafeInv, [Next]_vars
    PROVE  /\ SafeInv'
           /\ [Queue!Next]_(Queue!vars)
           /\ [Heartbeat!Next]_(Heartbeat!vars)
<1> USE DEF SafeInv
<1>1. FacadeTypes' /\ DialExclusive'
    BY TypesStep, DialStep
<1>2. StartsOnce' /\ [Heartbeat!Next]_(Heartbeat!vars)
    BY HeartbeatStep
<1>3. HeartbeatInv'
    BY <1>2, HeartbeatNext
<1>4. ConnectsLeft' /\ ReadiesLeft'
    BY ConnectsStep, ReadiesStep
<1>5. enqueued \in Seq(Queue!Event)
    BY DEF QueueProofs!IInv, QueueProofs!TypeOK, QueueProofs!Event, Queue!Event
<1>6. EventsLeft' /\ \A e : enqueued' = Append(enqueued, e) => Len(enqueued) < MaxEvents
    BY <1>5, EventsMoveStep, EventsStep
<1>7. [Queue!Next]_(Queue!vars)
    BY <1>6, UsesQueueStep
<1>8. QueueProofs!IInv'
    BY <1>7, QueueStays
<1> QED
    BY <1>1, <1>2, <1>3, <1>4, <1>6, <1>7, <1>8

(* The invariant of the facade: its types, the right to dial, the heartbeat's fields,
   and an account in which transports and calls pay for what is still to come. *)
THEOREM Invariance == Spec => []SafeInv
BY InitSafe, SafeStep, PTL DEF Spec

(* The variables of the facade, of its queue and of its heartbeat keep their types. *)
THEOREM TypeCorrect == Spec => []TypeOK
<1>1. SafeInv => TypeOK
    <2>1. QueueProofs!TypeOK => Queue!TypeOK
        BY DEF QueueProofs!TypeOK, Queue!TypeOK, QueueProofs!Event, Queue!Event,
           QueueProofs!Places, Queue!Places
    <2> QED
        BY <2>1 DEF SafeInv, TypeOK, HeartbeatInv, QueueProofs!IInv
<1> QED
    BY <1>1, Invariance, PTL

(* One dial at a time, for any number of callers in any order, until one of them gives
   up waiting for an OnOpen. *)
THEOREM OneDialAtATime == Spec => []DialExclusive
<1>1. SafeInv => DialExclusive
    BY DEF SafeInv
<1> QED
    BY <1>1, Invariance, PTL

(* The facade is a behaviour of its heartbeat, which no transport starts twice. *)
THEOREM HeartbeatUse == Spec => UsesHeartbeat
<1>1. Init => Heartbeat!Init
    BY DEF Init
<1> QED
    BY <1>1, Invariance, SafeStep, PTL DEF Spec, UsesHeartbeat, Heartbeat!Spec

(* However calls, closes and Shutdown overlap, the late OnClose of a transport does not
   silence the heartbeat of its successor. *)
THEOREM SuccessorKeepsHeartbeat == Spec => HeartbeatKept
<1>1. SafeInv /\ [Next]_vars =>
          [\A s \in stopped' \ stopped : StopsItsOwn(s) \/ started' # started]_vars
    BY HeartbeatKeeps DEF SafeInv
<1> QED
    BY <1>1, Invariance, PTL DEF Spec, HeartbeatKept

(* The facade is a behaviour of its queue: it queues no more events, starts no more
   connect callbacks and makes no more channels than the queue has been checked for. *)
THEOREM QueueUse == Spec => UsesQueue
<1>1. Init => Queue!Init
    BY DEF Init
<1> QED
    BY <1>1, Invariance, SafeStep, PTL DEF Spec, UsesQueue

-----------------------------------------------------------------------------
(***************************************************************************)
(* The recommended use: one caller, which does not give up on an OnOpen.   *)
(* Every lemma takes one part of the invariant of that use through a step. *)
(***************************************************************************)
(* A session begins when every other is over: who dials has found them so. *)
LEMMA SessionStep ==
    ASSUME Recommended, FacadeTypes, FacadeTypes', OneSession, StopperLate, Fields,
           Reported, ToldReported, [Next]_vars
    PROVE  OneSession'
<1> USE ProcessesAssumption DEF fields, sockets, labels, usage, FacadeTypes,
        Recommended, TakenLabels, EarlyLabels, Up, Over, OpenLabels, Calling, Phase,
        Busy, CallerLabels, FinalizeLabels, OneSession, StopperLate, Fields
<1>1. ASSUME NEW c \in Callers, CallConnect(c)
      PROVE  OneSession'
    BY <1>1 DEF CallConnect, Call, Goto, MayConnect
<1>2. ASSUME NEW c \in Callers, CallReconnect(c)
      PROVE  OneSession'
    <2>1. CASE isShutdown
        BY <1>2, <2>1 DEF CallReconnect, Call, Goto
    <2>2. CASE ~isShutdown
        <3>1. ASSUME NEW s \in Sockets
              PROVE  ~Busy(s)
            <4>1. CASE s \in opened
                BY <1>2, <2>2, <4>1 DEF CallReconnect, MayReconnect, ToldReported,
                   Finished
            <4>2. CASE s \notin opened
                BY <1>2, <2>2, <4>2 DEF CallReconnect, Call
            <4> QED
                BY <4>1, <4>2
        <3> QED
            BY <1>2, <2>2, <3>1 DEF CallReconnect, Call, Goto
    <2> QED
        BY <2>1, <2>2
<1>3. ASSUME NEW c \in Callers, BeginClientDial(c) \/ CloseOld(c)
                                \/ ReplaceConnectReady(c) \/ DialFails(c)
      PROVE  OneSession'
    BY <1>3 DEF BeginClientDial, OnlyState, Goto, CloseOld, ReplaceConnectReady,
       Queue!ReplaceReady, DialFails
<1>4. ASSUME NEW c \in Callers, DialSucceeds(c) \/ OpenSeen(c) \/ OpenTimesOut(c)
                                \/ ReturnError(c)
      PROVE  OneSession'
    BY <1>4 DEF DialSucceeds, Goto, Fresh, OpenSeen, OnlyState, OpenTimesOut, ReturnError
<1>5. ASSUME NEW c \in Callers, Close(c)
      PROVE  OneSession'
    BY <1>5 DEF Close, Goto
<1>6. ASSUME NEW s \in Sockets, StoreTransport(s) \/ SetAlive(s) \/ SetConnected(s)
                                \/ StartHeartbeat(s)
      PROVE  OneSession'
    BY <1>6 DEF StoreTransport, ReadLoop, SetAlive, SetConnected, StartHeartbeat,
       Heartbeat!StartClientHeartbeat
<1>7. ASSUME NEW s \in Sockets, EnterPool(s) \/ CloseOpened(s)
                                \/ CloseConnectReady(s) \/ DispatchConnect(s)
      PROVE  OneSession'
    BY <1>7 DEF EnterPool, ReadLoop, CloseOpened, CloseConnectReady, Queue!CloseReady,
       DispatchConnect
<1>8. ASSUME NEW s \in Sockets, OnMessage(s) \/ ReadEnds(s) \/ HeartbeatEnds(s)
      PROVE  OneSession'
    BY <1>8 DEF OnMessage, ReadLoop, ReadEnds, HeartbeatEnds, Heartbeat!HeartbeatReturns,
       FacadeRests
<1>9. ASSUME NEW s \in Sockets, OnClose(s)
      PROVE  OneSession'
    <2> USE <1>9 DEF OnClose, ReadLoop, FinalizeTransportClose, FinalizeFields,
            FinalizeDispatch, Follow, FinalizeOrder
    <2>1. CASE reader[s] \in {"checkCurrent", "takeAlive"}
        BY <2>1
    <2>2. CASE reader[s] \in {"stopHeartbeat", "clearTransport"}
        BY <2>2
    <2>3. CASE reader[s] \in {"setDisconnected", "leavePool"}
        BY <2>3
    <2>4. CASE reader[s] \in {"dispatchDisconnect", "dispatchError"}
        BY <2>4
    <2> QED
        BY <2>1, <2>2, <2>3, <2>4 DEF FinalizeLabels
<1>10. CASE BeginShutdown \/ SnapshotPool \/ VisitConnection \/ LoadTransport
    BY <1>10 DEF BeginShutdown, StopperGoto, SnapshotPool, VisitConnection, LoadTransport
<1>11. CASE CloseConnection \/ ResetListeners \/ ConnectCallback
    BY <1>11 DEF CloseConnection, StopperGoto, ResetListeners, ConnectCallback,
       FacadeRests
<1>12. CASE FinalizeConnection
    <2> USE <1>12 DEF FinalizeConnection, StopperGoto, FinalizeTransportClose,
            FinalizeFields, FinalizeDispatch, Follow, FinalizeOrder
    <2>1. CASE stopper \in {"checkCurrent", "takeAlive"}
        BY <2>1
    <2>2. CASE stopper \in {"stopHeartbeat", "clearTransport"}
        BY <2>2
    <2>3. CASE stopper \in {"setDisconnected", "leavePool"}
        BY <2>3
    <2>4. CASE stopper \in {"dispatchDisconnect", "dispatchError"}
        BY <2>4
    <2> QED
        BY <2>1, <2>2, <2>3, <2>4 DEF FinalizeLabels
<1>13. ASSUME NEW d \in Drainers, Drain(d)
       PROVE  OneSession'
    BY <1>13 DEF Drain, FacadeRests
<1>14. CASE UNCHANGED vars
    BY <1>14 DEF vars
<1> QED
    BY <1>1, <1>2, <1>3, <1>4, <1>5, <1>6, <1>7, <1>8, <1>9, <1>10, <1>11, <1>12, <1>13,
       <1>14
    DEF Next, CallerStep, ReadLoopStep, ShutdownStep

(* Shutdown takes over a session that is in the pool, and no caller dials beside it. *)
LEMMA StopperStep ==
    ASSUME Recommended, FacadeTypes, FacadeTypes', OneSession, StopperLate, Fields,
           OneSession', [Next]_vars
    PROVE  StopperLate'
<1> USE ProcessesAssumption DEF fields, sockets, labels, usage, FacadeTypes,
        Recommended, TakenLabels, EarlyLabels, Up, Over, OpenLabels, Calling, Phase,
        Busy, CallerLabels, FinalizeLabels, OneSession, StopperLate, Fields
<1>1. ASSUME NEW c \in Callers, CallConnect(c) \/ CallReconnect(c)
                                \/ BeginClientDial(c) \/ CloseOld(c)
      PROVE  StopperLate'
    BY <1>1 DEF CallConnect, Call, Goto, CallReconnect, BeginClientDial, OnlyState,
       CloseOld
<1>2. ASSUME NEW c \in Callers, ReplaceConnectReady(c) \/ DialFails(c)
                                \/ DialSucceeds(c) \/ OpenSeen(c)
      PROVE  StopperLate'
    BY <1>2 DEF ReplaceConnectReady, Queue!ReplaceReady, Goto, DialFails, DialSucceeds,
       Fresh, OpenSeen, OnlyState
<1>3. ASSUME NEW c \in Callers, OpenTimesOut(c) \/ ReturnError(c) \/ Close(c)
      PROVE  StopperLate'
    BY <1>3 DEF OpenTimesOut, Goto, ReturnError, OnlyState, Close
<1>4. ASSUME NEW s \in Sockets, StoreTransport(s) \/ SetAlive(s) \/ SetConnected(s)
                                \/ StartHeartbeat(s)
      PROVE  StopperLate'
    BY <1>4 DEF StoreTransport, ReadLoop, SetAlive, SetConnected, StartHeartbeat,
       Heartbeat!StartClientHeartbeat
<1>5. ASSUME NEW s \in Sockets, EnterPool(s) \/ CloseOpened(s)
                                \/ CloseConnectReady(s) \/ DispatchConnect(s)
      PROVE  StopperLate'
    BY <1>5 DEF EnterPool, ReadLoop, CloseOpened, CloseConnectReady, Queue!CloseReady,
       DispatchConnect
<1>6. ASSUME NEW s \in Sockets, OnMessage(s) \/ ReadEnds(s) \/ HeartbeatEnds(s)
      PROVE  StopperLate'
    BY <1>6 DEF OnMessage, ReadLoop, ReadEnds, HeartbeatEnds, Heartbeat!HeartbeatReturns,
       FacadeRests
<1>7. ASSUME NEW s \in Sockets, OnClose(s)
      PROVE  StopperLate'
    <2> USE <1>7 DEF OnClose, ReadLoop, FinalizeTransportClose, FinalizeFields,
            FinalizeDispatch, Follow, FinalizeOrder
    <2>1. CASE reader[s] \in {"checkCurrent", "takeAlive"}
        BY <2>1
    <2>2. CASE reader[s] \in {"stopHeartbeat", "clearTransport"}
        BY <2>2
    <2>3. CASE reader[s] \in {"setDisconnected", "leavePool"}
        BY <2>3
    <2>4. CASE reader[s] \in {"dispatchDisconnect", "dispatchError"}
        BY <2>4
    <2> QED
        BY <2>1, <2>2, <2>3, <2>4 DEF FinalizeLabels
<1>8. CASE BeginShutdown \/ SnapshotPool \/ VisitConnection \/ LoadTransport
    BY <1>8 DEF BeginShutdown, StopperGoto, SnapshotPool, VisitConnection, LoadTransport
<1>9. CASE CloseConnection \/ ResetListeners \/ ConnectCallback
    BY <1>9 DEF CloseConnection, StopperGoto, ResetListeners, ConnectCallback, FacadeRests
<1>10. CASE FinalizeConnection
    <2> USE <1>10 DEF FinalizeConnection, StopperGoto, FinalizeTransportClose,
            FinalizeFields, FinalizeDispatch, Follow, FinalizeOrder
    <2>1. CASE stopper \in {"checkCurrent", "takeAlive"}
        BY <2>1
    <2>2. CASE stopper \in {"stopHeartbeat", "clearTransport"}
        BY <2>2
    <2>3. CASE stopper \in {"setDisconnected", "leavePool"}
        BY <2>3
    <2>4. CASE stopper \in {"dispatchDisconnect", "dispatchError"}
        BY <2>4
    <2> QED
        BY <2>1, <2>2, <2>3, <2>4 DEF FinalizeLabels
<1>11. ASSUME NEW d \in Drainers, Drain(d)
       PROVE  StopperLate'
    BY <1>11 DEF Drain, FacadeRests
<1>12. CASE UNCHANGED vars
    BY <1>12 DEF vars
<1> QED
    BY <1>1, <1>2, <1>3, <1>4, <1>5, <1>6, <1>7, <1>8, <1>9, <1>10, <1>11, <1>12
    DEF Next, CallerStep, ReadLoopStep, ShutdownStep

(* Every step moves the fields with the phase of the session. *)
LEMMA FieldsStep ==
    ASSUME Recommended, FacadeTypes, FacadeTypes', OneSession, StopperLate, Fields,
           [Next]_vars
    PROVE  Fields'
<1> USE ProcessesAssumption DEF fields, sockets, labels, usage, FacadeTypes,
        Recommended, TakenLabels, EarlyLabels, Up, Over, OpenLabels, Calling, Phase,
        Busy, CallerLabels, FinalizeLabels, OneSession, StopperLate, Fields,
        heartbeatVars
<1>1. ASSUME NEW c \in Callers, CallConnect(c) \/ CallReconnect(c)
                                \/ BeginClientDial(c) \/ CloseOld(c)
      PROVE  Fields'
    BY <1>1 DEF CallConnect, Call, Goto, CallReconnect, BeginClientDial, OnlyState,
       CloseOld
<1>2. ASSUME NEW c \in Callers, ReplaceConnectReady(c) \/ DialFails(c)
                                \/ DialSucceeds(c) \/ OpenSeen(c)
      PROVE  Fields'
    BY <1>2 DEF ReplaceConnectReady, Queue!ReplaceReady, Goto, DialFails, DialSucceeds,
       Fresh, OpenSeen, OnlyState
<1>3. ASSUME NEW c \in Callers, OpenTimesOut(c) \/ ReturnError(c) \/ Close(c)
      PROVE  Fields'
    BY <1>3 DEF OpenTimesOut, Goto, ReturnError, OnlyState, Close
<1>4. ASSUME NEW s \in Sockets, StoreTransport(s) \/ SetAlive(s) \/ SetConnected(s)
                                \/ StartHeartbeat(s)
      PROVE  Fields'
    BY <1>4 DEF StoreTransport, ReadLoop, SetAlive, SetConnected, StartHeartbeat,
       Heartbeat!StartClientHeartbeat
<1>5. ASSUME NEW s \in Sockets, EnterPool(s) \/ CloseOpened(s)
                                \/ CloseConnectReady(s) \/ DispatchConnect(s)
      PROVE  Fields'
    BY <1>5 DEF EnterPool, ReadLoop, CloseOpened, CloseConnectReady, Queue!CloseReady,
       DispatchConnect
<1>6. ASSUME NEW s \in Sockets, OnMessage(s) \/ ReadEnds(s) \/ HeartbeatEnds(s)
      PROVE  Fields'
    BY <1>6 DEF OnMessage, ReadLoop, ReadEnds, HeartbeatEnds, Heartbeat!HeartbeatReturns,
       FacadeRests
<1>7. ASSUME NEW s \in Sockets, OnClose(s)
      PROVE  Fields'
    <2> USE <1>7 DEF OnClose, ReadLoop, FinalizeTransportClose, FinalizeFields,
            FinalizeDispatch, Follow, FinalizeOrder, Heartbeat!StopClientHeartbeat,
            Heartbeat!vars
    <2>1. CASE reader[s] \in {"checkCurrent", "takeAlive"}
        BY <2>1
    <2>2. CASE reader[s] \in {"stopHeartbeat", "clearTransport"}
        BY <2>2
    <2>3. CASE reader[s] \in {"setDisconnected", "leavePool"}
        BY <2>3
    <2>4. CASE reader[s] \in {"dispatchDisconnect", "dispatchError"}
        BY <2>4
    <2> QED
        BY <2>1, <2>2, <2>3, <2>4 DEF FinalizeLabels
<1>8. CASE BeginShutdown \/ SnapshotPool \/ VisitConnection \/ LoadTransport
    BY <1>8 DEF BeginShutdown, StopperGoto, SnapshotPool, VisitConnection, LoadTransport
<1>9. CASE CloseConnection \/ ResetListeners \/ ConnectCallback
    BY <1>9 DEF CloseConnection, StopperGoto, ResetListeners, ConnectCallback, FacadeRests
<1>10. CASE FinalizeConnection
    <2> USE <1>10 DEF FinalizeConnection, StopperGoto, FinalizeTransportClose,
            FinalizeFields, FinalizeDispatch, Follow, FinalizeOrder,
            Heartbeat!StopClientHeartbeat, Heartbeat!vars
    <2>1. CASE stopper \in {"checkCurrent", "takeAlive"}
        BY <2>1
    <2>2. CASE stopper \in {"stopHeartbeat", "clearTransport"}
        BY <2>2
    <2>3. CASE stopper \in {"setDisconnected", "leavePool"}
        BY <2>3
    <2>4. CASE stopper \in {"dispatchDisconnect", "dispatchError"}
        BY <2>4
    <2> QED
        BY <2>1, <2>2, <2>3, <2>4 DEF FinalizeLabels
<1>11. ASSUME NEW d \in Drainers, Drain(d)
       PROVE  Fields'
    BY <1>11 DEF Drain, FacadeRests
<1>12. CASE UNCHANGED vars
    BY <1>12 DEF vars
<1> QED
    BY <1>1, <1>2, <1>3, <1>4, <1>5, <1>6, <1>7, <1>8, <1>9, <1>10, <1>11, <1>12
    DEF Next, CallerStep, ReadLoopStep, ShutdownStep

(* Shutdown closes the transport it has loaded before it finalizes it. *)
LEMMA ClosingStep ==
    ASSUME Recommended, FacadeTypes, FacadeTypes', OneSession, StopperLate, Fields,
           Closing, [Next]_vars
    PROVE  Closing'
<1> USE ProcessesAssumption DEF fields, sockets, labels, usage, FacadeTypes,
        Recommended, TakenLabels, EarlyLabels, Up, Over, OpenLabels, Calling, Phase,
        Busy, CallerLabels, FinalizeLabels, OneSession, StopperLate, Fields, Closing
<1>1. ASSUME NEW c \in Callers, CallConnect(c) \/ CallReconnect(c)
                                \/ BeginClientDial(c) \/ CloseOld(c)
      PROVE  Closing'
    BY <1>1 DEF CallConnect, Call, Goto, CallReconnect, BeginClientDial, OnlyState,
       CloseOld
<1>2. ASSUME NEW c \in Callers, ReplaceConnectReady(c) \/ DialFails(c)
                                \/ DialSucceeds(c) \/ OpenSeen(c)
      PROVE  Closing'
    BY <1>2 DEF ReplaceConnectReady, Queue!ReplaceReady, Goto, DialFails, DialSucceeds,
       Fresh, OpenSeen, OnlyState
<1>3. ASSUME NEW c \in Callers, OpenTimesOut(c) \/ ReturnError(c) \/ Close(c)
      PROVE  Closing'
    BY <1>3 DEF OpenTimesOut, Goto, ReturnError, OnlyState, Close
<1>4. ASSUME NEW s \in Sockets, StoreTransport(s) \/ SetAlive(s) \/ SetConnected(s)
                                \/ StartHeartbeat(s)
      PROVE  Closing'
    BY <1>4 DEF StoreTransport, ReadLoop, SetAlive, SetConnected, StartHeartbeat,
       Heartbeat!StartClientHeartbeat
<1>5. ASSUME NEW s \in Sockets, EnterPool(s) \/ CloseOpened(s)
                                \/ CloseConnectReady(s) \/ DispatchConnect(s)
      PROVE  Closing'
    BY <1>5 DEF EnterPool, ReadLoop, CloseOpened, CloseConnectReady, Queue!CloseReady,
       DispatchConnect
<1>6. ASSUME NEW s \in Sockets, OnMessage(s) \/ ReadEnds(s) \/ HeartbeatEnds(s)
      PROVE  Closing'
    BY <1>6 DEF OnMessage, ReadLoop, ReadEnds, HeartbeatEnds, Heartbeat!HeartbeatReturns,
       FacadeRests
<1>7. ASSUME NEW s \in Sockets, OnClose(s)
      PROVE  Closing'
    <2> USE <1>7 DEF OnClose, ReadLoop, FinalizeTransportClose, FinalizeFields,
            FinalizeDispatch, Follow, FinalizeOrder
    <2>1. CASE reader[s] \in {"checkCurrent", "takeAlive"}
        BY <2>1
    <2>2. CASE reader[s] \in {"stopHeartbeat", "clearTransport"}
        BY <2>2
    <2>3. CASE reader[s] \in {"setDisconnected", "leavePool"}
        BY <2>3
    <2>4. CASE reader[s] \in {"dispatchDisconnect", "dispatchError"}
        BY <2>4
    <2> QED
        BY <2>1, <2>2, <2>3, <2>4 DEF FinalizeLabels
<1>8. CASE BeginShutdown \/ SnapshotPool \/ VisitConnection \/ LoadTransport
    BY <1>8 DEF BeginShutdown, StopperGoto, SnapshotPool, VisitConnection, LoadTransport
<1>9. CASE CloseConnection \/ ResetListeners \/ ConnectCallback
    BY <1>9 DEF CloseConnection, StopperGoto, ResetListeners, ConnectCallback, FacadeRests
<1>10. CASE FinalizeConnection
    <2> USE <1>10 DEF FinalizeConnection, StopperGoto, FinalizeTransportClose,
            FinalizeFields, FinalizeDispatch, Follow, FinalizeOrder
    <2>1. CASE stopper \in {"checkCurrent", "takeAlive"}
        BY <2>1
    <2>2. CASE stopper \in {"stopHeartbeat", "clearTransport"}
        BY <2>2
    <2>3. CASE stopper \in {"setDisconnected", "leavePool"}
        BY <2>3
    <2>4. CASE stopper \in {"dispatchDisconnect", "dispatchError"}
        BY <2>4
    <2> QED
        BY <2>1, <2>2, <2>3, <2>4 DEF FinalizeLabels
<1>11. ASSUME NEW d \in Drainers, Drain(d)
       PROVE  Closing'
    BY <1>11 DEF Drain, FacadeRests
<1>12. CASE UNCHANGED vars
    BY <1>12 DEF vars
<1> QED
    BY <1>1, <1>2, <1>3, <1>4, <1>5, <1>6, <1>7, <1>8, <1>9, <1>10, <1>11, <1>12
    DEF Next, CallerStep, ReadLoopStep, ShutdownStep

(* connectReady is replaced before it is closed again. *)
LEMMA ReadyStep ==
    ASSUME Recommended, FacadeTypes, FacadeTypes', OneSession, StopperLate, ReadyFresh,
           connectReady \in Nat, closedReady \subseteq 0..connectReady, [Next]_vars
    PROVE  ReadyFresh'
<1> USE ProcessesAssumption DEF Recommended, fields, sockets, labels, usage, queueVars,
        gateVars, FacadeTypes, ReadyFresh, EarlyLabels, CallerLabels
<1>1. ASSUME NEW c \in Callers, CallConnect(c)
      PROVE  ReadyFresh'
    BY <1>1 DEF CallConnect, Call, Goto, OneSession, StopperLate, TakenLabels,
       EarlyLabels, Up, Over, OpenLabels, Calling, Phase, Busy, CallerLabels,
       FinalizeLabels
<1>2. ASSUME NEW c \in Callers, CallReconnect(c)
      PROVE  ReadyFresh'
    BY <1>2 DEF CallReconnect, Call, Goto, OneSession, StopperLate, TakenLabels,
       EarlyLabels, Up, Over, OpenLabels, Calling, Phase, Busy, CallerLabels,
       FinalizeLabels
<1>3. ASSUME NEW c \in Callers, BeginClientDial(c)
      PROVE  ReadyFresh'
    BY <1>3 DEF BeginClientDial, OnlyState, Goto, OneSession, StopperLate, TakenLabels,
       EarlyLabels, Up, Over, OpenLabels, Calling, Phase, Busy, CallerLabels,
       FinalizeLabels
<1>4. ASSUME NEW c \in Callers, CloseOld(c)
      PROVE  ReadyFresh'
    BY <1>4 DEF CloseOld, Goto, OneSession, StopperLate, TakenLabels, EarlyLabels, Up,
       Over, OpenLabels, Calling, Phase, Busy, CallerLabels, FinalizeLabels
<1>5. ASSUME NEW c \in Callers, ReplaceConnectReady(c)
      PROVE  ReadyFresh'
    BY <1>5 DEF ReplaceConnectReady, Queue!ReplaceReady, Goto, OneSession, StopperLate,
       TakenLabels, EarlyLabels, Up, Over, OpenLabels, Calling, Phase, Busy,
       CallerLabels, FinalizeLabels
<1>6. ASSUME NEW c \in Callers, DialFails(c)
      PROVE  ReadyFresh'
    BY <1>6 DEF DialFails, Goto
<1>7. ASSUME NEW c \in Callers, DialSucceeds(c)
      PROVE  ReadyFresh'
    BY <1>7 DEF DialSucceeds, Goto, Fresh, OneSession, StopperLate, TakenLabels,
       EarlyLabels, Up, Over, OpenLabels, Calling, Phase, Busy, CallerLabels,
       FinalizeLabels
<1>8. ASSUME NEW c \in Callers, OpenSeen(c)
      PROVE  ReadyFresh'
    BY <1>8 DEF OpenSeen, OnlyState, Goto, OneSession, StopperLate, TakenLabels,
       EarlyLabels, Up, Over, OpenLabels, Calling, Phase, Busy, CallerLabels,
       FinalizeLabels
<1>9. ASSUME NEW c \in Callers, OpenTimesOut(c)
      PROVE  ReadyFresh'
    BY <1>9 DEF OpenTimesOut, Goto
<1>10. ASSUME NEW c \in Callers, ReturnError(c)
       PROVE  ReadyFresh'
    BY <1>10 DEF ReturnError, OnlyState, Goto
<1>11. ASSUME NEW c \in Callers, Close(c)
       PROVE  ReadyFresh'
    BY <1>11 DEF Close, Goto
<1>12. ASSUME NEW s \in Sockets, StoreTransport(s)
       PROVE  ReadyFresh'
    BY <1>12 DEF StoreTransport, ReadLoop
<1>13. ASSUME NEW s \in Sockets, SetAlive(s)
       PROVE  ReadyFresh'
    BY <1>13 DEF SetAlive, ReadLoop
<1>14. ASSUME NEW s \in Sockets, SetConnected(s)
       PROVE  ReadyFresh'
    BY <1>14 DEF SetConnected, ReadLoop
<1>15. ASSUME NEW s \in Sockets, StartHeartbeat(s)
       PROVE  ReadyFresh'
    BY <1>15 DEF StartHeartbeat, Heartbeat!StartClientHeartbeat, ReadLoop
<1>16. ASSUME NEW s \in Sockets, EnterPool(s)
       PROVE  ReadyFresh'
    BY <1>16 DEF EnterPool, ReadLoop
<1>17. ASSUME NEW s \in Sockets, CloseOpened(s)
       PROVE  ReadyFresh'
    BY <1>17 DEF CloseOpened, ReadLoop
<1>18. ASSUME NEW s \in Sockets, CloseConnectReady(s)
       PROVE  ReadyFresh'
    BY <1>18 DEF CloseConnectReady, Queue!CloseReady, ReadLoop, OneSession, StopperLate,
       TakenLabels, EarlyLabels, Up, Over, OpenLabels, Calling, Phase, Busy,
       CallerLabels, FinalizeLabels
<1>19. ASSUME NEW s \in Sockets, DispatchConnect(s)
       PROVE  ReadyFresh'
    BY <1>19 DEF DispatchConnect, ReadLoop
<1>20. ASSUME NEW s \in Sockets, OnMessage(s)
       PROVE  ReadyFresh'
    BY <1>20 DEF OnMessage, ReadLoop
<1>21. ASSUME NEW s \in Sockets, ReadEnds(s)
       PROVE  ReadyFresh'
    BY <1>21 DEF ReadEnds, ReadLoop
<1>22. ASSUME NEW s \in Sockets, OnClose(s)
       PROVE  ReadyFresh'
    <2> USE <1>22 DEF OnClose, ReadLoop, FinalizeTransportClose, FinalizeFields,
            FinalizeDispatch, Follow, FinalizeOrder
    <2>1. CASE reader[s] \in {"checkCurrent", "takeAlive"}
        BY <2>1
    <2>2. CASE reader[s] \in {"stopHeartbeat", "clearTransport"}
        BY <2>2
    <2>3. CASE reader[s] \in {"setDisconnected", "leavePool"}
        BY <2>3
    <2>4. CASE reader[s] \in {"dispatchDisconnect", "dispatchError"}
        BY <2>4
    <2> QED
        BY <2>1, <2>2, <2>3, <2>4 DEF FinalizeLabels
<1>23. ASSUME NEW s \in Sockets, HeartbeatEnds(s)
       PROVE  ReadyFresh'
    BY <1>23 DEF HeartbeatEnds, Heartbeat!HeartbeatReturns, FacadeRests
<1>24. CASE BeginShutdown
    BY <1>24 DEF BeginShutdown, StopperGoto
<1>25. CASE SnapshotPool
    BY <1>25 DEF SnapshotPool, StopperGoto
<1>26. CASE VisitConnection
    BY <1>26 DEF VisitConnection, StopperGoto
<1>27. CASE LoadTransport
    BY <1>27 DEF LoadTransport, StopperGoto
<1>28. CASE CloseConnection
    BY <1>28 DEF CloseConnection, StopperGoto
<1>29. CASE FinalizeConnection
    <2> USE <1>29 DEF FinalizeConnection, StopperGoto, FinalizeTransportClose,
            FinalizeFields, FinalizeDispatch, Follow, FinalizeOrder
    <2>1. CASE stopper \in {"checkCurrent", "takeAlive"}
        BY <2>1
    <2>2. CASE stopper \in {"stopHeartbeat", "clearTransport"}
        BY <2>2
    <2>3. CASE stopper \in {"setDisconnected", "leavePool"}
        BY <2>3
    <2>4. CASE stopper \in {"dispatchDisconnect", "dispatchError"}
        BY <2>4
    <2> QED
        BY <2>1, <2>2, <2>3, <2>4 DEF FinalizeLabels
<1>30. CASE ResetListeners
    BY <1>30 DEF ResetListeners, StopperGoto
<1>31. CASE ConnectCallback
    BY <1>31 DEF ConnectCallback, FacadeRests
<1>32. ASSUME NEW d \in Drainers, Drain(d)
       PROVE  ReadyFresh'
    BY <1>32 DEF Drain, FacadeRests
<1>33. CASE UNCHANGED vars
    BY <1>33 DEF vars
<1> QED
    BY <1>1, <1>2, <1>3, <1>4, <1>5, <1>6, <1>7, <1>8, <1>9, <1>10, <1>11, <1>12, <1>13,
       <1>14, <1>15, <1>16, <1>17, <1>18, <1>19, <1>20, <1>21, <1>22, <1>23, <1>24,
       <1>25, <1>26, <1>27, <1>28, <1>29, <1>30, <1>31, <1>32, <1>33
    DEF Next, CallerStep, ReadLoopStep, ShutdownStep

(* Shutdown and the read loops only go on. *)
LEMMA OnwardStep ==
    ASSUME FacadeTypes, [Next]_vars
    PROVE  Onward
<1> USE ProcessesAssumption DEF Onward, Past, UnopenedLabels, fields, sockets, labels,
        usage, FacadeTypes, OpenLabels, FinalizeLabels
<1>1. ASSUME NEW c \in Callers, CallConnect(c) \/ CallReconnect(c)
                                \/ BeginClientDial(c) \/ CloseOld(c)
      PROVE  Onward
    BY <1>1 DEF CallConnect, Call, Goto, CallReconnect, BeginClientDial, OnlyState,
       CloseOld
<1>2. ASSUME NEW c \in Callers, ReplaceConnectReady(c) \/ DialFails(c)
                                \/ DialSucceeds(c) \/ OpenSeen(c)
      PROVE  Onward
    BY <1>2 DEF ReplaceConnectReady, Queue!ReplaceReady, Goto, DialFails, DialSucceeds,
       Fresh, OpenSeen, OnlyState
<1>3. ASSUME NEW c \in Callers, OpenTimesOut(c) \/ ReturnError(c) \/ Close(c)
      PROVE  Onward
    BY <1>3 DEF OpenTimesOut, Goto, ReturnError, OnlyState, Close
<1>4. ASSUME NEW s \in Sockets, StoreTransport(s) \/ SetAlive(s) \/ SetConnected(s)
                                \/ StartHeartbeat(s)
      PROVE  Onward
    BY <1>4 DEF StoreTransport, ReadLoop, SetAlive, SetConnected, StartHeartbeat,
       Heartbeat!StartClientHeartbeat
<1>5. ASSUME NEW s \in Sockets, EnterPool(s) \/ CloseOpened(s)
                                \/ CloseConnectReady(s) \/ DispatchConnect(s)
      PROVE  Onward
    BY <1>5 DEF EnterPool, ReadLoop, CloseOpened, CloseConnectReady, Queue!CloseReady,
       DispatchConnect
<1>6. ASSUME NEW s \in Sockets, OnMessage(s) \/ ReadEnds(s) \/ HeartbeatEnds(s)
      PROVE  Onward
    BY <1>6 DEF OnMessage, ReadLoop, ReadEnds, HeartbeatEnds, Heartbeat!HeartbeatReturns,
       FacadeRests
<1>7. ASSUME NEW s \in Sockets, OnClose(s)
      PROVE  Onward
    <2> USE <1>7 DEF OnClose, ReadLoop, FinalizeTransportClose, FinalizeFields,
            FinalizeDispatch, Follow, FinalizeOrder
    <2>1. CASE reader[s] \in {"checkCurrent", "takeAlive"}
        BY <2>1
    <2>2. CASE reader[s] \in {"stopHeartbeat", "clearTransport"}
        BY <2>2
    <2>3. CASE reader[s] \in {"setDisconnected", "leavePool"}
        BY <2>3
    <2>4. CASE reader[s] \in {"dispatchDisconnect", "dispatchError"}
        BY <2>4
    <2> QED
        BY <2>1, <2>2, <2>3, <2>4 DEF FinalizeLabels
<1>8. CASE BeginShutdown \/ SnapshotPool \/ VisitConnection \/ LoadTransport
    BY <1>8 DEF BeginShutdown, StopperGoto, SnapshotPool, VisitConnection, LoadTransport
<1>9. CASE CloseConnection \/ ResetListeners \/ ConnectCallback
    BY <1>9 DEF CloseConnection, StopperGoto, ResetListeners, ConnectCallback, FacadeRests
<1>10. CASE FinalizeConnection
    BY <1>10 DEF FinalizeConnection, StopperGoto, FinalizeTransportClose, FinalizeFields
<1>11. ASSUME NEW d \in Drainers, Drain(d)
       PROVE  Onward
    BY <1>11 DEF Drain, FacadeRests
<1>12. CASE UNCHANGED vars
    BY <1>12 DEF vars
<1> QED
    BY <1>1, <1>2, <1>3, <1>4, <1>5, <1>6, <1>7, <1>8, <1>9, <1>10, <1>11, <1>12
    DEF Next, CallerStep, ReadLoopStep, ShutdownStep

(* What each step queues, and what it finishes. *)
LEMMA EnqueueStep ==
    ASSUME Recommended, FacadeTypes, FacadeTypes', OneSession, StopperLate, Fields,
           [Next]_vars
    PROVE  QueueStep
<1> USE ProcessesAssumption DEF fields, sockets, labels, usage, FacadeTypes,
        Recommended, TakenLabels, EarlyLabels, Up, Over, OpenLabels, Calling, Phase,
        Busy, CallerLabels, FinalizeLabels, QueueStep, Past, UnopenedLabels, Finished,
        OneSession, StopperLate, Fields, Queue!DispatchEvent, Queue!EnqueueEvent,
        Queue!InvokeInGoroutine, Queue!ShouldQueueEvent, Queue!QueuedKinds,
        Queue!producerVars, producerVars, queueVars, gateVars, drainerVars
<1>1. ASSUME NEW c \in Callers, CallConnect(c) \/ CallReconnect(c)
                                \/ BeginClientDial(c) \/ CloseOld(c)
      PROVE  QueueStep
    BY <1>1 DEF CallConnect, Call, Goto, CallReconnect, BeginClientDial, OnlyState,
       CloseOld
<1>2. ASSUME NEW c \in Callers, ReplaceConnectReady(c) \/ DialFails(c)
                                \/ DialSucceeds(c) \/ OpenSeen(c)
      PROVE  QueueStep
    BY <1>2 DEF ReplaceConnectReady, Queue!ReplaceReady, Goto, DialFails, DialSucceeds,
       Fresh, OpenSeen, OnlyState
<1>3. ASSUME NEW c \in Callers, OpenTimesOut(c) \/ ReturnError(c) \/ Close(c)
      PROVE  QueueStep
    BY <1>3 DEF OpenTimesOut, Goto, ReturnError, OnlyState, Close
<1>4. ASSUME NEW s \in Sockets, StoreTransport(s) \/ SetAlive(s) \/ SetConnected(s)
                                \/ StartHeartbeat(s)
      PROVE  QueueStep
    BY <1>4 DEF StoreTransport, ReadLoop, SetAlive, SetConnected, StartHeartbeat,
       Heartbeat!StartClientHeartbeat
<1>5. ASSUME NEW s \in Sockets, EnterPool(s) \/ CloseOpened(s)
                                \/ CloseConnectReady(s) \/ DispatchConnect(s)
      PROVE  QueueStep
    BY <1>5 DEF EnterPool, ReadLoop, CloseOpened, CloseConnectReady, Queue!CloseReady,
       DispatchConnect
<1>6. ASSUME NEW s \in Sockets, OnMessage(s)
      PROVE  QueueStep
    <2>1. enqueued' = Append(enqueued, [kind |-> "message", tag |-> s])
        BY <1>6 DEF OnMessage, ReadLoop, Queue!EnqueueEvent
    <2>2. Past(s) /\ (~isShutdown => ~Finished(s))
        BY <1>6 DEF OnMessage, ReadLoop
    <2>3. \A t \in Sockets : Finished(t)' <=> Finished(t)
        BY <1>6 DEF OnMessage, ReadLoop
    <2> QED
        BY <2>1, <2>2, <2>3
<1>7. ASSUME NEW s \in Sockets, ReadEnds(s) \/ HeartbeatEnds(s)
      PROVE  QueueStep
    BY <1>7 DEF ReadEnds, ReadLoop, HeartbeatEnds, Heartbeat!HeartbeatReturns, FacadeRests
<1>8. ASSUME NEW s \in Sockets, OnClose(s)
      PROVE  QueueStep
    <2> USE <1>8 DEF OnClose, ReadLoop, FinalizeTransportClose, FinalizeFields,
            FinalizeDispatch, Follow, FinalizeOrder
    <2>1. CASE reader[s] = "checkCurrent"
        BY <2>1
    <2>2. CASE reader[s] = "takeAlive"
        BY <2>2
    <2>3. CASE reader[s] = "stopHeartbeat"
        BY <2>3
    <2>4. CASE reader[s] = "clearTransport"
        BY <2>4
    <2>5. CASE reader[s] = "setDisconnected"
        BY <2>5
    <2>6. CASE reader[s] = "leavePool"
        BY <2>6
    <2>7. CASE reader[s] = "dispatchDisconnect"
        <3>1. /\ s \in Sockets
              /\ enqueued' = Append(enqueued, [kind |-> "disconnect", tag |-> s])
            BY <2>7
        <3>2. /\ Finished(s)' /\ ~Finished(s)
              /\ \A t \in Sockets \ {s} : Finished(t)' <=> Finished(t)
            BY <2>7
        <3>3. \A t \in Sockets \ {s} : Past(t) /\ ~isShutdown => Finished(t)
            BY <2>7
        <3> HIDE DEF Finished, Past
        <3> QED
            BY <3>1, <3>2, <3>3
    <2>8. CASE reader[s] = "dispatchError"
        BY <2>8
    <2> QED
        BY <2>1, <2>2, <2>3, <2>4, <2>5, <2>6, <2>7, <2>8 DEF FinalizeLabels
<1>9. CASE BeginShutdown \/ SnapshotPool \/ VisitConnection \/ LoadTransport
    BY <1>9 DEF BeginShutdown, StopperGoto, SnapshotPool, VisitConnection, LoadTransport
<1>10. CASE CloseConnection \/ ResetListeners
    BY <1>10 DEF CloseConnection, StopperGoto, ResetListeners
<1>11. CASE FinalizeConnection
    <2> USE <1>11 DEF FinalizeConnection, StopperGoto, FinalizeTransportClose,
            FinalizeFields, FinalizeDispatch, Follow, FinalizeOrder
    <2>1. CASE stopper = "checkCurrent"
        BY <2>1
    <2>2. CASE stopper = "takeAlive"
        <3>1. CASE alive
            BY <2>2, <3>1
        <3>2. CASE ~alive
            <4>1. enqueued' = enqueued
                BY <2>2, <3>2
            <4>2. reader[stopping] \in TakenLabels \cup {"dispatchError", "done"}
                BY <2>2, <3>2
            <4> QED
                BY <2>2, <3>2, <4>1, <4>2
        <3> QED
            BY <3>1, <3>2
    <2>3. CASE stopper \in {"stopHeartbeat", "clearTransport"}
        BY <2>3
    <2>4. CASE stopper \in {"setDisconnected", "leavePool"}
        BY <2>4
    <2>5. CASE stopper = "dispatchDisconnect"
        <3>1. /\ stopping \in Sockets
              /\ enqueued' = Append(enqueued, [kind |-> "disconnect", tag |-> stopping])
            BY <2>5
        <3>2. /\ Finished(stopping)' /\ ~Finished(stopping)
              /\ \A t \in Sockets \ {stopping} : Finished(t)' <=> Finished(t)
            BY <2>5
        <3>3. \A t \in Sockets \ {stopping} : Past(t) /\ ~isShutdown => Finished(t)
            BY <2>5
        <3> HIDE DEF Finished, Past
        <3> QED
            BY <3>1, <3>2, <3>3
    <2> QED
        BY <2>1, <2>2, <2>3, <2>4, <2>5 DEF FinalizeLabels
<1>12. CASE ConnectCallback
    BY <1>12 DEF ConnectCallback, FacadeRests, Queue!ConnectCallbackReturns
<1>13. ASSUME NEW d \in Drainers, Drain(d)
       PROVE  QueueStep
    BY <1>13 DEF Drain, FacadeRests, Queue!DrainerStep, Queue!ReadReady, Queue!PassReady,
       Queue!TakeEvent, Queue!StopDraining, Queue!CallbacksReturn
<1>14. CASE UNCHANGED vars
    BY <1>14 DEF vars
<1> QED
    BY <1>1, <1>2, <1>3, <1>4, <1>5, <1>6, <1>7, <1>8, <1>9, <1>10, <1>11, <1>12, <1>13,
       <1>14
    DEF Next, CallerStep, ReadLoopStep, ShutdownStep

(* Disconnects are queued once, when their session has finished. *)
LEMMA ReportedStep ==
    ASSUME enqueued \in Seq(Queue!Event), Reported, QueueStep
    PROVE  Reported'
<1>1. ASSUME UNCHANGED enqueued
      PROVE  \A t \in Sockets : Reports(t)' = Reports(t)
    BY <1>1 DEF Reports
<1>2. ASSUME NEW e \in Queue!Event, enqueued' = Append(enqueued, e), NEW t \in Sockets
      PROVE  /\ Len(enqueued) \in Nat
             /\ Len(enqueued)' = Len(enqueued) + 1
             /\ e # [kind |-> "disconnect", tag |-> t] => Reports(t)' = Reports(t)
             /\ e = [kind |-> "disconnect", tag |-> t] =>
                    Reports(t)' = Reports(t) \cup {Len(enqueued) + 1}
    <2>1. /\ Len(enqueued) \in Nat
          /\ Len(enqueued)' = Len(enqueued) + 1
          /\ \A i \in 1..Len(enqueued) : enqueued'[i] = enqueued[i]
          /\ enqueued'[Len(enqueued) + 1] = e
        BY <1>2, AppendProperties
    <2> QED
        BY <2>1 DEF Reports
<1>3. \A s \in Sockets, kind \in {"message", "error", "disconnect"} :
          [kind |-> kind, tag |-> s] \in Queue!Event
    BY DEF Queue!Event, Kinds
<1>4. CASE UNCHANGED enqueued /\ \A t \in Sockets : Finished(t)' <=> Finished(t)
    BY <1>1, <1>4 DEF Reported
<1>5. ASSUME NEW s \in Sockets, NEW kind \in {"message", "error"},
             enqueued' = Append(enqueued, [kind |-> kind, tag |-> s]),
             \A t \in Sockets : Finished(t)' <=> Finished(t)
      PROVE  Reported'
    <2>1. \A t \in Sockets : Reports(t)' = Reports(t)
        BY <1>2, <1>3, <1>5
    <2>2. Len(enqueued) \in Nat /\ Len(enqueued)' = Len(enqueued) + 1
        BY <1>2, <1>3, <1>5
    <2> QED
        BY <1>5, <2>1, <2>2 DEF Reported
<1>6. ASSUME NEW s \in Sockets,
             enqueued' = Append(enqueued, [kind |-> "disconnect", tag |-> s]),
             Finished(s)', ~Finished(s),
             \A t \in Sockets \ {s} : Finished(t)' <=> Finished(t)
      PROVE  Reported'
    <2>1. /\ \A t \in Sockets \ {s} : Reports(t)' = Reports(t)
          /\ Reports(s)' = Reports(s) \cup {Len(enqueued) + 1}
          /\ Len(enqueued) \in Nat /\ Len(enqueued)' = Len(enqueued) + 1
        BY <1>2, <1>3, <1>6
    <2> QED
        BY <1>6, <2>1 DEF Reported
<1> QED
    BY <1>4, <1>5, <1>6 DEF QueueStep

(* A message is queued between the disconnects of the sessions before it and its own. *)
LEMMA MessageFirstStep ==
    ASSUME enqueued \in Seq(Queue!Event), Reported, MessageFirst, QueueStep,
           Onward
    PROVE  MessageFirst'
<1> SUFFICES ASSUME ~isShutdown'
             PROVE  MessageFirst'
    BY DEF MessageFirst
<1>1. ~isShutdown /\ \A t \in Sockets : Past(t) => Past(t)'
    BY DEF Onward
<1>2. \A j \in 1..Len(enqueued) : enqueued[j] \in Queue!Event
    OBVIOUS
<1>3. \A j \in 1..Len(enqueued) : enqueued[j].tag \in Sockets
    BY <1>2 DEF Queue!Event
<1>4. \A j \in 1..Len(enqueued) :
          enqueued[j] = [kind |-> enqueued[j].kind, tag |-> enqueued[j].tag]
    BY <1>2 DEF Queue!Event
<1>5. ASSUME NEW e \in Queue!Event, enqueued' = Append(enqueued, e)
      PROVE  /\ Len(enqueued) \in Nat
             /\ Len(enqueued)' = Len(enqueued) + 1
             /\ \A i \in 1..Len(enqueued) : enqueued'[i] = enqueued[i]
             /\ enqueued'[Len(enqueued) + 1] = e
    BY <1>5, AppendProperties
<1>6. \A s \in Sockets, kind \in {"message", "error", "disconnect"} :
          [kind |-> kind, tag |-> s] \in Queue!Event
    BY DEF Queue!Event, Kinds
<1>7. CASE UNCHANGED enqueued /\ \A t \in Sockets : Finished(t)' <=> Finished(t)
    BY <1>1, <1>3, <1>7 DEF MessageFirst
<1>8. ASSUME NEW s \in Sockets, NEW kind \in {"message", "error"},
             enqueued' = Append(enqueued, [kind |-> kind, tag |-> s]),
             kind = "message" /\ ~isShutdown => Past(s) /\ ~Finished(s),
             \A t \in Sockets : Finished(t)' <=> Finished(t)
      PROVE  MessageFirst'
    <2>1. kind = "message" =>
             \A i \in 1..Len(enqueued) : enqueued[i] # [kind |-> "disconnect", tag |-> s]
        BY <1>1, <1>8 DEF Reported, Reports
    <2>2. kind = "message" => \A i \in 1..Len(enqueued) :
             enqueued[i].kind = "disconnect" => enqueued[i].tag # s
        BY <2>1, <1>4
    <2> DEFINE e == [kind |-> kind, tag |-> s]
    <2>3. /\ Len(enqueued) \in Nat
          /\ Len(enqueued)' = Len(enqueued) + 1
          /\ \A i \in 1..Len(enqueued) : enqueued'[i] = enqueued[i]
          /\ enqueued'[Len(enqueued) + 1] = e
          /\ e.kind = kind /\ e.tag = s
        BY <1>5, <1>6, <1>8
    <2> HIDE DEF e
    <2> QED
        BY <1>1, <1>3, <1>8, <2>2, <2>3 DEF MessageFirst
<1>9. ASSUME NEW s \in Sockets,
             enqueued' = Append(enqueued, [kind |-> "disconnect", tag |-> s]),
             Finished(s)', ~Finished(s),
             \A t \in Sockets \ {s} :
                   /\ Finished(t)' <=> Finished(t)
                   /\ Past(t) /\ ~isShutdown => Finished(t)
      PROVE  MessageFirst'
    <2> DEFINE e == [kind |-> "disconnect", tag |-> s]
    <2>1. /\ Len(enqueued) \in Nat
          /\ Len(enqueued)' = Len(enqueued) + 1
          /\ \A i \in 1..Len(enqueued) : enqueued'[i] = enqueued[i]
          /\ enqueued'[Len(enqueued) + 1] = e
          /\ e.kind = "disconnect" /\ e.tag = s
        BY <1>5, <1>6, <1>9
    <2>2. e = [kind |-> "disconnect", tag |-> s]
        OBVIOUS
    <2> HIDE DEF e
    <2>3. ASSUME NEW j \in 1..Len(enqueued), enqueued[j].kind = "message"
          PROVE  /\ Past(enqueued[j].tag)'
                 /\ \E k \in (j + 1)..(Len(enqueued) + 1) :
                        enqueued'[k] = [kind |-> "disconnect", tag |-> enqueued[j].tag]
        <3>1. CASE enqueued[j].tag = s
            BY <1>1, <1>3, <2>1, <2>2, <2>3, <3>1 DEF MessageFirst
        <3>2. CASE enqueued[j].tag # s
            BY <1>1, <1>3, <1>9, <2>1, <2>3, <3>2 DEF MessageFirst
        <3> QED
            BY <3>1, <3>2
    <2>4. ASSUME NEW j \in 1..Len(enqueued'), enqueued'[j].kind = "message"
          PROVE  /\ j \in 1..Len(enqueued) /\ enqueued'[j] = enqueued[j]
                 /\ Past(enqueued[j].tag)'
                 /\ \E k \in (j + 1)..Len(enqueued') :
                        enqueued'[k] = [kind |-> "disconnect", tag |-> enqueued'[j].tag]
        <3>1. j \in 1..Len(enqueued) /\ enqueued'[j] = enqueued[j]
            BY <2>1, <2>4
        <3> QED
            BY <2>1, <2>3, <2>4, <3>1
    <2>5. ASSUME NEW i \in 1..Len(enqueued'), NEW j \in 1..Len(enqueued'),
                 enqueued'[i].kind = "disconnect", enqueued'[j].kind = "message"
          PROVE  \/ i < j /\ enqueued'[i].tag # enqueued'[j].tag
                 \/ i > j /\ \E k \in (j + 1)..i :
                       enqueued'[k] = [kind |-> "disconnect", tag |-> enqueued'[j].tag]
        <3>1. CASE i \in 1..Len(enqueued)
            BY <1>1, <2>1, <2>4, <2>5, <3>1 DEF MessageFirst
        <3>2. CASE i = Len(enqueued')
            BY <2>1, <2>4, <2>5, <3>2
        <3> QED
            BY <2>1, <3>1, <3>2
    <2> QED
        BY <2>4, <2>5 DEF MessageFirst
<1> QED
    BY <1>7, <1>8, <1>9 DEF QueueStep

-----------------------------------------------------------------------------
(***************************************************************************)
(* The invariant of the recommended use.                                   *)
(***************************************************************************)
UseInv ==
    /\ OneSession
    /\ StopperLate
    /\ Fields
    /\ Closing
    /\ ReadyFresh
    /\ Reported
    /\ MessageFirst

(* What has been delivered is how the queued events begin, and what a drainer holds
   has been queued. *)
LEMMA DeliveredFirst ==
    ASSUME QueueProofs!IInv
    PROVE  /\ enqueued \in Seq(Queue!Event)
           /\ Len(delivered) \in Nat /\ Len(enqueued) \in Nat
           /\ Len(delivered) <= Len(enqueued)
           /\ \A i \in 1..Len(delivered) : delivered[i] = enqueued[i]
           /\ \A d \in Drainers : drainer[d] = "invoke" =>
                 \E i \in 1..Len(enqueued) : enqueued[i] = taken[d]
<1>1. /\ delivered \in Seq(Queue!Event) /\ eventQueue \in Seq(Queue!Event)
      /\ enqueued \in Seq(Queue!Event)
      /\ enqueued = delivered \o QueueProofs!InFlight \o eventQueue
    BY DEF QueueProofs!IInv, QueueProofs!TypeOK, QueueProofs!SerialFIFO,
       QueueProofs!Event, Queue!Event
<1>2. \A d \in Drainers : drainer[d] = "invoke" <=> d \in QueueProofs!Invoking
    BY DEF QueueProofs!Invoking
<1>3. /\ QueueProofs!Invoking = {} => QueueProofs!InFlight = <<>>
      /\ \A d \in QueueProofs!Invoking :
            QueueProofs!InFlight = <<taken[d]>> /\ taken[d] \in Queue!Event
    <2>1. \A d1, d2 \in QueueProofs!Invoking : d1 = d2
        BY DEF QueueProofs!Invoking, QueueProofs!IInv, QueueProofs!SingleDrainer,
           QueueProofs!Active
    <2> QED
        BY <2>1 DEF QueueProofs!InFlight, QueueProofs!IInv, QueueProofs!TakenIsEvent,
           QueueProofs!Event, Queue!Event
<1>4. QueueProofs!InFlight \in Seq(Queue!Event)
    <2>1. <<>> \in Seq(Queue!Event) /\ \A e \in Queue!Event : <<e>> \in Seq(Queue!Event)
        OBVIOUS
    <2> QED
        BY <1>3, <2>1
<1>5. PICK r \in Seq(Queue!Event) : r = delivered \o QueueProofs!InFlight
    BY <1>1, <1>4, ConcatProperties
<1>6. /\ Len(r) = Len(delivered) + Len(QueueProofs!InFlight)
      /\ \A i \in 1..Len(delivered) : r[i] = delivered[i]
      /\ \A i \in 1..Len(QueueProofs!InFlight) :
            r[Len(delivered) + i] = QueueProofs!InFlight[i]
    BY <1>1, <1>4, <1>5
<1>7. /\ Len(enqueued) = Len(r) + Len(eventQueue)
      /\ \A i \in 1..Len(r) : enqueued[i] = r[i]
    BY <1>1, <1>5
<1>8. /\ Len(delivered) \in Nat /\ Len(QueueProofs!InFlight) \in Nat
      /\ Len(eventQueue) \in Nat /\ Len(enqueued) \in Nat
    BY <1>1, <1>4
<1>9. ASSUME NEW d \in Drainers, drainer[d] = "invoke"
      PROVE  \E i \in 1..Len(enqueued) : enqueued[i] = taken[d]
    <2>1. Len(QueueProofs!InFlight) = 1 /\ QueueProofs!InFlight[1] = taken[d]
        BY <1>2, <1>3, <1>9
    <2>2. /\ Len(delivered) + 1 \in 1..Len(enqueued)
          /\ enqueued[Len(delivered) + 1] = taken[d]
        BY <1>6, <1>7, <1>8, <2>1
    <2> QED
        BY <2>2
<1>10. \A i \in 1..Len(delivered) : delivered[i] = enqueued[i]
    BY <1>6, <1>7, <1>8
<1>11. Len(delivered) <= Len(enqueued)
    BY <1>6, <1>7, <1>8
<1> QED
    BY <1>1, <1>8, <1>9, <1>10, <1>11

(* Whoever is told of a disconnect is told by the event that was queued. *)
LEMMA ToldIsReported ==
    ASSUME QueueProofs!IInv, Reported
    PROVE  ToldReported
<1> SUFFICES ASSUME NEW s \in Sockets, Told(s)
             PROVE  Finished(s)
    BY DEF ToldReported
<1>1. \E i \in 1..Len(enqueued) : enqueued[i] = [kind |-> "disconnect", tag |-> s]
    BY DeliveredFirst DEF Told
<1> QED
    BY <1>1 DEF Reported, Reports

(* The facade starts with the invariant. *)
LEMMA InitUse == Init => UseInv
<1> SUFFICES ASSUME Init
             PROVE  UseInv
    OBVIOUS
<1> USE ProcessesAssumption DEF Init
<1>1. \A s \in Sockets : Phase(s) = "none" /\ ~Busy(s) /\ ~Finished(s) /\ reader[s] = "none"
    BY DEF Phase, Busy, Finished, TakenLabels, Over
<1>2. \A c \in Callers : caller[c] = "idle"
    OBVIOUS
<1>3. Len(enqueued) = 0
    BY DEF Queue!Init
<1>4. OneSession
    BY <1>1, <1>2 DEF OneSession, Calling, EarlyLabels
<1>5. StopperLate
    BY <1>1, <1>2 DEF StopperLate, Calling, EarlyLabels, FinalizeLabels, TakenLabels
<1>6. Fields
    BY <1>1 DEF Fields, Up, EarlyLabels, Heartbeat!Init
<1>7. Closing
    BY <1>1 DEF Closing, Up
<1>8. ReadyFresh
    BY <1>1, <1>2 DEF ReadyFresh, EarlyLabels, Queue!Init
<1>9. Reported /\ MessageFirst
    BY <1>1, <1>3 DEF Reported, Reports, MessageFirst
<1> QED
    BY <1>4, <1>5, <1>6, <1>7, <1>8, <1>9 DEF UseInv

(* Every step of the recommended use keeps the invariant. *)
LEMMA UseStep ==
    ASSUME Recommended, SafeInv, UseInv, [Next]_vars
    PROVE  UseInv'
<1> USE DEF UseInv
<1>1. FacadeTypes /\ FacadeTypes' /\ QueueProofs!IInv
    BY SafeStep DEF SafeInv
<1>2. ToldReported
    BY <1>1, ToldIsReported
<1>4. /\ enqueued \in Seq(Queue!Event)
      /\ connectReady \in Nat /\ closedReady \subseteq 0..connectReady
    BY <1>1, DeliveredFirst DEF QueueProofs!IInv, QueueProofs!TypeOK
<1>5. OneSession'
    BY <1>1, <1>2, SessionStep
<1>6. StopperLate'
    BY <1>1, <1>5, StopperStep
<1>7. Fields' /\ Closing'
    BY <1>1, FieldsStep, ClosingStep
<1>8. ReadyFresh'
    BY <1>1, <1>4, ReadyStep
<1>9. QueueStep /\ Onward
    BY <1>1, EnqueueStep, OnwardStep
<1>10. Reported' /\ MessageFirst'
    BY <1>4, <1>9, ReportedStep, MessageFirstStep
<1> QED
    BY <1>5, <1>6, <1>7, <1>8, <1>10

(* Used as recommended, the facade has one session at a time, its fields are a function
   of how far that session has got, and it has reported every session before it. *)
THEOREM UseInvariance ==
    ASSUME Recommended
    PROVE  Spec => [](SafeInv /\ UseInv)
<1>1. SafeInv /\ UseInv /\ [Next]_vars => SafeInv' /\ UseInv'
    BY SafeStep, UseStep
<1> QED
    BY <1>1, InitSafe, InitUse, PTL DEF Spec

(* No interleaving of the caller, the read loops and Shutdown closes connectReady a
   second time. *)
THEOREM NeverPanics ==
    ASSUME Recommended
    PROVE  Spec => []NoCrash
<1>1. UseInv => NoCrash
    BY DEF UseInv, ReadyFresh, NoCrash
<1> QED
    BY <1>1, UseInvariance, PTL

(* Where a session is when nobody is inside a handler or a call. *)
LEMMA QuietPhase ==
    ASSUME Quiet, NEW s \in Sockets
    PROVE  /\ Phase(s) \in {"none", "reading", "done"}
           /\ Phase(s) = "reading" => reader[s] = "reading"
           /\ reader[s] = "reading" => \/ Phase(s) = "reading"
                                       \/ stopping = s /\ stopper = "done"
           /\ reader[s] = "done" => Phase(s) = "done"
BY DEF Quiet, Phase, TakenLabels

(* The fields tell one story whenever nobody is changing them. *)
THEOREM FieldsAgree ==
    ASSUME Recommended
    PROVE  Spec => []FacadeCoherent
<1>1. SafeInv /\ UseInv => FacadeCoherent
    <2> SUFFICES ASSUME SafeInv, UseInv, Quiet
                 PROVE  /\ alive <=> transport # NoSocket
                        /\ alive <=> clientState = "connected"
                        /\ alive <=> inPool
                        /\ heartbeatConn = transport
                        /\ alive => reader[transport] = "reading"
        BY DEF FacadeCoherent
    <2> USE QuietPhase DEF UseInv, Fields, Up, EarlyLabels
    <2>1. \A s \in Sockets : /\ transport = s <=> Phase(s) = "reading"
                             /\ heartbeatConn = s <=> Phase(s) = "reading"
        OBVIOUS
    <2>2. /\ transport \in Sockets \cup {NoSocket}
          /\ heartbeatConn \in Sockets \cup {NoSocket}
          /\ NoSocket \notin Sockets
        BY ProcessesAssumption
        DEF SafeInv, FacadeTypes, HeartbeatInv, Heartbeat!TypeOK
    <2>3. /\ alive <=> \E s \in Sockets : Phase(s) = "reading"
          /\ inPool <=> \E s \in Sockets : Phase(s) = "reading"
          /\ clientState = "connected" <=> \E s \in Sockets : Phase(s) = "reading"
        OBVIOUS
    <2> QED
        BY <2>1, <2>2, <2>3
<1> QED
    BY <1>1, UseInvariance, PTL

(* No session that lost its facade goes on receiving messages. *)
THEOREM NoSessionAstray ==
    ASSUME Recommended
    PROVE  Spec => []NoStraySession
<1>1. UseInv => NoStraySession
    <2> SUFFICES ASSUME UseInv, Quiet, NEW s \in Sockets, reader[s] = "reading",
                        s \notin closed
                 PROVE  transport = s
        BY DEF NoStraySession
    <2>1. Phase(s) = "reading"
        BY QuietPhase, ProcessesAssumption DEF UseInv, Closing, Up
    <2> QED
        BY <2>1 DEF UseInv, Fields, Up
<1> QED
    BY <1>1, UseInvariance, PTL

(* The disconnect of every session that has ended has been queued, once. *)
THEOREM DisconnectsReported ==
    ASSUME Recommended
    PROVE  Spec => []EverySessionReported
<1>1. UseInv => EverySessionReported
    <2> SUFFICES ASSUME UseInv, Quiet, NEW s \in Sockets, reader[s] = "done"
                 PROVE  Cardinality(Reports(s)) = 1
        BY DEF EverySessionReported
    <2>1. PICK i \in 1..Len(enqueued) : Reports(s) = {i}
        BY QuietPhase DEF UseInv, Reported, Finished
    <2> QED
        BY <2>1, FS_Singleton
<1> QED
    BY <1>1, UseInvariance, PTL

(* The application sees one session after the other. *)
THEOREM SessionsInOrder ==
    ASSUME Recommended
    PROVE  Spec => []SessionsDoNotMix
<1>1. SafeInv /\ UseInv => SessionsDoNotMix
    <2> SUFFICES ASSUME SafeInv, UseInv, ~isShutdown,
                        NEW i \in 1..Len(delivered), NEW j \in 1..Len(delivered),
                        delivered[i].kind = "disconnect", delivered[j].kind = "message"
                 PROVE  \/ i < j /\ delivered[i].tag # delivered[j].tag
                        \/ i > j /\ \E k \in (j + 1)..i :
                              delivered[k] = [kind |-> "disconnect", tag |-> delivered[j].tag]
        BY DEF SessionsDoNotMix
    <2>1. /\ Len(delivered) \in Nat /\ Len(enqueued) \in Nat
          /\ Len(delivered) <= Len(enqueued)
          /\ \A k \in 1..Len(delivered) : delivered[k] = enqueued[k]
        BY DeliveredFirst DEF SafeInv
    <2> QED
        BY <2>1 DEF UseInv, MessageFirst
<1> QED
    BY <1>1, UseInvariance, PTL
=============================================================================
