----------------------------- MODULE SessionPool -----------------------------
(***************************************************************************)
(* The routing table of a v2 SocketInstance (evsocket/v2/socketio.go:      *)
(* safePool, SetUUID, and the parts of OnOpen, finalizeTransportClose,     *)
(* Broadcast, EmitTo and Shutdown that use it).                            *)
(*                                                                         *)
(* The pool maps a UUID to a facade and has its own lock; a facade's UUID  *)
(* has another.  A facade enters under the UUID it has when a transport    *)
(* opens and leaves by the UUID it has when a transport closes, while      *)
(* SetUUID may rename it at any moment from any goroutine.                 *)
(*                                                                         *)
(* A facade has one transport after the other, but nothing makes the       *)
(* OnClose of one end before the OnOpen of the next begins.  Each store,   *)
(* compare-and-swap and critical section of the two that decides who is in *)
(* the pool is a step.                                                     *)
(***************************************************************************)
CONSTANTS
    Facades,    \* facades of the instance
    Transports, \* transports, one per successful handshake
    Of,         \* Of[t]: the facade transport t is made for
    Stopper,    \* the goroutine in Shutdown
    Ids,        \* UUIDs
    None,       \* nil
    InitialId,  \* InitialId[f]: the random UUID facade f is created with
    Wanted,     \* Wanted[f]: the UUIDs the application may give facade f
    Renamers,   \* facades renamed after they have opened as well as before
    Eager,      \* clients that dial again without waiting for OnDisconnected
    MayShutdown,\* whether the instance is shut down
    Broadcasters\* facades that call Broadcast

ASSUME PoolAssumption ==
    /\ None \notin Facades \cup Ids \cup Transports
    /\ Stopper \notin Transports
    /\ Of \in [Transports -> Facades]
    /\ InitialId \in [Facades -> Ids]
    /\ \A f, g \in Facades : InitialId[f] = InitialId[g] => f = g
    /\ Wanted \in [Facades -> SUBSET Ids]

VARIABLES
    pool,       \* pool[id]: the facade routed to by id, or None
    uuid,       \* uuid[f]
    alive,      \* facades whose field alive is true
    transport,  \* transport[f]
    at,         \* the step each read loop, and Shutdown, takes next
    leavingAs,  \* the UUID each has read for the entry it is going to delete, or None
    stopFor,    \* the facade Shutdown looks at, or None
    stopping,   \* the transport Shutdown loaded from it
    isShutdown,
    toClose,    \* facades Shutdown has snapshotted and not yet visited
    toSend,     \* what is left of each facade's Broadcast: pairs <<id, facade>>
    shared,     \* history: facades whose UUID ever was another one's too
    overtaken,  \* history: facades that were opened and finalized at once
    echoed      \* history: facades whose Broadcast(.., true) sent to themselves

fields == <<uuid, alive, transport>>
stopVars == <<stopFor, stopping, isShutdown, toClose>>
sendVars == <<toSend, echoed>>
vars == <<pool, fields, at, leavingAs, stopVars, sendVars, shared, overtaken>>

\* Who runs finalizeTransportClose.
Closers == Transports \cup {Stopper}

Init ==
    /\ pool = [id \in Ids |-> None]
    /\ uuid = InitialId
    /\ alive = {}
    /\ transport = [f \in Facades |-> None]
    /\ at = [p \in Closers |-> "idle"]
    /\ leavingAs = [p \in Closers |-> None]
    /\ stopFor = None
    /\ stopping = None
    /\ isShutdown = FALSE
    /\ toClose = {}
    /\ toSend = [f \in Facades |-> {}]
    /\ shared = {}
    /\ overtaken = {}
    /\ echoed = {}

Goto(p, from, to) ==
    /\ at[p] = from
    /\ at' = [at EXCEPT ![p] = to]

\* The facade and the transport closer p finalizes.
Owner(p) == IF p = Stopper THEN stopFor ELSE Of[p]
Socket(p) == IF p = Stopper THEN stopping ELSE p

TransportsOf(f) == {t \in Transports : Of[t] = f}

\* An OnOpen of facade f has begun, and the facade is not back in the pool yet.
Opening(f) == \E t \in TransportsOf(f) : at[t] \in {"setAlive", "enterPool"}

\* Somebody has taken alive from facade f and has not taken it out of the pool yet.
Finalizing(f) ==
    \E p \in Closers :
        Owner(p) = f /\ at[p] \in {"clearTransport", "readUUID", "leavePool"}

-----------------------------------------------------------------------------
(***************************************************************************)
(* SetUUID: the whole of it holds the pool's lock.                         *)
(***************************************************************************)
New(f) == \A t \in TransportsOf(f) : at[t] = "idle"

MaySet(f) == f \in Renamers \/ New(f)

\* Facade g has the UUID id, or was renamed after it was about to leave the pool
\* as id.
Claims(g, id) ==
    \/ uuid[g] = id
    \/ \E p \in Closers : Owner(p) = g /\ leavingAs[p] = id

\* Mutant: the old name stays in the pool.
SetKeepingOldName(f, id) ==
    /\ MaySet(f)
    /\ pool[id] \in {None, f}
    /\ pool' = [pool EXCEPT ![id] = f]
    /\ uuid' = [uuid EXCEPT ![f] = id]
    /\ UNCHANGED <<alive, transport, at, leavingAs, stopVars, sendVars, shared, overtaken>>

\* Refused, and without effect, while another facade is in the pool under id.
SetUUID(f, id) ==
    /\ MaySet(f)
    /\ pool[id] \in {None, f}
    /\ pool' = [pool EXCEPT ![uuid[f]] = None, ![id] = f]
    /\ uuid' = [uuid EXCEPT ![f] = id]
    /\ LET others == {g \in Facades \ {f} : Claims(g, id)}
       IN shared' = IF others = {} THEN shared ELSE shared \cup others \cup {f}
    /\ UNCHANGED <<alive, transport, at, leavingAs, stopVars, sendVars, overtaken>>

-----------------------------------------------------------------------------
(***************************************************************************)
(* A transport: the dial of Connect or Reconnect, or the server's upgrade, *)
(* looks at isShutdown when it is called and not again.  The read loop     *)
(* then runs OnOpen.  Who is not in Eager dials after OnDisconnected has   *)
(* been called, as MIGRATION.md advises; others call Reconnect on a live   *)
(* facade, or when IsAlive is false, or again when a dial has timed out.   *)
(***************************************************************************)
MayDial(f) ==
    f \in Eager \/ \A t \in TransportsOf(f) : at[t] \in {"idle", "over"}

Dial(t) ==
    /\ ~isShutdown
    /\ MayDial(Of[t])
    /\ Goto(t, "idle", "storeTransport")
    /\ UNCHANGED <<pool, fields, leavingAs, stopVars, sendVars, shared, overtaken>>

StoreTransport(t) ==
    /\ Goto(t, "storeTransport", "setAlive")
    /\ transport' = [transport EXCEPT ![Of[t]] = t]
    /\ overtaken' = IF Finalizing(Of[t]) THEN overtaken \cup {Of[t]} ELSE overtaken
    /\ UNCHANGED <<pool, uuid, alive, leavingAs, stopVars, sendVars, shared>>

SetAlive(t) ==
    /\ Goto(t, "setAlive", "enterPool")
    /\ alive' = alive \cup {Of[t]}
    /\ UNCHANGED <<pool, uuid, transport, leavingAs, stopVars, sendVars, shared, overtaken>>

\* Mutant: the facade enters under the UUID it was created with.
EnterAsCreated(t) ==
    /\ Goto(t, "enterPool", "reading")
    /\ pool' = [pool EXCEPT ![InitialId[Of[t]]] = Of[t]]
    /\ UNCHANGED <<fields, leavingAs, stopVars, sendVars, shared, overtaken>>

\* safePool.set reads the facade's UUID under the pool's lock.
EnterPool(t) ==
    /\ Goto(t, "enterPool", "reading")
    /\ pool' = [pool EXCEPT ![uuid[Of[t]]] = Of[t]]
    /\ UNCHANGED <<fields, leavingAs, stopVars, sendVars, shared, overtaken>>

\* External: the connection ends and gws calls OnClose.
ReadEnds(t) ==
    /\ Goto(t, "reading", "checkCurrent")
    /\ UNCHANGED <<pool, fields, leavingAs, stopVars, sendVars, shared, overtaken>>

-----------------------------------------------------------------------------
(***************************************************************************)
(* finalizeTransportClose, by the read loop or by Shutdown: only for the   *)
(* transport the facade holds, and only by the goroutine that takes alive. *)
(***************************************************************************)
Return(p) == IF p = Stopper THEN "next" ELSE "over"

CheckCurrent(p) ==
    LET current == Socket(p) # None /\ transport[Owner(p)] = Socket(p)
    IN /\ Goto(p, "checkCurrent", IF current THEN "takeAlive" ELSE Return(p))
       /\ UNCHANGED <<pool, fields, leavingAs, stopVars, sendVars, shared, overtaken>>

TakeAlive(p) ==
    LET f == Owner(p)
    IN /\ Goto(p, "takeAlive", IF f \in alive THEN "clearTransport" ELSE Return(p))
       /\ alive' = alive \ {f}
       /\ overtaken' = IF f \in alive /\ Opening(f) THEN overtaken \cup {f} ELSE overtaken
       /\ UNCHANGED <<pool, uuid, transport, leavingAs, stopVars, sendVars, shared>>

ClearTransport(p) ==
    /\ Goto(p, "clearTransport", "readUUID")
    /\ transport' = [transport EXCEPT ![Owner(p)] = None]
    /\ UNCHANGED <<pool, uuid, alive, leavingAs, stopVars, sendVars, shared, overtaken>>

ReadUUID(p) ==
    /\ Goto(p, "readUUID", "leavePool")
    /\ leavingAs' = [leavingAs EXCEPT ![p] = uuid[Owner(p)]]
    /\ UNCHANGED <<pool, fields, stopVars, sendVars, shared, overtaken>>

\* Mutant: the entry of the UUID it was created with is deleted.
LeaveAsCreated(p) ==
    /\ Goto(p, "leavePool", Return(p))
    /\ pool' = [pool EXCEPT ![InitialId[Owner(p)]] = None]
    /\ leavingAs' = [leavingAs EXCEPT ![p] = None]
    /\ UNCHANGED <<fields, stopVars, sendVars, shared, overtaken>>

\* The disconnect is queued after this step.
LeavePool(p) ==
    /\ Goto(p, "leavePool", Return(p))
    /\ pool' = [pool EXCEPT ![leavingAs[p]] = None]
    /\ leavingAs' = [leavingAs EXCEPT ![p] = None]
    /\ UNCHANGED <<fields, stopVars, sendVars, shared, overtaken>>

Finalize(p) ==
    \/ CheckCurrent(p)
    \/ TakeAlive(p)
    \/ ClearTransport(p)
    \/ ReadUUID(p)
    \/ LeavePool(p)

-----------------------------------------------------------------------------
(***************************************************************************)
(* Shutdown takes a snapshot of the pool and finalizes what is alive in    *)
(* it, one facade after another.                                           *)
(***************************************************************************)
Routed == {pool[id] : id \in Ids} \ {None}

BeginShutdown ==
    /\ MayShutdown
    /\ Goto(Stopper, "idle", "snapshot")
    /\ isShutdown' = TRUE
    /\ UNCHANGED <<pool, fields, leavingAs, stopFor, stopping, toClose, sendVars, shared,
                   overtaken>>

SnapshotPool ==
    /\ Goto(Stopper, "snapshot", "next")
    /\ toClose' = Routed
    /\ UNCHANGED <<pool, fields, leavingAs, stopFor, stopping, isShutdown, sendVars, shared,
                   overtaken>>

VisitConnection(f) ==
    /\ f \in toClose
    /\ Goto(Stopper, "next", IF f \in alive THEN "load" ELSE "next")
    /\ toClose' = toClose \ {f}
    /\ stopFor' = IF f \in alive THEN f ELSE None
    /\ UNCHANGED <<pool, fields, leavingAs, stopping, isShutdown, sendVars, shared, overtaken>>

LoadTransport ==
    /\ Goto(Stopper, "load", "checkCurrent")
    /\ stopping' = transport[stopFor]
    /\ UNCHANGED <<pool, fields, leavingAs, stopFor, isShutdown, toClose, sendVars, shared,
                   overtaken>>

-----------------------------------------------------------------------------
(***************************************************************************)
(* Broadcast(message, true) of facade f: a snapshot of the pool, then one  *)
(* session at a time, leaving out the entry of f's own UUID.               *)
(***************************************************************************)
Unsent == <<pool, fields, at, leavingAs, stopVars, shared, overtaken>>

CanSend(f) == transport[f] # None /\ f \in alive

BeginBroadcast(f) ==
    /\ f \in Broadcasters \cap alive
    /\ toSend[f] = {}
    /\ toSend' = [toSend EXCEPT ![f] = {<<id, pool[id]>> : id \in {i \in Ids : pool[i] # None}}]
    /\ UNCHANGED echoed
    /\ UNCHANGED Unsent

\* Mutant: "except" is not looked at.
BroadcastToAll(f) ==
    /\ \E entry \in toSend[f] :
         /\ toSend' = [toSend EXCEPT ![f] = @ \ {entry}]
         /\ echoed' = IF entry[2] = f /\ CanSend(f) THEN echoed \cup {f} ELSE echoed
    /\ UNCHANGED Unsent

BroadcastNext(f) ==
    /\ \E entry \in toSend[f] :
         /\ toSend' = [toSend EXCEPT ![f] = @ \ {entry}]
         /\ echoed' = IF entry[1] # uuid[f] /\ entry[2] = f /\ CanSend(f)
                        THEN echoed \cup {f}
                        ELSE echoed
    /\ UNCHANGED Unsent

Next ==
    \/ BeginShutdown
    \/ SnapshotPool
    \/ LoadTransport
    \/ \E p \in Closers : Finalize(p)
    \/ \E t \in Transports :
         Dial(t) \/ StoreTransport(t) \/ SetAlive(t) \/ EnterPool(t) \/ ReadEnds(t)
    \/ \E f \in Facades :
         \/ \E id \in Wanted[f] : SetUUID(f, id)
         \/ VisitConnection(f)
         \/ BeginBroadcast(f)
         \/ BroadcastNext(f)

Spec == Init /\ [][Next]_vars

-----------------------------------------------------------------------------
FinalizeLabels ==
    {"checkCurrent", "takeAlive", "clearTransport", "readUUID", "leavePool"}

TransportLabels ==
    {"idle", "storeTransport", "setAlive", "enterPool", "reading", "over"} \cup FinalizeLabels

StopperLabels == {"idle", "snapshot", "next", "load"} \cup FinalizeLabels

(* The values the variables range over. *)
TypeOK ==
    /\ pool \in [Ids -> Facades \cup {None}]
    /\ uuid \in [Facades -> Ids]
    /\ alive \subseteq Facades
    /\ transport \in [Facades -> Transports \cup {None}]
    /\ at \in [Closers -> TransportLabels \cup StopperLabels]
    /\ \A t \in Transports : at[t] \in TransportLabels
    /\ at[Stopper] \in StopperLabels
    /\ leavingAs \in [Closers -> Ids \cup {None}]
    /\ \A p \in Closers : at[p] = "leavePool" <=> leavingAs[p] # None
    /\ stopFor \in Facades \cup {None}
    /\ at[Stopper] \in FinalizeLabels \cup {"load"} => stopFor # None
    /\ stopping \in Transports \cup {None}
    /\ isShutdown \in BOOLEAN
    /\ toClose \subseteq Facades
    /\ toSend \in [Facades -> SUBSET (Ids \X Facades)]
    /\ shared \subseteq Facades
    /\ overtaken \subseteq Facades
    /\ echoed \subseteq Facades

(* A facade is routed to by its current UUID or not at all, whatever renames,
   openings and closings overlap: no old name of a facade ever reaches it. *)
KeyedByUUID == \A id \in Ids : pool[id] # None => uuid[pool[id]] = id

\* An OnOpen of facade f has run beside a finalization that had taken alive, which a
\* client provokes that does not wait for OnDisconnected, or Shutdown.
Overtaken(f) == f \in overtaken /\ (f \in Eager \/ isShutdown)

(* A live facade can be reached by its UUID ("EmitTo sends to the connection with
   the given UUID") once its OnOpen is over, with old transports closing at any moment,
   unless its UUID ever was that of another facade too or an OnOpen of it overtook a
   finalization, whose delete may then remove the entry of the new session. *)
LiveIsRoutable ==
    \A f \in Facades :
        /\ f \in alive
        /\ \A t \in TransportsOf(f) : at[t] # "enterPool"
        /\ f \notin shared
        /\ ~Overtaken(f)
        => pool[uuid[f]] = f

(* A facade whose sessions are over holds no entry: nothing is routed to it, and its
   UUID is free for the next session.  A facade that is renamed while it closes is an
   exception, and so is one of which an OnOpen ran beside a finalization. *)
NoGhostEntry ==
    \A f \in Facades \ Renamers :
        /\ \A t \in TransportsOf(f) : at[t] \in {"idle", "over"}
        /\ ~New(f)
        /\ ~Finalizing(f)
        /\ ~Overtaken(f)
        => f \notin Routed

(* Broadcast(message, true) never sends to the facade that broadcasts (its
   comment), unless that facade is renamed meanwhile. *)
BroadcastSkipsSelf == echoed \subseteq Renamers
=============================================================================
