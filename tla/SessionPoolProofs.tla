-------------------------- MODULE SessionPoolProofs --------------------------
(***************************************************************************)
(* Proofs about SessionPool, for any facades, transports, UUIDs, renamings *)
(* and clients that do not wait for OnDisconnected.                        *)
(***************************************************************************)
EXTENDS SessionPool, TLAPS

IInv == TypeOK /\ KeyedByUUID

(***************************************************************************)
(* What else is kept, for the properties that relate the pool to the       *)
(* sessions.                                                               *)
(***************************************************************************)
\* Shutdown starts once and looks at facades that have been dialed.
ShutdownOrder ==
    /\ isShutdown <=> at[Stopper] # "idle"
    /\ \A f \in Facades : f \in alive \/ stopFor = f => ~New(f)

\* A facade that waits for OnDisconnected has one session at a time, and nobody but
\* Shutdown finalizes it while it opens.
OneSession ==
    /\ \A t, u \in Transports :
          /\ Of[t] = Of[u] /\ Of[t] \notin Eager
          /\ at[t] \notin {"idle", "over"} /\ at[u] \notin {"idle", "over"}
          => t = u
    /\ ~isShutdown => overtaken \subseteq Eager

\* Unless an OnOpen has overtaken a finalization, a facade that is being finalized is
\* not alive, and one that is about to enter the pool is.
NotOvertaken ==
    \A f \in Facades \ overtaken :
        /\ Finalizing(f) => f \notin alive /\ ~Opening(f)
        /\ (\E t \in TransportsOf(f) : at[t] = "enterPool") => f \in alive

\* The transport in the field of a facade that is alive or opens is one whose read loop
\* has not finalized it, and while the facade opens beside it, alive is its doing.
TransportHeld ==
    \A f \in Facades \ overtaken :
        /\ f \in alive \/ Opening(f) =>
              \E t \in TransportsOf(f) :
                  /\ transport[f] = t
                  /\ at[t] \in {"setAlive", "enterPool", "reading", "checkCurrent", "takeAlive"}
        /\ \A t \in TransportsOf(f) :
              /\ Opening(f)
              /\ transport[f] = t /\ at[t] \in {"reading", "checkCurrent", "takeAlive"}
              => f \in alive

\* The history variable is right: two facades one of which could remove or overwrite
\* the other's entry are both in shared.
SharedTold ==
    \A f, g \in Facades : f # g /\ Claims(g, uuid[f]) => f \in shared /\ g \in shared

\* A live facade is in the pool or about to enter it.
LiveEntered ==
    \A f \in alive \ (shared \cup overtaken) :
        pool[uuid[f]] = f \/ \E t \in TransportsOf(f) : at[t] = "enterPool"

\* What was read of the UUID of a facade that is not renamed is its UUID.
NameKept ==
    \A f \in Facades \ Renamers :
        /\ \A p \in Closers : Owner(p) = f => leavingAs[p] \in {None, uuid[f]}
        /\ New(f) => toSend[f] = {}
        /\ \A entry \in toSend[f] : entry[2] = f => entry[1] = uuid[f]

\* The entry of such a facade is taken out before its session is over.
GoneLeft ==
    \A f \in Facades \ (Renamers \cup overtaken) :
        pool[uuid[f]] = f =>
            \/ New(f) \/ f \in alive \/ Finalizing(f)
            \/ \E t \in TransportsOf(f) : at[t] \in {"storeTransport", "setAlive", "enterPool"}

PInv ==
    /\ IInv
    /\ ShutdownOrder
    /\ OneSession
    /\ NotOvertaken
    /\ TransportHeld
    /\ SharedTold
    /\ LiveEntered
    /\ NameKept
    /\ GoneLeft
    /\ BroadcastSkipsSelf

-----------------------------------------------------------------------------
(***************************************************************************)
(* Types and keys.                                                         *)
(***************************************************************************)
(* The invariant holds in the initial state. *)
LEMMA InitIInv == Init => IInv
BY PoolAssumption DEF Init, IInv, TypeOK, KeyedByUUID, Closers, TransportLabels,
   StopperLabels, FinalizeLabels

(* Who takes a step of finalizeTransportClose has a facade. *)
LEMMA OwnerType ==
    ASSUME TypeOK, NEW p \in Closers, at[p] \in FinalizeLabels
    PROVE  Owner(p) \in Facades
BY PoolAssumption DEF TypeOK, Closers, Owner, FinalizeLabels

(* Renaming moves a facade from its old key to its new one and touches no other
   facade's entry. *)
LEMMA SetUUIDKeeps ==
    ASSUME IInv, NEW f \in Facades, NEW id \in Wanted[f], SetUUID(f, id)
    PROVE  IInv'
<1> USE PoolAssumption DEF IInv
<1>1. id \in Ids /\ pool[id] \in {None, f}
    BY DEF SetUUID
<1>2. /\ pool' = [pool EXCEPT ![uuid[f]] = None, ![id] = f]
      /\ uuid' = [uuid EXCEPT ![f] = id]
    BY DEF SetUUID
<1>3. TypeOK'
    <2>1. shared' \subseteq Facades
        BY DEF SetUUID, TypeOK
    <2> QED
        BY <1>1, <1>2, <2>1 DEF SetUUID, TypeOK, stopVars, sendVars
<1>4. KeyedByUUID'
    <2> SUFFICES ASSUME NEW k \in Ids, pool'[k] # None
                 PROVE  uuid'[pool'[k]] = k
        BY DEF KeyedByUUID
    <2>1. CASE k = id
        BY <1>1, <1>2, <2>1 DEF TypeOK
    <2>2. CASE k # id
        <3>1. k # uuid[f] /\ pool'[k] = pool[k]
            BY <1>1, <1>2, <2>2 DEF TypeOK
        <3>2. pool[k] # f /\ pool[k] \in Facades
            BY <3>1 DEF TypeOK, KeyedByUUID
        <3> QED
            BY <1>2, <3>1, <3>2 DEF TypeOK, KeyedByUUID
    <2> QED
        BY <2>1, <2>2
<1> QED
    BY <1>3, <1>4

(* Every step keeps the types. *)
LEMMA TypesStep == IInv /\ [Next]_vars => TypeOK'
<1> SUFFICES ASSUME IInv, [Next]_vars
             PROVE  TypeOK'
    OBVIOUS
<1> USE PoolAssumption DEF IInv, TypeOK, Closers, fields, stopVars, sendVars,
        TransportLabels, StopperLabels, FinalizeLabels
<1>1. ASSUME NEW f \in Facades, NEW id \in Wanted[f], SetUUID(f, id)
      PROVE  TypeOK'
    BY <1>1, SetUUIDKeeps
<1>2. ASSUME NEW t \in Transports, Dial(t) \/ StoreTransport(t) \/ SetAlive(t)
      PROVE  TypeOK'
    BY <1>2 DEF Dial, StoreTransport, SetAlive, Goto
<1>3. ASSUME NEW t \in Transports, EnterPool(t) \/ ReadEnds(t)
      PROVE  TypeOK'
    BY <1>3 DEF EnterPool, ReadEnds, Goto
<1>4. ASSUME NEW p \in Closers, CheckCurrent(p) \/ TakeAlive(p)
      PROVE  TypeOK'
    BY <1>4, OwnerType DEF CheckCurrent, TakeAlive, Goto, Return
<1>5. ASSUME NEW p \in Closers, ClearTransport(p) \/ ReadUUID(p)
      PROVE  TypeOK'
    BY <1>5, OwnerType DEF ClearTransport, ReadUUID, Goto
<1>6. ASSUME NEW p \in Closers, LeavePool(p)
      PROVE  TypeOK'
    BY <1>6 DEF LeavePool, Goto, Return
<1>7. CASE BeginShutdown \/ SnapshotPool \/ LoadTransport
    <2>1. CASE BeginShutdown
        BY <2>1 DEF BeginShutdown, Goto
    <2>2. CASE SnapshotPool
        BY <2>2 DEF SnapshotPool, Routed, Goto
    <2>3. CASE LoadTransport
        BY <2>3 DEF LoadTransport, Goto
    <2> QED
        BY <1>7, <2>1, <2>2, <2>3
<1>8. ASSUME NEW f \in Facades, VisitConnection(f)
      PROVE  TypeOK'
    BY <1>8 DEF VisitConnection, Goto
<1>9. ASSUME NEW f \in Facades, BeginBroadcast(f)
      PROVE  TypeOK'
    <2>1. {<<id, pool[id]>> : id \in {i \in Ids : pool[i] # None}} \subseteq Ids \X Facades
        OBVIOUS
    <2> QED
        BY <1>9, <2>1 DEF BeginBroadcast, Unsent
<1>10. ASSUME NEW f \in Facades, BroadcastNext(f)
       PROVE  TypeOK'
    BY <1>10 DEF BroadcastNext, Unsent
<1>11. CASE UNCHANGED vars
    BY <1>11 DEF vars
<1> QED
    BY <1>1, <1>2, <1>3, <1>4, <1>5, <1>6, <1>7, <1>8, <1>9, <1>10, <1>11
    DEF Next, Finalize

(* Every step keeps the keys. *)
LEMMA KeysStep == IInv /\ [Next]_vars => KeyedByUUID'
<1> SUFFICES ASSUME IInv, [Next]_vars
             PROVE  KeyedByUUID'
    OBVIOUS
<1> USE PoolAssumption DEF IInv, TypeOK, KeyedByUUID, Closers
<1>1. ASSUME NEW f \in Facades, NEW id \in Wanted[f], SetUUID(f, id)
      PROVE  KeyedByUUID'
    BY <1>1, SetUUIDKeeps
<1>2. ASSUME NEW t \in Transports, EnterPool(t)
      PROVE  KeyedByUUID'
    BY <1>2 DEF EnterPool, fields
<1>3. ASSUME NEW p \in Closers, LeavePool(p)
      PROVE  KeyedByUUID'
    BY <1>3 DEF LeavePool, Goto, fields
<1>4. ASSUME UNCHANGED <<pool, uuid>>
      PROVE  KeyedByUUID'
    BY <1>4
<1> QED
    BY <1>1, <1>2, <1>3, <1>4
    DEF Next, Finalize, Dial, StoreTransport, SetAlive, ReadEnds, CheckCurrent, TakeAlive,
        ClearTransport, ReadUUID, BeginShutdown, SnapshotPool, LoadTransport,
        VisitConnection, BeginBroadcast, BroadcastNext, Unsent, fields, vars

(* Every step keeps the invariant. *)
LEMMA NextIInv == IInv /\ [Next]_vars => IInv'
BY TypesStep, KeysStep DEF IInv

(* Types and keys are right in every behaviour. *)
THEOREM Invariance == Spec => []IInv
BY InitIInv, NextIInv, PTL DEF Spec

(* A facade is never reachable under a UUID it no longer has, and so under at most
   one, however SetUUID, opening, closing and Shutdown overlap. *)
THEOREM RoutedByCurrentUUID == Spec => []KeyedByUUID
<1>1. IInv => KeyedByUUID
    BY DEF IInv
<1> QED
    BY <1>1, Invariance, PTL

-----------------------------------------------------------------------------
(***************************************************************************)
(* The sessions.                                                           *)
(***************************************************************************)
(* Shutdown starts once; a facade is alive, or looked at by Shutdown, after a dial. *)
LEMMA ShutdownStep == PInv /\ [Next]_vars => ShutdownOrder'
<1> SUFFICES ASSUME PInv, [Next]_vars
             PROVE  ShutdownOrder'
    OBVIOUS
<1> USE PoolAssumption DEF PInv, IInv, TypeOK, Closers, Owner, fields, stopVars,
        sendVars, FinalizeLabels, ShutdownOrder, New, TransportsOf
<1>1. ASSUME NEW f \in Facades, NEW id \in Wanted[f], SetUUID(f, id)
      PROVE  ShutdownOrder'
    BY <1>1 DEF SetUUID
<1>2. ASSUME NEW t \in Transports, Dial(t)
      PROVE  ShutdownOrder'
    BY <1>2 DEF Dial, Goto
<1>3. ASSUME NEW t \in Transports, StoreTransport(t)
      PROVE  ShutdownOrder'
    BY <1>3 DEF StoreTransport, Goto
<1>4. ASSUME NEW t \in Transports, SetAlive(t)
      PROVE  ShutdownOrder'
    BY <1>4 DEF SetAlive, Goto
<1>5. ASSUME NEW t \in Transports, EnterPool(t)
      PROVE  ShutdownOrder'
    BY <1>5 DEF EnterPool, Goto
<1>6. ASSUME NEW t \in Transports, ReadEnds(t)
      PROVE  ShutdownOrder'
    BY <1>6 DEF ReadEnds, Goto
<1>7. ASSUME NEW p \in Closers, CheckCurrent(p)
      PROVE  ShutdownOrder'
    BY <1>7 DEF CheckCurrent, Goto, Return
<1>8. ASSUME NEW p \in Closers, TakeAlive(p)
      PROVE  ShutdownOrder'
    BY <1>8 DEF TakeAlive, Goto, Return
<1>9. ASSUME NEW p \in Closers, ClearTransport(p) \/ ReadUUID(p)
      PROVE  ShutdownOrder'
    BY <1>9 DEF ClearTransport, ReadUUID, Goto
<1>10. ASSUME NEW p \in Closers, LeavePool(p)
      PROVE  ShutdownOrder'
    BY <1>10 DEF LeavePool, Goto, Return
<1>11. CASE BeginShutdown \/ SnapshotPool \/ LoadTransport
    BY <1>11 DEF BeginShutdown, SnapshotPool, LoadTransport, Goto
<1>12. ASSUME NEW f \in Facades, VisitConnection(f)
      PROVE  ShutdownOrder'
    BY <1>12 DEF VisitConnection, Goto
<1>13. ASSUME NEW f \in Facades, BeginBroadcast(f) \/ BroadcastNext(f)
      PROVE  ShutdownOrder'
    BY <1>13 DEF BeginBroadcast, BroadcastNext, Unsent
<1>14. CASE UNCHANGED vars
    BY <1>14 DEF vars
<1> QED
    BY <1>1, <1>2, <1>3, <1>4, <1>5, <1>6, <1>7, <1>8, <1>9, <1>10, <1>11, <1>12, <1>13, <1>14
    DEF Next, Finalize

(* Who waits for OnDisconnected dials when every session of the facade is over. *)
LEMMA SessionStep == PInv /\ [Next]_vars => OneSession'
<1> SUFFICES ASSUME PInv, [Next]_vars
             PROVE  OneSession'
    OBVIOUS
<1> USE PoolAssumption DEF PInv, IInv, TypeOK, Closers, Owner, fields, stopVars,
        sendVars, FinalizeLabels, ShutdownOrder, OneSession, Finalizing, Opening,
        TransportsOf
<1>1. ASSUME NEW f \in Facades, NEW id \in Wanted[f], SetUUID(f, id)
      PROVE  OneSession'
    BY <1>1 DEF SetUUID
<1>2. ASSUME NEW t \in Transports, Dial(t)
      PROVE  OneSession'
    BY <1>2 DEF Dial, MayDial, Goto
<1>3. ASSUME NEW t \in Transports, StoreTransport(t)
      PROVE  OneSession'
    BY <1>3 DEF StoreTransport, Goto
<1>4. ASSUME NEW t \in Transports, SetAlive(t)
      PROVE  OneSession'
    BY <1>4 DEF SetAlive, Goto
<1>5. ASSUME NEW t \in Transports, EnterPool(t)
      PROVE  OneSession'
    BY <1>5 DEF EnterPool, Goto
<1>6. ASSUME NEW t \in Transports, ReadEnds(t)
      PROVE  OneSession'
    BY <1>6 DEF ReadEnds, Goto
<1>7. ASSUME NEW p \in Closers, CheckCurrent(p)
      PROVE  OneSession'
    BY <1>7 DEF CheckCurrent, Goto, Return
<1>8. ASSUME NEW p \in Closers, TakeAlive(p)
      PROVE  OneSession'
    BY <1>8 DEF TakeAlive, Goto, Return
<1>9. ASSUME NEW p \in Closers, ClearTransport(p) \/ ReadUUID(p)
      PROVE  OneSession'
    BY <1>9 DEF ClearTransport, ReadUUID, Goto
<1>10. ASSUME NEW p \in Closers, LeavePool(p)
      PROVE  OneSession'
    BY <1>10 DEF LeavePool, Goto, Return
<1>11. CASE BeginShutdown \/ SnapshotPool \/ LoadTransport
    BY <1>11 DEF BeginShutdown, SnapshotPool, LoadTransport, Goto
<1>12. ASSUME NEW f \in Facades, VisitConnection(f)
      PROVE  OneSession'
    BY <1>12 DEF VisitConnection, Goto
<1>13. ASSUME NEW f \in Facades, BeginBroadcast(f) \/ BroadcastNext(f)
      PROVE  OneSession'
    BY <1>13 DEF BeginBroadcast, BroadcastNext, Unsent
<1>14. CASE UNCHANGED vars
    BY <1>14 DEF vars
<1> QED
    BY <1>1, <1>2, <1>3, <1>4, <1>5, <1>6, <1>7, <1>8, <1>9, <1>10, <1>11, <1>12, <1>13, <1>14
    DEF Next, Finalize

(* An OnOpen and a finalization that has taken alive do not meet unseen. *)
LEMMA OvertakenStep == PInv /\ [Next]_vars => NotOvertaken'
<1> SUFFICES ASSUME PInv, [Next]_vars
             PROVE  NotOvertaken'
    OBVIOUS
<1> USE PoolAssumption DEF PInv, IInv, TypeOK, Closers, Owner, fields, stopVars,
        sendVars, FinalizeLabels, NotOvertaken, Finalizing, Opening, TransportsOf
<1>1. ASSUME NEW f \in Facades, NEW id \in Wanted[f], SetUUID(f, id)
      PROVE  NotOvertaken'
    BY <1>1 DEF SetUUID
<1>2. ASSUME NEW t \in Transports, Dial(t)
      PROVE  NotOvertaken'
    BY <1>2 DEF Dial, Goto
<1>3. ASSUME NEW t \in Transports, StoreTransport(t)
      PROVE  NotOvertaken'
    BY <1>3 DEF StoreTransport, Goto
<1>4. ASSUME NEW t \in Transports, SetAlive(t)
      PROVE  NotOvertaken'
    BY <1>4 DEF SetAlive, Goto
<1>5. ASSUME NEW t \in Transports, EnterPool(t)
      PROVE  NotOvertaken'
    BY <1>5 DEF EnterPool, Goto
<1>6. ASSUME NEW t \in Transports, ReadEnds(t)
      PROVE  NotOvertaken'
    BY <1>6 DEF ReadEnds, Goto
<1>7. ASSUME NEW p \in Closers, CheckCurrent(p)
      PROVE  NotOvertaken'
    BY <1>7 DEF CheckCurrent, Goto, Return
<1>8. ASSUME NEW p \in Closers, TakeAlive(p)
      PROVE  NotOvertaken'
    BY <1>8 DEF TakeAlive, Goto, Return
<1>9. ASSUME NEW p \in Closers, ClearTransport(p) \/ ReadUUID(p)
      PROVE  NotOvertaken'
    BY <1>9 DEF ClearTransport, ReadUUID, Goto
<1>10. ASSUME NEW p \in Closers, LeavePool(p)
      PROVE  NotOvertaken'
    BY <1>10 DEF LeavePool, Goto, Return
<1>11. CASE BeginShutdown \/ SnapshotPool \/ LoadTransport
    BY <1>11 DEF BeginShutdown, SnapshotPool, LoadTransport, Goto
<1>12. ASSUME NEW f \in Facades, VisitConnection(f)
      PROVE  NotOvertaken'
    BY <1>12 DEF VisitConnection, Goto
<1>13. ASSUME NEW f \in Facades, BeginBroadcast(f) \/ BroadcastNext(f)
      PROVE  NotOvertaken'
    BY <1>13 DEF BeginBroadcast, BroadcastNext, Unsent
<1>14. CASE UNCHANGED vars
    BY <1>14 DEF vars
<1> QED
    BY <1>1, <1>2, <1>3, <1>4, <1>5, <1>6, <1>7, <1>8, <1>9, <1>10, <1>11, <1>12, <1>13, <1>14
    DEF Next, Finalize

(* A facade that is alive holds the transport it will be finalized with. *)
LEMMA HeldStep == PInv /\ [Next]_vars => TransportHeld'
<1> SUFFICES ASSUME PInv, [Next]_vars
             PROVE  TransportHeld'
    OBVIOUS
<1> USE PoolAssumption DEF PInv, IInv, TypeOK, Closers, Owner, fields, stopVars,
        sendVars, FinalizeLabels, NotOvertaken, TransportHeld, Finalizing, Opening,
        TransportsOf
<1>1. ASSUME NEW f \in Facades, NEW id \in Wanted[f], SetUUID(f, id)
      PROVE  TransportHeld'
    BY <1>1 DEF SetUUID
<1>2. ASSUME NEW t \in Transports, Dial(t)
      PROVE  TransportHeld'
    BY <1>2 DEF Dial, Goto
<1>3. ASSUME NEW t \in Transports, StoreTransport(t)
      PROVE  TransportHeld'
    BY <1>3 DEF StoreTransport, Goto
<1>4. ASSUME NEW t \in Transports, SetAlive(t)
      PROVE  TransportHeld'
    BY <1>4 DEF SetAlive, Goto
<1>5. ASSUME NEW t \in Transports, EnterPool(t)
      PROVE  TransportHeld'
    BY <1>5 DEF EnterPool, Goto
<1>6. ASSUME NEW t \in Transports, ReadEnds(t)
      PROVE  TransportHeld'
    BY <1>6 DEF ReadEnds, Goto
<1>7. ASSUME NEW p \in Closers, CheckCurrent(p)
      PROVE  TransportHeld'
    BY <1>7 DEF CheckCurrent, Goto, Return, Socket
<1>8. ASSUME NEW p \in Closers, TakeAlive(p)
      PROVE  TransportHeld'
    BY <1>8 DEF TakeAlive, Goto, Return
<1>9. ASSUME NEW p \in Closers, ClearTransport(p) \/ ReadUUID(p)
      PROVE  TransportHeld'
    <2>1. CASE ClearTransport(p)
        <3>1. Owner(p) \in Facades /\ Finalizing(Owner(p))
            BY <2>1, OwnerType DEF ClearTransport, Goto
        <3> QED
            BY <2>1, <3>1 DEF ClearTransport, Goto
    <2>2. CASE ReadUUID(p)
        BY <2>2 DEF ReadUUID, Goto
    <2> QED
        BY <1>9, <2>1, <2>2
<1>10. ASSUME NEW p \in Closers, LeavePool(p)
      PROVE  TransportHeld'
    BY <1>10 DEF LeavePool, Goto, Return
<1>11. CASE BeginShutdown \/ SnapshotPool \/ LoadTransport
    BY <1>11 DEF BeginShutdown, SnapshotPool, LoadTransport, Goto
<1>12. ASSUME NEW f \in Facades, VisitConnection(f)
      PROVE  TransportHeld'
    BY <1>12 DEF VisitConnection, Goto
<1>13. ASSUME NEW f \in Facades, BeginBroadcast(f) \/ BroadcastNext(f)
      PROVE  TransportHeld'
    BY <1>13 DEF BeginBroadcast, BroadcastNext, Unsent
<1>14. CASE UNCHANGED vars
    BY <1>14 DEF vars
<1> QED
    BY <1>1, <1>2, <1>3, <1>4, <1>5, <1>6, <1>7, <1>8, <1>9, <1>10, <1>11, <1>12, <1>13, <1>14
    DEF Next, Finalize

(* A facade that takes a UUID another one has, or is about to leave the pool as,
   puts both in shared; reading a UUID makes no new claim. *)
LEMMA SharedStep == PInv /\ [Next]_vars => SharedTold'
<1> SUFFICES ASSUME PInv, [Next]_vars
             PROVE  SharedTold'
    OBVIOUS
<1> USE PoolAssumption DEF PInv, IInv, TypeOK, Closers, Owner, fields, stopVars,
        sendVars, FinalizeLabels, SharedTold, Claims
<1>1. ASSUME NEW f \in Facades, NEW id \in Wanted[f], SetUUID(f, id)
      PROVE  SharedTold'
    BY <1>1 DEF SetUUID
<1>2. ASSUME NEW t \in Transports, Dial(t)
      PROVE  SharedTold'
    BY <1>2 DEF Dial, Goto
<1>3. ASSUME NEW t \in Transports, StoreTransport(t)
      PROVE  SharedTold'
    BY <1>3 DEF StoreTransport, Goto
<1>4. ASSUME NEW t \in Transports, SetAlive(t)
      PROVE  SharedTold'
    BY <1>4 DEF SetAlive, Goto
<1>5. ASSUME NEW t \in Transports, EnterPool(t)
      PROVE  SharedTold'
    BY <1>5 DEF EnterPool, Goto
<1>6. ASSUME NEW t \in Transports, ReadEnds(t)
      PROVE  SharedTold'
    BY <1>6 DEF ReadEnds, Goto
<1>7. ASSUME NEW p \in Closers, CheckCurrent(p)
      PROVE  SharedTold'
    BY <1>7 DEF CheckCurrent, Goto, Return
<1>8. ASSUME NEW p \in Closers, TakeAlive(p)
      PROVE  SharedTold'
    BY <1>8 DEF TakeAlive, Goto, Return
<1>9. ASSUME NEW p \in Closers, ClearTransport(p) \/ ReadUUID(p)
      PROVE  SharedTold'
    BY <1>9 DEF ClearTransport, ReadUUID, Goto
<1>10. ASSUME NEW p \in Closers, LeavePool(p)
      PROVE  SharedTold'
    BY <1>10 DEF LeavePool, Goto, Return
<1>11. CASE BeginShutdown \/ SnapshotPool \/ LoadTransport
    BY <1>11 DEF BeginShutdown, SnapshotPool, LoadTransport, Goto
<1>12. ASSUME NEW f \in Facades, VisitConnection(f)
      PROVE  SharedTold'
    BY <1>12 DEF VisitConnection, Goto
<1>13. ASSUME NEW f \in Facades, BeginBroadcast(f) \/ BroadcastNext(f)
      PROVE  SharedTold'
    BY <1>13 DEF BeginBroadcast, BroadcastNext, Unsent
<1>14. CASE UNCHANGED vars
    BY <1>14 DEF vars
<1> QED
    BY <1>1, <1>2, <1>3, <1>4, <1>5, <1>6, <1>7, <1>8, <1>9, <1>10, <1>11, <1>12, <1>13, <1>14
    DEF Next, Finalize

(* The entry of a live facade is only removed or overwritten by a facade that claims its
   UUID, or by a finalization of its own. *)
LEMMA LiveStep == PInv /\ [Next]_vars => LiveEntered'
<1> SUFFICES ASSUME PInv, [Next]_vars
             PROVE  LiveEntered'
    OBVIOUS
<1> USE PoolAssumption DEF PInv, IInv, TypeOK, Closers, Owner, fields, stopVars,
        sendVars, FinalizeLabels, NotOvertaken, SharedTold, LiveEntered, Claims,
        Finalizing, Opening, TransportsOf
<1>1. ASSUME NEW f \in Facades, NEW id \in Wanted[f], SetUUID(f, id)
      PROVE  LiveEntered'
    BY <1>1 DEF SetUUID
<1>2. ASSUME NEW t \in Transports, Dial(t)
      PROVE  LiveEntered'
    BY <1>2 DEF Dial, Goto
<1>3. ASSUME NEW t \in Transports, StoreTransport(t)
      PROVE  LiveEntered'
    BY <1>3 DEF StoreTransport, Goto
<1>4. ASSUME NEW t \in Transports, SetAlive(t)
      PROVE  LiveEntered'
    BY <1>4 DEF SetAlive, Goto
<1>5. ASSUME NEW t \in Transports, EnterPool(t)
      PROVE  LiveEntered'
    BY <1>5 DEF EnterPool, Goto
<1>6. ASSUME NEW t \in Transports, ReadEnds(t)
      PROVE  LiveEntered'
    BY <1>6 DEF ReadEnds, Goto
<1>7. ASSUME NEW p \in Closers, CheckCurrent(p)
      PROVE  LiveEntered'
    BY <1>7 DEF CheckCurrent, Goto, Return
<1>8. ASSUME NEW p \in Closers, TakeAlive(p)
      PROVE  LiveEntered'
    BY <1>8 DEF TakeAlive, Goto, Return
<1>9. ASSUME NEW p \in Closers, ClearTransport(p) \/ ReadUUID(p)
      PROVE  LiveEntered'
    BY <1>9 DEF ClearTransport, ReadUUID, Goto
<1>10. ASSUME NEW p \in Closers, LeavePool(p)
      PROVE  LiveEntered'
    BY <1>10 DEF LeavePool, Goto, Return
<1>11. CASE BeginShutdown \/ SnapshotPool \/ LoadTransport
    BY <1>11 DEF BeginShutdown, SnapshotPool, LoadTransport, Goto
<1>12. ASSUME NEW f \in Facades, VisitConnection(f)
      PROVE  LiveEntered'
    BY <1>12 DEF VisitConnection, Goto
<1>13. ASSUME NEW f \in Facades, BeginBroadcast(f) \/ BroadcastNext(f)
      PROVE  LiveEntered'
    BY <1>13 DEF BeginBroadcast, BroadcastNext, Unsent
<1>14. CASE UNCHANGED vars
    BY <1>14 DEF vars
<1> QED
    BY <1>1, <1>2, <1>3, <1>4, <1>5, <1>6, <1>7, <1>8, <1>9, <1>10, <1>11, <1>12, <1>13, <1>14
    DEF Next, Finalize

(* Without a rename after it has opened, what a facade's close and what its Broadcast
   read of its UUID stays true. *)
LEMMA NameStep == PInv /\ [Next]_vars => NameKept'
<1> SUFFICES ASSUME PInv, [Next]_vars
             PROVE  NameKept'
    OBVIOUS
<1> USE PoolAssumption DEF PInv, IInv, TypeOK, Closers, Owner, fields, stopVars,
        sendVars, FinalizeLabels, ShutdownOrder, KeyedByUUID, NameKept, MaySet, New,
        TransportsOf
<1>1. ASSUME NEW f \in Facades, NEW id \in Wanted[f], SetUUID(f, id)
      PROVE  NameKept'
    BY <1>1 DEF SetUUID
<1>2. ASSUME NEW t \in Transports, Dial(t)
      PROVE  NameKept'
    BY <1>2 DEF Dial, Goto
<1>3. ASSUME NEW t \in Transports, StoreTransport(t)
      PROVE  NameKept'
    BY <1>3 DEF StoreTransport, Goto
<1>4. ASSUME NEW t \in Transports, SetAlive(t)
      PROVE  NameKept'
    BY <1>4 DEF SetAlive, Goto
<1>5. ASSUME NEW t \in Transports, EnterPool(t)
      PROVE  NameKept'
    BY <1>5 DEF EnterPool, Goto
<1>6. ASSUME NEW t \in Transports, ReadEnds(t)
      PROVE  NameKept'
    BY <1>6 DEF ReadEnds, Goto
<1>7. ASSUME NEW p \in Closers, CheckCurrent(p)
      PROVE  NameKept'
    BY <1>7 DEF CheckCurrent, Goto, Return
<1>8. ASSUME NEW p \in Closers, TakeAlive(p)
      PROVE  NameKept'
    BY <1>8 DEF TakeAlive, Goto, Return
<1>9. ASSUME NEW p \in Closers, ClearTransport(p) \/ ReadUUID(p)
      PROVE  NameKept'
    BY <1>9 DEF ClearTransport, ReadUUID, Goto
<1>10. ASSUME NEW p \in Closers, LeavePool(p)
      PROVE  NameKept'
    BY <1>10 DEF LeavePool, Goto, Return
<1>11. CASE BeginShutdown \/ SnapshotPool \/ LoadTransport
    BY <1>11 DEF BeginShutdown, SnapshotPool, LoadTransport, Goto
<1>12. ASSUME NEW f \in Facades, VisitConnection(f)
      PROVE  NameKept'
    BY <1>12 DEF VisitConnection, Goto
<1>13. ASSUME NEW f \in Facades, BeginBroadcast(f) \/ BroadcastNext(f)
      PROVE  NameKept'
    BY <1>13 DEF BeginBroadcast, BroadcastNext, Unsent
<1>14. CASE UNCHANGED vars
    BY <1>14 DEF vars
<1> QED
    BY <1>1, <1>2, <1>3, <1>4, <1>5, <1>6, <1>7, <1>8, <1>9, <1>10, <1>11, <1>12, <1>13, <1>14
    DEF Next, Finalize

(* A session is over only after its entry was deleted, and the facade does not enter
   again before it is opened again. *)
LEMMA GoneStep == PInv /\ [Next]_vars => GoneLeft'
<1> SUFFICES ASSUME PInv, [Next]_vars
             PROVE  GoneLeft'
    OBVIOUS
<1> USE PoolAssumption DEF PInv, IInv, TypeOK, Closers, Owner, fields, stopVars,
        sendVars, FinalizeLabels, ShutdownOrder, KeyedByUUID, NotOvertaken, NameKept,
        GoneLeft, MaySet, New, Finalizing, Opening, TransportsOf
<1>1. ASSUME NEW f \in Facades, NEW id \in Wanted[f], SetUUID(f, id)
      PROVE  GoneLeft'
    BY <1>1 DEF SetUUID
<1>2. ASSUME NEW t \in Transports, Dial(t)
      PROVE  GoneLeft'
    BY <1>2 DEF Dial, Goto
<1>3. ASSUME NEW t \in Transports, StoreTransport(t)
      PROVE  GoneLeft'
    BY <1>3 DEF StoreTransport, Goto
<1>4. ASSUME NEW t \in Transports, SetAlive(t)
      PROVE  GoneLeft'
    BY <1>4 DEF SetAlive, Goto
<1>5. ASSUME NEW t \in Transports, EnterPool(t)
      PROVE  GoneLeft'
    BY <1>5 DEF EnterPool, Goto
<1>6. ASSUME NEW t \in Transports, ReadEnds(t)
      PROVE  GoneLeft'
    BY <1>6 DEF ReadEnds, Goto
<1>7. ASSUME NEW p \in Closers, CheckCurrent(p)
      PROVE  GoneLeft'
    BY <1>7 DEF CheckCurrent, Goto, Return
<1>8. ASSUME NEW p \in Closers, TakeAlive(p)
      PROVE  GoneLeft'
    BY <1>8 DEF TakeAlive, Goto, Return
<1>9. ASSUME NEW p \in Closers, ClearTransport(p) \/ ReadUUID(p)
      PROVE  GoneLeft'
    BY <1>9 DEF ClearTransport, ReadUUID, Goto
<1>10. ASSUME NEW p \in Closers, LeavePool(p)
      PROVE  GoneLeft'
    BY <1>10 DEF LeavePool, Goto, Return
<1>11. CASE BeginShutdown \/ SnapshotPool \/ LoadTransport
    BY <1>11 DEF BeginShutdown, SnapshotPool, LoadTransport, Goto
<1>12. ASSUME NEW f \in Facades, VisitConnection(f)
      PROVE  GoneLeft'
    BY <1>12 DEF VisitConnection, Goto
<1>13. ASSUME NEW f \in Facades, BeginBroadcast(f) \/ BroadcastNext(f)
      PROVE  GoneLeft'
    BY <1>13 DEF BeginBroadcast, BroadcastNext, Unsent
<1>14. CASE UNCHANGED vars
    BY <1>14 DEF vars
<1> QED
    BY <1>1, <1>2, <1>3, <1>4, <1>5, <1>6, <1>7, <1>8, <1>9, <1>10, <1>11, <1>12, <1>13, <1>14
    DEF Next, Finalize

(* Broadcast's comparison with the current UUID leaves out the facade's own entry. *)
LEMMA SkipStep == PInv /\ [Next]_vars => BroadcastSkipsSelf'
<1> SUFFICES ASSUME PInv, [Next]_vars
             PROVE  BroadcastSkipsSelf'
    OBVIOUS
<1> USE PoolAssumption DEF PInv, IInv, TypeOK, Closers, Owner, fields, stopVars,
        sendVars, FinalizeLabels, NameKept, BroadcastSkipsSelf
<1>1. ASSUME NEW f \in Facades, NEW id \in Wanted[f], SetUUID(f, id)
      PROVE  BroadcastSkipsSelf'
    BY <1>1 DEF SetUUID
<1>2. ASSUME NEW t \in Transports, Dial(t)
      PROVE  BroadcastSkipsSelf'
    BY <1>2 DEF Dial, Goto
<1>3. ASSUME NEW t \in Transports, StoreTransport(t)
      PROVE  BroadcastSkipsSelf'
    BY <1>3 DEF StoreTransport, Goto
<1>4. ASSUME NEW t \in Transports, SetAlive(t)
      PROVE  BroadcastSkipsSelf'
    BY <1>4 DEF SetAlive, Goto
<1>5. ASSUME NEW t \in Transports, EnterPool(t)
      PROVE  BroadcastSkipsSelf'
    BY <1>5 DEF EnterPool, Goto
<1>6. ASSUME NEW t \in Transports, ReadEnds(t)
      PROVE  BroadcastSkipsSelf'
    BY <1>6 DEF ReadEnds, Goto
<1>7. ASSUME NEW p \in Closers, CheckCurrent(p)
      PROVE  BroadcastSkipsSelf'
    BY <1>7 DEF CheckCurrent, Goto, Return
<1>8. ASSUME NEW p \in Closers, TakeAlive(p)
      PROVE  BroadcastSkipsSelf'
    BY <1>8 DEF TakeAlive, Goto, Return
<1>9. ASSUME NEW p \in Closers, ClearTransport(p) \/ ReadUUID(p)
      PROVE  BroadcastSkipsSelf'
    BY <1>9 DEF ClearTransport, ReadUUID, Goto
<1>10. ASSUME NEW p \in Closers, LeavePool(p)
      PROVE  BroadcastSkipsSelf'
    BY <1>10 DEF LeavePool, Goto, Return
<1>11. CASE BeginShutdown \/ SnapshotPool \/ LoadTransport
    BY <1>11 DEF BeginShutdown, SnapshotPool, LoadTransport, Goto
<1>12. ASSUME NEW f \in Facades, VisitConnection(f)
      PROVE  BroadcastSkipsSelf'
    BY <1>12 DEF VisitConnection, Goto
<1>13. ASSUME NEW f \in Facades, BeginBroadcast(f) \/ BroadcastNext(f)
      PROVE  BroadcastSkipsSelf'
    BY <1>13 DEF BeginBroadcast, BroadcastNext, Unsent
<1>14. CASE UNCHANGED vars
    BY <1>14 DEF vars
<1> QED
    BY <1>1, <1>2, <1>3, <1>4, <1>5, <1>6, <1>7, <1>8, <1>9, <1>10, <1>11, <1>12, <1>13, <1>14
    DEF Next, Finalize

(* The strengthened invariant is inductive. *)
LEMMA InitPInv == Init => PInv
<1> SUFFICES ASSUME Init
             PROVE  PInv
    OBVIOUS
<1> USE PoolAssumption DEF Init
<1>1. IInv
    BY InitIInv
<1>2. ShutdownOrder /\ OneSession
    BY DEF ShutdownOrder, OneSession, Closers
<1>3. NotOvertaken /\ TransportHeld /\ LiveEntered
    BY DEF NotOvertaken, TransportHeld, LiveEntered, Finalizing, Opening, TransportsOf, Closers
<1>4. SharedTold /\ NameKept
    BY DEF SharedTold, Claims, NameKept
<1>5. GoneLeft /\ BroadcastSkipsSelf
    BY DEF GoneLeft, BroadcastSkipsSelf
<1> QED
    BY <1>1, <1>2, <1>3, <1>4, <1>5 DEF PInv

LEMMA NextPInv == PInv /\ [Next]_vars => PInv'
<1> SUFFICES ASSUME PInv, [Next]_vars
             PROVE  PInv'
    OBVIOUS
<1>1. IInv'
    BY NextIInv DEF PInv
<1> QED
    BY <1>1, ShutdownStep, SessionStep, OvertakenStep, HeldStep, SharedStep, LiveStep,
       NameStep, GoneStep, SkipStep
    DEF PInv

(* Types, keys and the rest of the strengthened invariant hold in every behaviour. *)
THEOREM PoolInvariance == Spec => []PInv
BY InitPInv, NextPInv, PTL DEF Spec

(* EmitTo and the other lookups find every live facade whose OnOpen is over, however
   its old transports close meanwhile and for any number of facades and transports,
   unless its UUID was ever another one's too, or an OnOpen of it overtook a
   finalization, which before Shutdown takes a client that did not wait for
   OnDisconnected. *)
THEOREM LiveFacadesRoutable == Spec => []LiveIsRoutable
<1>1. ASSUME PInv
      PROVE  LiveIsRoutable
    <2> SUFFICES ASSUME NEW f \in Facades, f \in alive, f \notin shared, ~Overtaken(f),
                        \A t \in TransportsOf(f) : at[t] # "enterPool"
                 PROVE  pool[uuid[f]] = f
        BY DEF LiveIsRoutable
    <2>1. f \notin overtaken
        BY <1>1 DEF PInv, OneSession, Overtaken
    <2> QED
        BY <1>1, <2>1 DEF PInv, LiveEntered
<1> QED
    BY <1>1, PoolInvariance, PTL

(* A facade whose sessions are over is nowhere in the pool, Shutdown or not, unless it
   is one that is renamed after it has opened, or one whose OnOpen overtook a
   finalization. *)
THEOREM ClosedFacadesLeave == Spec => []NoGhostEntry
<1>1. ASSUME PInv
      PROVE  NoGhostEntry
    <2> SUFFICES ASSUME NEW f \in Facades \ Renamers, ~New(f), ~Finalizing(f), ~Overtaken(f),
                        \A t \in TransportsOf(f) : at[t] \in {"idle", "over"},
                        NEW id \in Ids, pool[id] = f
                 PROVE  FALSE
        BY DEF NoGhostEntry, Routed
    <2>1. f \notin overtaken
        BY <1>1 DEF PInv, OneSession, Overtaken
    <2>2. uuid[f] = id
        BY <1>1, PoolAssumption DEF PInv, IInv, KeyedByUUID
    <2>3. f \in alive
        BY <1>1, <2>1, <2>2 DEF PInv, GoneLeft
    <2> QED
        BY <1>1, <2>1, <2>3 DEF PInv, TransportHeld
<1> QED
    BY <1>1, PoolInvariance, PTL

(* Broadcast(message, true) never sends to the facade that broadcasts, unless it is
   one that is renamed after it has opened. *)
THEOREM BroadcastLeavesOutSelf == Spec => []BroadcastSkipsSelf
<1>1. PInv => BroadcastSkipsSelf
    BY DEF PInv
<1> QED
    BY <1>1, PoolInvariance, PTL
=============================================================================
