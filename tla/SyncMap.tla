------------------------------- MODULE SyncMap -------------------------------
(***************************************************************************)
(* syncmap.SyncMap (syncmap/syncmap.go): a sync.Map and, beside it, an     *)
(* atomic counter so that Len takes constant time.  No lock covers the     *)
(* two: every operation changes the map first and the counter in a later   *)
(* step, and other goroutines may run in between.                          *)
(*                                                                         *)
(* Which keys are present is kept, the values are not: no property depends *)
(* on them.  Delete and LoadAndDelete change the state in the same way and *)
(* so share their actions, as do the paths of LoadOrStore and Store for an *)
(* absent key.                                                             *)
(*                                                                         *)
(* External: each call on the sync.Map is atomic, except that its Range    *)
(* visits every key at a moment of its own.                                *)
(***************************************************************************)
EXTENDS Integers, FiniteSets

CONSTANTS
    Processes,  \* goroutines that share the map
    Keys,
    MaxCalls    \* bound on the operations begun that change the map

ASSUME SyncMapAssumption ==
    IsFiniteSet(Processes) /\ IsFiniteSet(Keys) /\ MaxCalls \in Nat

VARIABLES
    m,          \* keys in the sync.Map
    count,      \* the counter
    pc,         \* where each process is in its operation
    key,        \* the key it works on
    todo,       \* keys its Range has yet to visit
    data,       \* keys its UnmarshalJSON has yet to insert
    calls,      \* operations begun
    revived,    \* overwrites, since the last Clear began, of a key deleted meanwhile
    mixed       \* an operation has run beside a Clear or UnmarshalJSON since then

vars == <<m, count, pc, key, todo, data, calls, revived, mixed>>

\* Bookkeeping that no operation reads.
history == <<calls, revived, mixed>>

Init ==
    /\ m = {}
    /\ count = 0
    /\ pc = [p \in Processes |-> "idle"]
    /\ key \in [Processes -> Keys]
    /\ todo = [p \in Processes |-> {}]
    /\ data = [p \in Processes |-> {}]
    /\ calls = 0
    /\ revived = 0
    /\ mixed = FALSE

Resets == {"clear", "fill", "countFill"}

Quiet == \A p \in Processes : pc[p] = "idle"

At(p, from, to) ==
    /\ pc[p] = from
    /\ pc' = [pc EXCEPT ![p] = to]

\* Any goroutine may begin any operation at any time.
Begins(p, to) ==
    /\ At(p, "idle", to)
    /\ calls < MaxCalls
    /\ calls' = calls + 1
    /\ mixed' = IF to = "clear" THEN ~Quiet
                ELSE mixed \/ \E q \in Processes : pc[q] \in Resets

-----------------------------------------------------------------------------
(***************************************************************************)
(* Store, LoadOrStore: an absent key is inserted and then counted.  Store  *)
(* overwrites the value of a key that was present, or was a moment ago.    *)
(***************************************************************************)
Insert(p, k) ==
    /\ Begins(p, "countUp")
    /\ k \notin m
    /\ m' = m \cup {k}
    /\ key' = [key EXCEPT ![p] = k]
    /\ UNCHANGED <<count, todo, data, revived>>

FindPresent(p, k) ==
    /\ Begins(p, "overwrite")
    /\ k \in m
    /\ key' = [key EXCEPT ![p] = k]
    /\ UNCHANGED <<m, count, todo, data, revived>>

Overwrite(p) ==
    /\ At(p, "overwrite", "idle")
    /\ m' = m \cup {key[p]}
    /\ revived' = IF key[p] \in m THEN revived ELSE revived + 1
    /\ UNCHANGED <<count, key, todo, data, calls, mixed>>

CountUp(p) ==
    /\ At(p, "countUp", "idle")
    /\ count' = count + 1
    /\ UNCHANGED <<m, key, todo, data, history>>

(***************************************************************************)
(* Delete, LoadAndDelete: a key that was present is counted down.          *)
(***************************************************************************)
LoadAndDelete(p, k) ==
    /\ Begins(p, "countDown")
    /\ k \in m
    /\ m' = m \ {k}
    /\ key' = [key EXCEPT ![p] = k]
    /\ UNCHANGED <<count, todo, data, revived>>

CountDown(p) ==
    /\ At(p, "countDown", "idle")
    /\ count' = count - 1
    /\ UNCHANGED <<m, key, todo, data, history>>

(***************************************************************************)
(* Clear visits and deletes key by key and then zeroes the counter.        *)
(* UnmarshalJSON is a Clear and then, key by key, an insertion that is     *)
(* counted whether or not the key was absent.  A Clear is an UnmarshalJSON *)
(* without keys.                                                           *)
(***************************************************************************)
BeginClear(p) ==
    /\ Begins(p, "clear")
    /\ \E keys \in SUBSET Keys : data' = [data EXCEPT ![p] = keys]
    /\ todo' = [todo EXCEPT ![p] = Keys]
    /\ revived' = 0
    /\ UNCHANGED <<m, count, key>>

ClearKey(p, k) ==
    /\ At(p, "clear", "clear")
    /\ k \in todo[p]
    /\ m' = m \ {k}
    /\ todo' = [todo EXCEPT ![p] = @ \ {k}]
    /\ UNCHANGED <<count, key, data, history>>

\* Mutant: the counter is not zeroed.
ClearKeepingCount(p) ==
    /\ At(p, "clear", IF data[p] = {} THEN "idle" ELSE "fill")
    /\ todo[p] = {}
    /\ UNCHANGED <<m, count, key, todo, data, history>>

ClearCount(p) ==
    /\ At(p, "clear", IF data[p] = {} THEN "idle" ELSE "fill")
    /\ todo[p] = {}
    /\ count' = 0
    /\ UNCHANGED <<m, key, todo, data, history>>

Fill(p, k) ==
    /\ At(p, "fill", "countFill")
    /\ k \in data[p]
    /\ m' = m \cup {k}
    /\ data' = [data EXCEPT ![p] = @ \ {k}]
    /\ UNCHANGED <<count, key, todo, history>>

CountFill(p) ==
    /\ At(p, "countFill", IF data[p] = {} THEN "idle" ELSE "fill")
    /\ count' = count + 1
    /\ UNCHANGED <<m, key, todo, data, history>>

Next ==
    \E p \in Processes :
        \/ \E k \in Keys :
             \/ Insert(p, k)
             \/ FindPresent(p, k)
             \/ LoadAndDelete(p, k)
             \/ ClearKey(p, k)
             \/ Fill(p, k)
        \/ Overwrite(p)
        \/ CountUp(p)
        \/ CountDown(p)
        \/ BeginClear(p)
        \/ ClearCount(p)
        \/ CountFill(p)

Spec == Init /\ [][Next]_vars

-----------------------------------------------------------------------------
Places == {"idle", "countUp", "overwrite", "countDown", "clear", "fill", "countFill"}

(* The values the variables range over; a Range or an insertion loop leaves nothing
   undone. *)
TypeOK ==
    /\ m \subseteq Keys
    /\ count \in Int
    /\ pc \in [Processes -> Places]
    /\ key \in [Processes -> Keys]
    /\ todo \in [Processes -> SUBSET Keys]
    /\ data \in [Processes -> SUBSET Keys]
    /\ calls \in 0..MaxCalls
    /\ revived \in Nat
    /\ mixed \in BOOLEAN
    /\ \A p \in Processes :
          /\ todo[p] # {} => pc[p] = "clear"
          /\ data[p] # {} => pc[p] \in Resets

Inserted == {p \in Processes : pc[p] \in {"countUp", "countFill"}}

Deleted == {p \in Processes : pc[p] = "countDown"}

(* While operations are in progress Len lags by exactly those that changed the map
   and have not counted yet.  It may so be negative, while a Delete has undone an
   insertion that is not counted, and Keys, which allocates with that capacity, then
   panics. *)
LenLags ==
    (~mixed /\ \A p \in Processes : pc[p] # "clear") =>
        count = Cardinality(m) - Cardinality(Inserted) + Cardinality(Deleted) - revived

(* Two things only make Len wrong for good ("Len returns the number of elements in
   the map"), however the operations overlap: a Store that brings back a key deleted
   between its two steps, by one each, and an operation beside a Clear or an
   UnmarshalJSON.  All else settles once no operation is in progress, and a Clear that
   runs alone repairs the counter whatever happened before it. *)
LenSettles == (Quiet /\ ~mixed) => count = Cardinality(m) - revived
=============================================================================
