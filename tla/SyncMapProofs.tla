---------------------------- MODULE SyncMapProofs ----------------------------
(***************************************************************************)
(* Proofs about SyncMap: for any number of goroutines and keys and however *)
(* their operations overlap, the counter is off for good only by the keys  *)
(* that a Store brought back and by what ran beside a Clear.               *)
(***************************************************************************)
EXTENDS SyncMap, TLAPS, FiniteSetTheorems

(* Unless operations mix, a Clear or UnmarshalJSON runs alone, ... *)
Apart ==
    ~mixed => \A p, q \in Processes : p # q /\ pc[p] \in Resets => pc[q] = "idle"

(* ... its Range has every key before it that is left, nothing is brought back
   meanwhile, and what it has yet to insert is absent. *)
Placed ==
    ~mixed => \A p \in Processes :
        /\ pc[p] = "clear" => m \subseteq todo[p] /\ revived = 0
        /\ pc[p] \in {"fill", "countFill"} => m \cap data[p] = {}

IInv == TypeOK /\ Apart /\ Placed /\ LenLags

(* The sets that are counted are finite. *)
LEMMA Counted ==
    ASSUME TypeOK
    PROVE  /\ IsFiniteSet(m) /\ IsFiniteSet(Inserted) /\ IsFiniteSet(Deleted)
           /\ Cardinality(m) \in Nat
           /\ Cardinality(Inserted) \in Nat
           /\ Cardinality(Deleted) \in Nat
<1>1. m \subseteq Keys /\ Inserted \subseteq Processes /\ Deleted \subseteq Processes
  BY DEF TypeOK, Inserted, Deleted
<1>2. IsFiniteSet(m) /\ IsFiniteSet(Inserted) /\ IsFiniteSet(Deleted)
  BY <1>1, SyncMapAssumption, FS_Subset
<1> QED
  BY <1>2, FS_CardinalityType

(* An operation other than a Clear that begins without mixing begins beside none. *)
LEMMA BeginsBeside ==
    ASSUME NEW p \in Processes, NEW to \in {"countUp", "overwrite", "countDown"},
           Begins(p, to), ~mixed'
    PROVE  ~mixed /\ \A q \in Processes : pc[q] \notin Resets
<1> QED
  BY DEF Begins

(* The empty map is counted right. *)
LEMMA InitIInv == Init => IInv
<1> SUFFICES ASSUME Init PROVE IInv
  OBVIOUS
<1>1. TypeOK
  <2>1. calls \in 0..MaxCalls /\ revived \in Nat /\ count \in Int
    BY SyncMapAssumption DEF Init
  <2>5. mixed \in BOOLEAN
    BY DEF Init
  <2>2. /\ m \subseteq Keys /\ pc \in [Processes -> Places]
        /\ \A p \in Processes : todo[p] = {} /\ data[p] = {}
    BY DEF Init, Places
  <2>3. key \in [Processes -> Keys]
    BY DEF Init
  <2>4. todo \in [Processes -> SUBSET Keys] /\ data \in [Processes -> SUBSET Keys]
    BY DEF Init
  <2> QED
    BY <2>1, <2>2, <2>3, <2>4, <2>5 DEF TypeOK
<1>4. Apart /\ Placed
  BY DEF Init, Apart, Placed, Resets
<1>2. m = {} /\ Inserted = {} /\ Deleted = {} /\ count = 0 /\ revived = 0
  BY DEF Init, Inserted, Deleted
<1>3. Cardinality(m) = 0 /\ Cardinality(Inserted) = 0 /\ Cardinality(Deleted) = 0
  BY <1>2, FS_EmptySet
<1> QED
  BY <1>1, <1>2, <1>3, <1>4 DEF IInv, LenLags

(* Beginning an operation keeps the operations apart. *)
LEMMA BeginsKeepsApart ==
    ASSUME TypeOK, Apart,
           NEW p \in Processes, NEW to \in {"countUp", "overwrite", "countDown", "clear"},
           Begins(p, to)
    PROVE  Apart'
<1>1. pc[p] = "idle" /\ pc' = [pc EXCEPT ![p] = to]
  BY DEF Begins, At
<1>2. CASE to = "clear"
  <2> SUFFICES ASSUME ~mixed' PROVE Apart'
    BY DEF Apart
  <2>1. \A q \in Processes : pc[q] = "idle"
    BY <1>2 DEF Begins, Quiet
  <2> QED
    BY <1>1, <2>1 DEF Apart, TypeOK, Resets
<1>3. CASE to # "clear"
  <2> SUFFICES ASSUME ~mixed' PROVE Apart'
    BY DEF Apart
  <2>1. \A q \in Processes : pc[q] \notin Resets
    BY <1>3, BeginsBeside
  <2> QED
    BY <1>1, <1>3, <2>1 DEF Apart, TypeOK, Resets
<1> QED
  BY <1>2, <1>3

(* The insertion of an absent key. *)
LEMMA InsertKeeps ==
    ASSUME IInv, NEW p \in Processes, NEW k \in Keys, Insert(p, k)
    PROVE  IInv'
<1> USE DEF IInv
<1>1. TypeOK'
  BY SyncMapAssumption DEF TypeOK, Places, Resets, Insert, Begins, At
<1>2. Apart'
  BY BeginsKeepsApart DEF Insert
<1>3. ASSUME ~mixed' PROVE ~mixed /\ \A q \in Processes : pc[q] \notin Resets
  BY <1>3, BeginsBeside DEF Insert
<1>4. Placed'
  BY <1>3 DEF Placed, Resets, TypeOK, Insert, Begins, At
<1>5. LenLags'
  <2> SUFFICES ASSUME ~mixed' PROVE LenLags'
    BY DEF LenLags
  <2>1. m' = m \cup {k} /\ k \notin m /\ count' = count /\ revived' = revived
    BY DEF Insert
  <2>2. Inserted' = Inserted \cup {p} /\ p \notin Inserted /\ Deleted' = Deleted
    BY DEF TypeOK, Insert, Begins, At, Inserted, Deleted
  <2>3. Cardinality(m') = Cardinality(m) + 1
    BY <2>1, Counted, FS_AddElement
  <2>4. Cardinality(Inserted') = Cardinality(Inserted) + 1
    BY <2>2, Counted, FS_AddElement
  <2>5. count = Cardinality(m) - Cardinality(Inserted) + Cardinality(Deleted) - revived
    BY <1>3 DEF LenLags, Resets
  <2> QED
    BY <2>1, <2>2, <2>3, <2>4, <2>5, Counted DEF LenLags, TypeOK
<1> QED
  BY <1>1, <1>2, <1>4, <1>5

(* The deletion of a key that is present. *)
LEMMA DeleteKeeps ==
    ASSUME IInv, NEW p \in Processes, NEW k \in Keys, LoadAndDelete(p, k)
    PROVE  IInv'
<1> USE DEF IInv
<1>1. TypeOK'
  BY SyncMapAssumption DEF TypeOK, Places, Resets, LoadAndDelete, Begins, At
<1>2. Apart'
  BY BeginsKeepsApart DEF LoadAndDelete
<1>3. ASSUME ~mixed' PROVE ~mixed /\ \A q \in Processes : pc[q] \notin Resets
  BY <1>3, BeginsBeside DEF LoadAndDelete
<1>4. Placed'
  BY <1>3 DEF Placed, Resets, TypeOK, LoadAndDelete, Begins, At
<1>5. LenLags'
  <2> SUFFICES ASSUME ~mixed' PROVE LenLags'
    BY DEF LenLags
  <2>1. m' = m \ {k} /\ k \in m /\ count' = count /\ revived' = revived
    BY DEF LoadAndDelete
  <2>2. Deleted' = Deleted \cup {p} /\ p \notin Deleted /\ Inserted' = Inserted
    BY DEF TypeOK, LoadAndDelete, Begins, At, Inserted, Deleted
  <2>3. Cardinality(m') = Cardinality(m) - 1
    BY <2>1, Counted, FS_RemoveElement
  <2>4. Cardinality(Deleted') = Cardinality(Deleted) + 1
    BY <2>2, Counted, FS_AddElement
  <2>5. count = Cardinality(m) - Cardinality(Inserted) + Cardinality(Deleted) - revived
    BY <1>3 DEF LenLags, Resets
  <2> QED
    BY <2>1, <2>2, <2>3, <2>4, <2>5, Counted DEF LenLags, TypeOK
<1> QED
  BY <1>1, <1>2, <1>4, <1>5

(* Store finds its key present. *)
LEMMA FindKeeps ==
    ASSUME IInv, NEW p \in Processes, NEW k \in Keys, FindPresent(p, k)
    PROVE  IInv'
<1> USE DEF IInv
<1>1. TypeOK'
  BY SyncMapAssumption DEF TypeOK, Places, Resets, FindPresent, Begins, At
<1>2. Apart'
  BY BeginsKeepsApart DEF FindPresent
<1>3. ASSUME ~mixed' PROVE ~mixed /\ \A q \in Processes : pc[q] \notin Resets
  BY <1>3, BeginsBeside DEF FindPresent
<1>4. Placed'
  BY <1>3 DEF Placed, Resets, TypeOK, FindPresent, Begins, At
<1>5. LenLags'
  <2> SUFFICES ASSUME ~mixed' PROVE LenLags'
    BY DEF LenLags
  <2>1. Inserted' = Inserted /\ Deleted' = Deleted
    BY DEF TypeOK, FindPresent, Begins, At, Inserted, Deleted
  <2>2. m' = m /\ count' = count /\ revived' = revived
    BY DEF FindPresent
  <2> QED
    BY <1>3, <2>1, <2>2 DEF LenLags, Resets
<1> QED
  BY <1>1, <1>2, <1>4, <1>5

(* Store overwrites: a key deleted meanwhile comes back, not counted. *)
LEMMA OverwriteKeeps ==
    ASSUME IInv, NEW p \in Processes, Overwrite(p)
    PROVE  IInv'
<1> USE DEF IInv
<1>1. TypeOK'
  BY DEF TypeOK, Places, Resets, Overwrite, At
<1>2. pc[p] = "overwrite" /\ pc' = [pc EXCEPT ![p] = "idle"] /\ mixed' = mixed
  BY DEF Overwrite, At
<1>3. ASSUME ~mixed PROVE \A q \in Processes : pc[q] \notin Resets
  BY <1>2, <1>3 DEF Apart, Resets
<1>4. Apart' /\ Placed'
  BY <1>2, <1>3 DEF Apart, Placed, Resets, TypeOK
<1>5. LenLags'
  <2> SUFFICES ASSUME ~mixed PROVE LenLags'
    BY <1>2 DEF LenLags
  <2>1. Inserted' = Inserted /\ Deleted' = Deleted
    BY <1>2 DEF TypeOK, Inserted, Deleted
  <2>2. count' = count /\ m' = m \cup {key[p]}
    BY DEF Overwrite
  <2>3. Cardinality(m') - revived' = Cardinality(m) - revived
    <3>1. CASE key[p] \in m
      <4>1. m' = m /\ revived' = revived
        BY <2>2, <3>1 DEF Overwrite
      <4> QED
        BY <4>1
    <3>2. CASE key[p] \notin m
      <4>1. revived' = revived + 1
        BY <3>2 DEF Overwrite
      <4>2. Cardinality(m') = Cardinality(m) + 1
        BY <2>2, <3>2, Counted, FS_AddElement
      <4> QED
        BY <4>1, <4>2, Counted DEF TypeOK
    <3> QED
      BY <3>1, <3>2
  <2>4. count = Cardinality(m) - Cardinality(Inserted) + Cardinality(Deleted) - revived
    BY <1>3 DEF LenLags, Resets
  <2>5. /\ Cardinality(m) \in Nat /\ Cardinality(m') \in Nat
        /\ revived \in Nat /\ revived' \in Nat
        /\ Cardinality(Inserted) \in Nat /\ Cardinality(Deleted) \in Nat
    <3>1. IsFiniteSet(m')
      BY <2>2, Counted, FS_AddElement
    <3> QED
      BY <1>1, <3>1, Counted, FS_CardinalityType DEF TypeOK
  <2>6. count' = Cardinality(m') - Cardinality(Inserted) + Cardinality(Deleted) - revived'
    BY <2>2, <2>3, <2>4, <2>5
  <2> QED
    BY <2>1, <2>6 DEF LenLags
<1> QED
  BY <1>1, <1>4, <1>5

(* Counting up, after a Store, a LoadOrStore or an insertion of UnmarshalJSON. *)
LEMMA CountUpKeeps ==
    ASSUME IInv, NEW p \in Processes, CountUp(p) \/ CountFill(p)
    PROVE  IInv'
<1> USE DEF IInv
<1>1. TypeOK'
  BY DEF TypeOK, Places, Resets, history, CountUp, CountFill, At
<1>2. Apart'
  BY DEF Apart, Resets, TypeOK, history, CountUp, CountFill, At
<1>3. Placed'
  BY DEF Placed, TypeOK, history, CountUp, CountFill, At
<1>4. LenLags'
  <2>1. /\ m' = m /\ count' = count + 1
        /\ revived' = revived /\ mixed' = mixed
    BY DEF history, CountUp, CountFill
  <2>2. Inserted' = Inserted \ {p} /\ p \in Inserted /\ Deleted' = Deleted
    BY DEF TypeOK, CountUp, CountFill, At, Inserted, Deleted
  <2>3. Cardinality(Inserted') = Cardinality(Inserted) - 1
    BY <2>2, Counted, FS_RemoveElement
  <2>4. (\A q \in Processes : pc'[q] # "clear") => \A q \in Processes : pc[q] # "clear"
    BY DEF TypeOK, CountUp, CountFill, At
  <2>5. /\ count \in Int /\ Cardinality(m) \in Nat /\ revived \in Nat
        /\ Cardinality(Inserted) \in Nat /\ Cardinality(Deleted) \in Nat
    BY Counted DEF TypeOK
  <2> QED
    BY <2>1, <2>2, <2>3, <2>4, <2>5 DEF LenLags
<1> QED
  BY <1>1, <1>2, <1>3, <1>4

(* Counting down. *)
LEMMA CountDownKeeps ==
    ASSUME IInv, NEW p \in Processes, CountDown(p)
    PROVE  IInv'
<1> USE DEF IInv
<1>1. TypeOK'
  BY DEF TypeOK, Places, Resets, history, CountDown, At
<1>2. Apart'
  BY DEF Apart, Resets, TypeOK, history, CountDown, At
<1>3. Placed'
  BY DEF Placed, TypeOK, history, CountDown, At
<1>4. LenLags'
  <2>1. /\ m' = m /\ count' = count - 1
        /\ revived' = revived /\ mixed' = mixed
    BY DEF history, CountDown
  <2>2. Deleted' = Deleted \ {p} /\ p \in Deleted /\ Inserted' = Inserted
    BY DEF TypeOK, CountDown, At, Inserted, Deleted
  <2>3. Cardinality(Deleted') = Cardinality(Deleted) - 1
    BY <2>2, Counted, FS_RemoveElement
  <2>4. (\A q \in Processes : pc'[q] # "clear") => \A q \in Processes : pc[q] # "clear"
    BY DEF TypeOK, CountDown, At
  <2>5. /\ count \in Int /\ Cardinality(m) \in Nat /\ revived \in Nat
        /\ Cardinality(Inserted) \in Nat /\ Cardinality(Deleted) \in Nat
    BY Counted DEF TypeOK
  <2> QED
    BY <2>1, <2>2, <2>3, <2>4, <2>5 DEF LenLags
<1> QED
  BY <1>1, <1>2, <1>3, <1>4

(* A Clear begins and visits key after key, with the counter out of step. *)
LEMMA ClearKeeps ==
    ASSUME IInv, NEW p \in Processes,
           BeginClear(p) \/ \E k \in Keys : ClearKey(p, k)
    PROVE  IInv'
<1> USE DEF IInv
<1>1. TypeOK'
  <2>1. CASE BeginClear(p)
    <3>1. mixed' \in BOOLEAN
      BY <2>1 DEF BeginClear, Begins, Quiet
    <3>2. calls' \in 0..MaxCalls
      BY <2>1, SyncMapAssumption DEF TypeOK, BeginClear, Begins
    <3>3. PICK keys \in SUBSET Keys : data' = [data EXCEPT ![p] = keys]
      BY <2>1 DEF BeginClear
    <3>4. pc' = [pc EXCEPT ![p] = "clear"] /\ todo' = [todo EXCEPT ![p] = Keys]
      BY <2>1 DEF BeginClear, Begins, At
    <3>5. m' = m /\ count' = count /\ key' = key /\ revived' = 0
      BY <2>1 DEF BeginClear
    <3> QED
      BY <3>1, <3>2, <3>3, <3>4, <3>5 DEF TypeOK, Places, Resets
  <2>2. ASSUME NEW k \in Keys, ClearKey(p, k) PROVE TypeOK'
    BY <2>2 DEF TypeOK, Places, Resets, history, ClearKey, At
  <2> QED
    BY <2>1, <2>2
<1>2. Apart'
  <2>1. CASE BeginClear(p)
    BY <2>1, BeginsKeepsApart DEF BeginClear
  <2>2. ASSUME NEW k \in Keys, ClearKey(p, k) PROVE Apart'
    BY <2>2 DEF ClearKey, At, Apart, TypeOK, Resets, history
  <2> QED
    BY <2>1, <2>2
<1>3. pc'[p] = "clear"
  BY DEF TypeOK, BeginClear, ClearKey, Begins, At
<1>4. LenLags'
  BY <1>3 DEF LenLags
<1>5. Placed'
  <2> SUFFICES ASSUME ~mixed' PROVE Placed'
    BY DEF Placed
  <2>1. \A q \in Processes : q # p => pc'[q] = "idle"
    BY <1>2, <1>3 DEF Apart, Resets
  <2>2. m' \subseteq todo'[p] /\ revived' = 0
    BY DEF TypeOK, Placed, history, BeginClear, ClearKey, Begins, At
  <2> QED
    BY <1>3, <2>1, <2>2 DEF Placed
<1> QED
  BY <1>1, <1>2, <1>4, <1>5

(* The end of a Clear that ran alone: an empty map, nobody else in progress, a counter
   at zero, and nothing brought back since it began. *)
LEMMA ClearCountKeeps ==
    ASSUME IInv, NEW p \in Processes, ClearCount(p)
    PROVE  IInv'
<1> USE DEF IInv
<1>1. TypeOK'
  BY DEF TypeOK, Places, Resets, history, ClearCount, At
<1>2. mixed' = mixed /\ revived' = revived
  BY DEF ClearCount, history
<1> SUFFICES ASSUME ~mixed PROVE Apart' /\ Placed' /\ LenLags'
  <2>1. CASE mixed'
    BY <1>1, <2>1 DEF Apart, Placed, LenLags
  <2> QED
    BY <1>1, <1>2, <2>1
<1>3. \A q \in Processes : q # p => pc'[q] = "idle"
  BY DEF Apart, Resets, TypeOK, ClearCount, At
<1>4. pc'[p] \in {"idle", "fill"}
  BY DEF TypeOK, ClearCount, At
<1>5. m' = {} /\ count' = 0 /\ revived' = 0
  BY <1>2 DEF Placed, TypeOK, ClearCount, At
<1>6. Apart' /\ Placed'
  BY <1>3, <1>4, <1>5 DEF Apart, Placed, Resets
<1>7. LenLags'
  <2>1. Inserted' = {} /\ Deleted' = {}
    BY <1>3, <1>4 DEF Inserted, Deleted
  <2>2. Cardinality(m') = 0 /\ Cardinality(Inserted') = 0 /\ Cardinality(Deleted') = 0
    BY <1>5, <2>1, FS_EmptySet
  <2> QED
    BY <1>5, <2>2 DEF LenLags
<1> QED
  BY <1>6, <1>7

(* UnmarshalJSON inserts a key, absent when it runs alone. *)
LEMMA FillKeeps ==
    ASSUME IInv, NEW p \in Processes, NEW k \in Keys, Fill(p, k)
    PROVE  IInv'
<1> USE DEF IInv
<1>1. TypeOK'
  BY DEF TypeOK, Places, Resets, history, Fill, At
<1>2. mixed' = mixed /\ revived' = revived
  BY DEF Fill, history
<1> SUFFICES ASSUME ~mixed PROVE Apart' /\ Placed' /\ LenLags'
  <2>1. CASE mixed'
    BY <1>1, <2>1 DEF Apart, Placed, LenLags
  <2> QED
    BY <1>1, <1>2, <2>1
<1>3. pc[p] = "fill" /\ pc' = [pc EXCEPT ![p] = "countFill"]
  BY DEF Fill, At
<1>4. \A q \in Processes : q # p => pc[q] = "idle"
  BY <1>3 DEF Apart, Resets
<1>5. Apart'
  BY <1>3, <1>4 DEF Apart, Resets, TypeOK
<1>6. k \notin m /\ m' = m \cup {k} /\ count' = count
  BY <1>3 DEF Placed, Fill
<1>7. Placed'
  <2>1. m' \cap data'[p] = {}
    BY <1>3, <1>6 DEF Placed, Fill, TypeOK
  <2> QED
    BY <1>3, <1>4, <2>1 DEF Placed, TypeOK
<1>8. LenLags'
  <2>1. Inserted' = Inserted \cup {p} /\ p \notin Inserted /\ Deleted' = Deleted
    BY <1>3 DEF TypeOK, Inserted, Deleted
  <2>2. Cardinality(m') = Cardinality(m) + 1
    BY <1>6, Counted, FS_AddElement
  <2>3. Cardinality(Inserted') = Cardinality(Inserted) + 1
    BY <2>1, Counted, FS_AddElement
  <2>4. count = Cardinality(m) - Cardinality(Inserted) + Cardinality(Deleted) - revived
    BY <1>3, <1>4 DEF LenLags
  <2> QED
    BY <1>2, <1>6, <2>1, <2>2, <2>3, <2>4, Counted DEF LenLags, TypeOK
<1> QED
  BY <1>5, <1>7, <1>8

(* Every step keeps the invariant. *)
LEMMA NextIInv ==
    ASSUME IInv, [Next]_vars
    PROVE  IInv'
<1>1. CASE UNCHANGED vars
  BY <1>1 DEF IInv, vars, TypeOK, Apart, Placed, LenLags, Inserted, Deleted
<1>2. CASE Next
  <2>1. PICK p \in Processes :
           \/ \E k \in Keys : Insert(p, k) \/ LoadAndDelete(p, k) \/ Fill(p, k)
           \/ (\E k \in Keys : FindPresent(p, k)) \/ Overwrite(p)
           \/ CountUp(p) \/ CountFill(p)
           \/ CountDown(p)
           \/ BeginClear(p) \/ \E k \in Keys : ClearKey(p, k)
           \/ ClearCount(p)
    BY <1>2 DEF Next
  <2> QED
    BY <2>1, InsertKeeps, DeleteKeeps, FillKeeps, FindKeeps, OverwriteKeeps,
       CountUpKeeps, CountDownKeeps, ClearKeeps, ClearCountKeeps
<1> QED
  BY <1>1, <1>2

(* IInv is an invariant, whatever operations overlap. *)
THEOREM Invariance == Spec => []IInv
<1>1. IInv /\ [Next]_vars => IInv'
  BY NextIInv
<1> QED
  BY InitIInv, <1>1, PTL DEF Spec

(* Len lags behind the map by the operations that have not counted yet and the keys a
   Store brought back, unless something ran beside a Clear or UnmarshalJSON. *)
THEOREM CounterLags == Spec => []LenLags
<1>1. IInv => LenLags
  BY DEF IInv
<1> QED
  BY Invariance, <1>1, PTL

(* When no operation is in progress Len is wrong by exactly the keys a Store brought
   back, unless something ran beside a Clear or UnmarshalJSON: no other overlap of
   operations makes the counter drift, and a Clear that runs alone repairs it. *)
THEOREM CounterSettles == Spec => []LenSettles
<1>1. IInv => LenSettles
  <2> SUFFICES ASSUME IInv, Quiet, ~mixed PROVE count = Cardinality(m) - revived
    BY DEF LenSettles
  <2>1. Inserted = {} /\ Deleted = {}
    BY DEF Quiet, Inserted, Deleted
  <2>2. Cardinality(Inserted) = 0 /\ Cardinality(Deleted) = 0
    BY <2>1, FS_EmptySet
  <2>3. count = Cardinality(m) - Cardinality(Inserted) + Cardinality(Deleted) - revived
    BY DEF IInv, LenLags, Quiet
  <2> QED
    BY <2>2, <2>3, Counted DEF IInv, TypeOK
<1> QED
  BY Invariance, <1>1, PTL
=============================================================================
