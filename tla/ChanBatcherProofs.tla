-------------------------- MODULE ChanBatcherProofs --------------------------
(***************************************************************************)
(* For any items, any number of workers, and queues and batches of any     *)
(* size: the channel batcher loses, doubles and reorders nothing.          *)
(*                                                                         *)
(* The invariant has two parts.  Sizes: a target is judged when the worker *)
(* has looked at the queue, and a batch that is not full is smaller than   *)
(* the largest one.  The account: the queue is the end of what was         *)
(* accepted, and every item before it has one place.  It is stated of      *)
(* sequences and sets, so that a step is a change of its arguments.        *)
(***************************************************************************)
EXTENDS ChanBatcher, FiniteSetTheorems, TLAPS

Sizes ==
    /\ stopper # "idle" => done
    /\ \A w \in Workers :
          /\ worker[w] # "size" => target[w] <= LargestBatch
          /\ worker[w] \in {"size", "select"} => Len(buffer[w]) < LargestBatch

-----------------------------------------------------------------------------
\* q holds the last items of a, which has no item twice.
EndOf(a, q) ==
    /\ a \in Seq(Items)
    /\ q \in Seq(Items)
    /\ Len(q) <= Len(a)
    /\ \A n \in 1..Len(q) : q[n] = a[Len(a) - Len(q) + n]
    /\ \A m, n \in 1..Len(a) : a[m] = a[n] => m = n

\* The items of a that are no longer in q.
Taken(a, q) == {a[n] : n \in 1..(Len(a) - Len(q))}

\* The items of a batch, and whether they follow the order of a.
Real(batch) == {batch[n] : n \in 1..Len(batch)} \ {ZeroItem}

Follows(batch, a) ==
    \A m, n \in 1..Len(batch), j, k \in 1..Len(a) :
        m < n /\ a[j] = batch[m] /\ a[k] = batch[n] => j < k

\* Every item that was taken has one place.
Placed(taken, b, p, d) ==
    /\ taken = {i \in Items : p[i] > 0} \cup d \cup UNION {Real(b[w]) : w \in Workers}
    /\ \A i \in Items : p[i] <= 1
    /\ \A i \in d : p[i] = 0
    /\ \A w \in Workers :
          /\ \A i \in Real(b[w]) : p[i] = 0 /\ i \notin d
          /\ \A v \in Workers \ {w} : Real(b[w]) \cap Real(b[v]) = {}

Ledger(a, q, b, p, d) ==
    /\ EndOf(a, q)
    /\ Placed(Taken(a, q), b, p, d)
    /\ \A w \in Workers : Follows(b[w], a)

\* An item is accepted by its one Add.
AcceptedOnce == \A n \in 1..Len(accepted) : adder[accepted[n]] = "sent"

Account == Ledger(accepted, queue, buffer, processed, dropped) /\ AcceptedOnce

IInv == TypeOK /\ Sizes /\ Account

-----------------------------------------------------------------------------
\* An item that is sent goes to the end of both.
LEMMA SendKeeps ==
    ASSUME NEW a, NEW q, EndOf(a, q), NEW i \in Items, \A n \in 1..Len(a) : a[n] # i
    PROVE  /\ EndOf(Append(a, i), Append(q, i))
           /\ Taken(Append(a, i), Append(q, i)) = Taken(a, q)
<1>1. /\ Append(a, i) \in Seq(Items)
      /\ Len(Append(a, i)) = Len(a) + 1
      /\ Append(a, i)[Len(a) + 1] = i
      /\ \A n \in 1..Len(a) : Append(a, i)[n] = a[n]
    BY DEF EndOf
<1>2. /\ Append(q, i) \in Seq(Items)
      /\ Len(Append(q, i)) = Len(q) + 1
      /\ Append(q, i)[Len(q) + 1] = i
      /\ \A n \in 1..Len(q) : Append(q, i)[n] = q[n]
    BY DEF EndOf
<1>3. Len(a) \in Nat /\ Len(q) \in Nat
    BY DEF EndOf
<1>4. ASSUME NEW n \in 1..Len(Append(q, i))
      PROVE  Append(q, i)[n] = Append(a, i)[Len(Append(a, i)) - Len(Append(q, i)) + n]
    <2>1. CASE n = Len(q) + 1
        BY <1>1, <1>2, <1>3, <2>1
    <2>2. CASE n \in 1..Len(q)
        <3>1. /\ Len(a) - Len(q) + n \in 1..Len(a)
              /\ Len(Append(a, i)) - Len(Append(q, i)) + n = Len(a) - Len(q) + n
            BY <1>1, <1>2, <1>3, <2>2 DEF EndOf
        <3>2. q[n] = a[Len(a) - Len(q) + n]
            BY <2>2 DEF EndOf
        <3> QED
            BY <1>1, <1>2, <2>2, <3>1, <3>2
    <2>3. n = Len(q) + 1 \/ n \in 1..Len(q)
        BY <1>2, <1>3
    <2> QED
        BY <2>1, <2>2, <2>3
<1>5. \A m, n \in 1..Len(Append(a, i)) : Append(a, i)[m] = Append(a, i)[n] => m = n
    <2>1. \A m, n \in 1..Len(a) : a[m] = a[n] => m = n
        BY DEF EndOf
    <2> QED
        BY <1>1, <1>3, <2>1
<1>6. EndOf(Append(a, i), Append(q, i))
    <2>1. Len(Append(q, i)) <= Len(Append(a, i))
        BY <1>1, <1>2, <1>3 DEF EndOf
    <2> QED
        BY <1>1, <1>2, <1>4, <1>5, <2>1, Zenon DEF EndOf
<1>7. Len(Append(a, i)) - Len(Append(q, i)) = Len(a) - Len(q)
    BY <1>1, <1>2, <1>3
<1>8. \A n \in 1..(Len(a) - Len(q)) : Append(a, i)[n] = a[n]
    BY <1>1, <1>3
<1> QED
    BY <1>6, <1>7, <1>8 DEF Taken

\* The item at the head of the queue has not been taken before.
LEMMA HeadTaken ==
    ASSUME NEW a, NEW q, EndOf(a, q), q # <<>>
    PROVE  /\ EndOf(a, Tail(q))
           /\ Taken(a, Tail(q)) = Taken(a, q) \cup {Head(q)}
           /\ Head(q) \in Items \ Taken(a, q)
           /\ Head(q) = a[Len(a) - Len(q) + 1]
<1>1. /\ Len(q) \in Nat \ {0}
      /\ Tail(q) \in Seq(Items)
      /\ Len(Tail(q)) = Len(q) - 1
      /\ \A n \in 1..Len(Tail(q)) : Tail(q)[n] = q[n + 1]
      /\ Head(q) = q[1]
      /\ Head(q) \in Items
    BY DEF EndOf
<1>2. Head(q) = a[Len(a) - Len(q) + 1]
    BY <1>1 DEF EndOf
<1>3. EndOf(a, Tail(q))
    BY <1>1 DEF EndOf
<1>4. Taken(a, Tail(q)) = Taken(a, q) \cup {Head(q)}
    <2> DEFINE t == Len(a) - Len(q)
    <2>1. t \in Nat /\ Len(a) - Len(Tail(q)) = t + 1
        BY <1>1 DEF EndOf
    <2>2. 1..(t + 1) = 1..t \cup {t + 1}
        BY <2>1
    <2> QED
        BY <1>2, <2>1, <2>2 DEF Taken
<1>5. Head(q) \notin Taken(a, q)
    <2>1. /\ Len(a) - Len(q) + 1 \in 1..Len(a)
          /\ 1..(Len(a) - Len(q)) \subseteq 1..Len(a)
          /\ Len(a) - Len(q) + 1 \notin 1..(Len(a) - Len(q))
        BY <1>1 DEF EndOf
    <2>2. \A n \in 1..(Len(a) - Len(q)) : a[n] # a[Len(a) - Len(q) + 1]
        BY <2>1 DEF EndOf
    <2> QED
        BY <1>2, <2>2 DEF Taken
<1> QED
    BY <1>1, <1>2, <1>3, <1>4, <1>5

\* Every item of a is taken or waiting, and not both.
LEMMA TakenAndWaiting ==
    ASSUME NEW a, NEW q, EndOf(a, q)
    PROVE  /\ {a[n] : n \in 1..Len(a)} = Taken(a, q) \cup {q[n] : n \in 1..Len(q)}
           /\ Taken(a, q) \cap {q[n] : n \in 1..Len(q)} = {}
           /\ \A m, n \in 1..Len(q) : q[m] = q[n] => m = n
<1> DEFINE t == Len(a) - Len(q)
<1>1. t \in Nat /\ Len(q) \in Nat /\ Len(a) = t + Len(q)
    BY DEF EndOf
<1>2. \A n \in 1..Len(q) : q[n] = a[t + n]
    BY DEF EndOf
<1>3. \A m, n \in 1..Len(a) : a[m] = a[n] => m = n
    BY DEF EndOf
<1>4. Taken(a, q) = {a[n] : n \in 1..t}
    BY DEF Taken
<1> HIDE DEF t
<1>5. /\ 1..Len(a) = 1..t \cup {t + n : n \in 1..Len(q)}
      /\ \A n \in 1..Len(q) : t + n \in 1..Len(a) /\ t + n \notin 1..t
    <2>1. ASSUME NEW m \in 1..Len(a), m \notin 1..t
          PROVE  \E n \in 1..Len(q) : m = t + n
        <3>1. m - t \in 1..Len(q) /\ m = t + (m - t)
            BY <1>1, <2>1
        <3> QED
            BY <3>1
    <2>2. /\ 1..t \subseteq 1..Len(a)
          /\ \A n \in 1..Len(q) : t + n \in 1..Len(a) /\ t + n \notin 1..t
        BY <1>1
    <2> QED
        BY <2>1, <2>2
<1>6. {q[n] : n \in 1..Len(q)} = {a[m] : m \in {t + n : n \in 1..Len(q)}}
    BY <1>2
<1>7. 1..t \subseteq 1..Len(a)
    BY <1>1
<1>8. \A m, n \in 1..Len(q) : q[m] = q[n] => m = n
    <2> TAKE m, n \in 1..Len(q)
    <2>1. q[m] = q[n] => t + m = t + n
        BY <1>2, <1>3, <1>5
    <2> QED
        BY <1>1, <2>1
<1>9. {a[n] : n \in 1..Len(a)} = Taken(a, q) \cup {q[n] : n \in 1..Len(q)}
    BY <1>4, <1>5, <1>6
<1>10. \A m \in 1..t, n \in 1..Len(q) : a[m] # q[n]
    <2> TAKE m \in 1..t, n \in 1..Len(q)
    <2>1. m \in 1..Len(a) /\ t + n \in 1..Len(a) /\ m # t + n
        BY <1>5, <1>7
    <2> QED
        BY <1>2, <1>3, <2>1
<1> QED
    BY <1>4, <1>8, <1>9, <1>10

\* A batch follows the order although more items are sent.
LEMMA FollowsSend ==
    ASSUME NEW a \in Seq(Items), NEW i \in Items, NEW batch \in Seq(Items \cup {ZeroItem}),
           Follows(batch, a), i \notin Real(batch)
    PROVE  Follows(batch, Append(a, i))
<1>1. i # ZeroItem
    BY BatcherAssumption
<1>2. \A n \in 1..Len(batch) : batch[n] # i
    BY <1>1 DEF Real
<1>3. /\ Len(Append(a, i)) = Len(a) + 1
      /\ Append(a, i)[Len(a) + 1] = i
      /\ \A n \in 1..Len(a) : Append(a, i)[n] = a[n]
    OBVIOUS
<1> QED
    BY <1>2, <1>3 DEF Follows

\* What is taken from the queue comes after everything taken before.
LEMMA FollowsReceive ==
    ASSUME NEW a, NEW q, EndOf(a, q), q # <<>>,
           NEW batch \in Seq(Items \cup {ZeroItem}),
           Follows(batch, a), Real(batch) \subseteq Taken(a, q)
    PROVE  Follows(Append(batch, Head(q)), a)
<1> DEFINE t == Len(a) - Len(q)
<1>1. /\ t \in Nat
      /\ t + 1 \in 1..Len(a)
      /\ Head(q) = a[t + 1]
    BY HeadTaken DEF EndOf
<1>2. /\ Len(Append(batch, Head(q))) = Len(batch) + 1
      /\ Append(batch, Head(q))[Len(batch) + 1] = Head(q)
      /\ \A n \in 1..Len(batch) : Append(batch, Head(q))[n] = batch[n]
    OBVIOUS
<1>3. ASSUME NEW m \in 1..Len(batch), NEW j \in 1..Len(a), a[j] = batch[m]
      PROVE  j <= t
    <2>1. a[j] # ZeroItem
        BY BatcherAssumption DEF EndOf
    <2>2. a[j] \in Real(batch)
        BY <1>3, <2>1 DEF Real
    <2>3. PICK n \in 1..t : a[j] = a[n]
        BY <2>2 DEF Taken
    <2> QED
        BY <1>1, <2>3 DEF EndOf
<1>4. \A k \in 1..Len(a) : a[k] = Head(q) => k = t + 1
    BY <1>1 DEF EndOf
<1> HIDE DEF t
<1> QED
    BY <1>1, <1>2, <1>3, <1>4 DEF Follows

\* A zero value has no place in that order.
LEMMA FollowsZero ==
    ASSUME NEW a \in Seq(Items), NEW batch \in Seq(Items \cup {ZeroItem}), Follows(batch, a)
    PROVE  Follows(Append(batch, ZeroItem), a)
<1>1. /\ Len(Append(batch, ZeroItem)) = Len(batch) + 1
      /\ Append(batch, ZeroItem)[Len(batch) + 1] = ZeroItem
      /\ \A n \in 1..Len(batch) : Append(batch, ZeroItem)[n] = batch[n]
    OBVIOUS
<1>2. \A j \in 1..Len(a) : a[j] # ZeroItem
    BY BatcherAssumption
<1> QED
    BY <1>1, <1>2 DEF Follows

LEMMA RealAppend ==
    ASSUME NEW batch \in Seq(Items \cup {ZeroItem}), NEW i \in Items \cup {ZeroItem}
    PROVE  Real(Append(batch, i)) = Real(batch) \cup ({i} \ {ZeroItem})
<1>1. /\ Len(Append(batch, i)) = Len(batch) + 1
      /\ Append(batch, i)[Len(batch) + 1] = i
      /\ \A n \in 1..Len(batch) : Append(batch, i)[n] = batch[n]
    OBVIOUS
<1>2. 1..(Len(batch) + 1) = 1..Len(batch) \cup {Len(batch) + 1}
    OBVIOUS
<1> QED
    BY <1>1, <1>2 DEF Real

\* An item that follows the order of a, where it is once, is in its batch once.
LEMMA OccursOnce ==
    ASSUME NEW a, NEW q, EndOf(a, q), NEW batch \in Seq(Items \cup {ZeroItem}),
           Follows(batch, a), Real(batch) \subseteq Taken(a, q), NEW i \in Items
    PROVE  Occurrences(i, batch) = IF i \in Real(batch) THEN 1 ELSE 0
<1> DEFINE at == {n \in 1..Len(batch) : batch[n] = i}
<1>1. i # ZeroItem
    BY BatcherAssumption
<1>2. CASE i \in Real(batch)
    <2>1. PICK n \in 1..Len(batch) : batch[n] = i
        BY <1>2 DEF Real
    <2>2. PICK j \in 1..Len(a) : a[j] = i
        BY <1>2 DEF Taken, EndOf
    <2>3. \A m \in 1..Len(batch) : batch[m] = i => m = n
        BY <2>1, <2>2 DEF Follows
    <2>4. at = {n}
        BY <2>1, <2>3
    <2> QED
        BY <1>2, <2>4, FS_Singleton DEF Occurrences
<1>3. CASE i \notin Real(batch)
    <2>1. at = {}
        BY <1>1, <1>3 DEF Real
    <2> QED
        BY <1>3, <2>1, FS_EmptySet DEF Occurrences
<1> QED
    BY <1>2, <1>3

\* The configured sizes are natural numbers, and a minimum is never zero.
LEMMA ConfiguredSizes ==
    /\ QueueSize \in Nat /\ QueueSize > 0
    /\ BatchSize \in Nat
    /\ minBatchSize \in Nat /\ minBatchSize > 0
    /\ maxBatchSize \in Nat
<1>1. BatchSize >= 4 => BatchSize \div 4 \in Nat /\ BatchSize \div 4 > 0
    BY BatcherAssumption
<1> QED
    BY <1>1, BatcherAssumption DEF minBatchSize, maxBatchSize

\* No share is larger than its range.
LEMMA ShareBounded ==
    ASSUME NEW range \in Nat, NEW length \in 0..QueueSize
    PROVE  Share(range, length) \in Nat /\ Share(range, length) <= range
<1>1. length \in Nat /\ QueueSize \in Nat \ {0} /\ length <= QueueSize
    BY ConfiguredSizes
<1>2. range * length \in Nat /\ range * length <= range * QueueSize
    BY <1>1
<1>3. Share(range, length) \in Nat /\ QueueSize * Share(range, length) <= range * length
    BY <1>1, <1>2 DEF Share
<1> HIDE DEF Share
<1> QED
    BY <1>1, <1>2, <1>3

\* No target is larger than the largest batch, whatever the queue holds.
LEMMA TargetBounded ==
    ASSUME NEW length \in 0..QueueSize
    PROVE  /\ CalculateDynamicBatchSize(length) \in Nat
           /\ CalculateDynamicBatchSize(length) <= LargestBatch
<1> USE ConfiguredSizes DEF LargestBatch
<1>1. CASE ~DynamicBatching
    BY <1>1 DEF CalculateDynamicBatchSize
<1>2. CASE DynamicBatching /\ minBatchSize <= maxBatchSize
    <2> DEFINE share == Share(maxBatchSize - minBatchSize, length)
    <2>1. maxBatchSize - minBatchSize \in Nat
        BY <1>2
    <2>2. share \in Nat /\ share <= maxBatchSize - minBatchSize
        BY <2>1, ShareBounded
    <2>3. \/ CalculateDynamicBatchSize(length) = maxBatchSize
          \/ CalculateDynamicBatchSize(length) = minBatchSize
          \/ CalculateDynamicBatchSize(length) = minBatchSize + share
        BY <1>2 DEF CalculateDynamicBatchSize
    <2> HIDE DEF share
    <2> QED
        BY <1>2, <2>2, <2>3
<1>3. CASE DynamicBatching /\ minBatchSize > maxBatchSize
    <2> DEFINE share == Share(minBatchSize - maxBatchSize, length)
    <2>1. minBatchSize - maxBatchSize \in Nat
        BY <1>3
    <2>2. share \in Nat /\ share <= minBatchSize - maxBatchSize
        BY <2>1, ShareBounded
    <2>3. \/ CalculateDynamicBatchSize(length) = maxBatchSize
          \/ CalculateDynamicBatchSize(length) = minBatchSize
          \/ CalculateDynamicBatchSize(length) = minBatchSize - share
        BY <1>3 DEF CalculateDynamicBatchSize
    <2> HIDE DEF share
    <2> QED
        BY <1>3, <2>2, <2>3
<1> QED
    BY <1>1, <1>2, <1>3

-----------------------------------------------------------------------------
(***************************************************************************)
(* What a worker does to the places of the items.                          *)
(***************************************************************************)
Batches == [Workers -> Seq(Items \cup {ZeroItem})]

LEMMA PlacedReceive ==
    ASSUME NEW taken, NEW b \in Batches, NEW p \in [Items -> Nat], NEW d \in SUBSET Items,
           Placed(taken, b, p, d), NEW w \in Workers, NEW i \in Items, i \notin taken
    PROVE  Placed(taken \cup {i}, [b EXCEPT ![w] = Append(b[w], i)], p, d)
<1> DEFINE after == [b EXCEPT ![w] = Append(b[w], i)]
<1>1. i # ZeroItem
    BY BatcherAssumption
<1>2. /\ Real(after[w]) = Real(b[w]) \cup {i}
      /\ \A v \in Workers \ {w} : Real(after[v]) = Real(b[v])
    <2>1. b[w] \in Seq(Items \cup {ZeroItem})
        BY DEF Batches
    <2>2. Real(Append(b[w], i)) = Real(b[w]) \cup {i}
        BY <1>1, <2>1, RealAppend
    <2>3. /\ after[w] = Append(b[w], i)
          /\ \A v \in Workers \ {w} : after[v] = b[v]
        BY DEF Batches
    <2> QED
        BY <2>2, <2>3
<1>3. /\ p[i] = 0
      /\ i \notin d
      /\ \A v \in Workers : i \notin Real(b[v])
    BY DEF Placed
<1> HIDE DEF after
<1>4. taken \cup {i} = {j \in Items : p[j] > 0} \cup d
                          \cup UNION {Real(after[v]) : v \in Workers}
    BY <1>2 DEF Placed
<1>5. \A v \in Workers :
         /\ \A j \in Real(after[v]) : p[j] = 0 /\ j \notin d
         /\ \A u \in Workers \ {v} : Real(after[v]) \cap Real(after[u]) = {}
    BY <1>2, <1>3 DEF Placed
<1>6. Placed(taken \cup {i}, after, p, d)
    BY <1>4, <1>5 DEF Placed
<1> QED
    BY <1>6 DEF after

LEMMA PlacedZero ==
    ASSUME NEW taken, NEW b \in Batches, NEW p, NEW d, Placed(taken, b, p, d),
           NEW w \in Workers
    PROVE  Placed(taken, [b EXCEPT ![w] = Append(b[w], ZeroItem)], p, d)
<1> DEFINE after == [b EXCEPT ![w] = Append(b[w], ZeroItem)]
<1>1. \A v \in Workers : Real(after[v]) = Real(b[v])
    <2>1. b[w] \in Seq(Items \cup {ZeroItem})
        BY DEF Batches
    <2>2. Real(Append(b[w], ZeroItem)) = Real(b[w])
        BY <2>1, RealAppend
    <2>3. /\ after[w] = Append(b[w], ZeroItem)
          /\ \A v \in Workers \ {w} : after[v] = b[v]
        BY DEF Batches
    <2> QED
        BY <2>2, <2>3
<1> HIDE DEF after
<1>2. Placed(taken, after, p, d)
    BY <1>1 DEF Placed
<1> QED
    BY <1>2 DEF after

\* A batch that the processor has returned from counts once for each of its items.
LEMMA PlacedReturns ==
    ASSUME NEW a, NEW q, EndOf(a, q), NEW b \in Batches, NEW p \in [Items -> Nat],
           NEW d \in SUBSET Items, Placed(Taken(a, q), b, p, d),
           NEW w \in Workers, Follows(b[w], a)
    PROVE  Placed(Taken(a, q), [b EXCEPT ![w] = <<>>],
                  [i \in Items |-> p[i] + Occurrences(i, b[w])], d)
<1> DEFINE after == [b EXCEPT ![w] = <<>>]
           counted == [i \in Items |-> p[i] + Occurrences(i, b[w])]
<1>1. /\ Real(after[w]) = {}
      /\ \A v \in Workers \ {w} : Real(after[v]) = Real(b[v])
    BY DEF Batches, Real
<1>2. Real(b[w]) \subseteq Taken(a, q)
    BY DEF Placed
<1>3. Taken(a, q) \subseteq Items
    BY DEF Taken, EndOf
<1>4. \A i \in Items : counted[i] = IF i \in Real(b[w]) THEN 1 ELSE p[i]
    <2> TAKE i \in Items
    <2>1. Occurrences(i, b[w]) = IF i \in Real(b[w]) THEN 1 ELSE 0
        BY <1>2, OccursOnce DEF Batches
    <2>2. i \in Real(b[w]) => p[i] = 0
        BY DEF Placed
    <2> QED
        BY <2>1, <2>2
<1>5. {i \in Items : counted[i] > 0} = {i \in Items : p[i] > 0} \cup Real(b[w])
    BY <1>2, <1>3, <1>4
<1> HIDE DEF after, counted
<1>6. Taken(a, q) = {i \in Items : counted[i] > 0} \cup d
                      \cup UNION {Real(after[v]) : v \in Workers}
    BY <1>1, <1>5 DEF Placed
<1>7. /\ \A i \in Items : counted[i] <= 1
      /\ \A i \in d : counted[i] = 0
    BY <1>4 DEF Placed
<1>8. \A v \in Workers :
         /\ \A i \in Real(after[v]) : counted[i] = 0 /\ i \notin d
         /\ \A u \in Workers \ {v} : Real(after[v]) \cap Real(after[u]) = {}
    <2> TAKE v \in Workers
    <2>1. CASE v = w
        BY <1>1, <2>1
    <2>2. CASE v # w
        BY <1>1, <1>2, <1>3, <1>4, <2>2 DEF Placed
    <2> QED
        BY <2>1, <2>2
<1> QED
    BY <1>6, <1>7, <1>8 DEF Placed, after, counted

\* What a worker holds when it ends is dropped.
LEMMA PlacedEnds ==
    ASSUME NEW taken, NEW b \in Batches, NEW p, NEW d, Placed(taken, b, p, d),
           NEW w \in Workers
    PROVE  Placed(taken, [b EXCEPT ![w] = <<>>], p, d \cup Real(b[w]))
<1> DEFINE after == [b EXCEPT ![w] = <<>>]
<1>1. /\ Real(after[w]) = {}
      /\ \A v \in Workers \ {w} : Real(after[v]) = Real(b[v])
    BY DEF Batches, Real
<1> HIDE DEF after
<1>2. taken = {i \in Items : p[i] > 0} \cup (d \cup Real(b[w]))
                \cup UNION {Real(after[v]) : v \in Workers}
    BY <1>1 DEF Placed
<1>3. Placed(taken, after, p, d \cup Real(b[w]))
    BY <1>1, <1>2 DEF Placed
<1> QED
    BY <1>3 DEF after

-----------------------------------------------------------------------------
(***************************************************************************)
(* The steps.                                                              *)
(***************************************************************************)
LEMMA Bounds ==
    /\ QueueSize \in Nat /\ QueueSize > 0
    /\ BatchSize \in Nat
    /\ LargestBatch \in Nat /\ LargestBatch > 0
BY ConfiguredSizes DEF LargestBatch

LEMMA InitInv == Init => IInv
<1> SUFFICES ASSUME Init
             PROVE  IInv
    OBVIOUS
<1> USE Bounds DEF Init
<1>2. /\ queue \in Seq(Items) /\ Len(queue) = 0
      /\ accepted \in Seq(Items) /\ Len(accepted) = 0
      /\ \A w \in Workers : buffer[w] \in Seq(Items \cup {ZeroItem}) /\ Len(buffer[w]) = 0
    OBVIOUS
<1>3. TypeOK
    <2>1. buffer \in [Workers -> Seq(Items \cup {ZeroItem})]
        BY <1>2
    <2>2. Len(queue) <= QueueSize /\ \A w \in Workers : Len(buffer[w]) <= LargestBatch
        BY <1>2
    <2> QED
        BY <1>2, <2>1, <2>2 DEF TypeOK
<1>4. Sizes
    BY <1>2 DEF Sizes
<1>5. EndOf(accepted, queue)
    BY <1>2 DEF EndOf
<1>6. Taken(accepted, queue) = {} /\ \A w \in Workers : Real(buffer[w]) = {}
    BY <1>2 DEF Taken, Real
<1>7. Placed(Taken(accepted, queue), buffer, processed, dropped)
    BY <1>6 DEF Placed
<1>8. \A w \in Workers : Follows(buffer[w], accepted)
    BY <1>2 DEF Follows
<1> QED
    BY <1>2, <1>3, <1>4, <1>5, <1>7, <1>8 DEF IInv, Account, Ledger, AcceptedOnce

\* Add moves one item, and appends it or leaves the queue alone.
LEMMA AddTypes ==
    ASSUME TypeOK, Sizes, NEW i \in Items, Add(i)
    PROVE  TypeOK' /\ Sizes'
<1> USE DEF TypeOK, Sizes, LargestBatch, Adder, adding, working, outcome
<1>1. CASE CheckContext(i)
    BY <1>1 DEF CheckContext
<1>2. CASE Refuse(i)
    BY <1>2 DEF Refuse
<1>3. CASE Send(i)
    <2>1. /\ Append(queue, i) \in Seq(Items) /\ Append(accepted, i) \in Seq(Items)
          /\ Len(Append(queue, i)) <= QueueSize
        BY <1>3, BatcherAssumption DEF Send
    <2> QED
        BY <1>3, <2>1 DEF Send
<1>4. CASE SendOnClosed(i)
    BY <1>4 DEF SendOnClosed
<1>5. CASE Park(i)
    BY <1>5 DEF Park
<1> QED
    BY <1>1, <1>2, <1>3, <1>4, <1>5 DEF Add

\* A receive lets the head go, and takes a parked item in its place or none.
ReceiveOne ==
    \/ queue' = Tail(queue) /\ UNCHANGED adding
    \/ \E i \in Parked :
          /\ queue' = Append(Tail(queue), i)
          /\ accepted' = Append(accepted, i)
          /\ adder' = [adder EXCEPT ![i] = "sent"]

LEMMA ReceiveHeadIsOne ==
    ASSUME ReceiveHead
    PROVE  ReceiveOne
BY DEF ReceiveHead, ReceiveOne, Adder

\* A worker that does not fill its batch stays below the largest one.
LEMMA CollectTypes ==
    ASSUME TypeOK, Sizes, NEW w \in Workers, NEW item \in Items \cup {ZeroItem},
           Collect(w, item)
    PROVE  /\ worker' \in [Workers -> {"size", "select", "process", "gone"}]
           /\ buffer' \in [Workers -> Seq(Items \cup {ZeroItem})]
           /\ \A v \in Workers :
                 /\ Len(buffer'[v]) <= LargestBatch
                 /\ worker'[v] # "size" => target[v] <= LargestBatch
                 /\ worker'[v] \in {"size", "select"} => Len(buffer'[v]) < LargestBatch
<1> DEFINE batch == Append(buffer[w], item)
<1>0. /\ worker \in [Workers -> {"size", "select", "process", "gone"}]
      /\ buffer \in [Workers -> Seq(Items \cup {ZeroItem})]
      /\ target \in [Workers -> Nat]
    BY DEF TypeOK
<1>1. /\ batch \in Seq(Items \cup {ZeroItem})
      /\ Len(batch) = Len(buffer[w]) + 1
      /\ Len(buffer[w]) \in Nat
      /\ LargestBatch \in Nat
    BY <1>0, Bounds
<1>2. /\ worker[w] = "select"
      /\ Len(buffer[w]) < LargestBatch
      /\ target[w] <= LargestBatch
      /\ target[w] \in Nat
    BY <1>0 DEF Collect, Worker, Sizes
<1>3. Len(batch) <= LargestBatch
    BY <1>1, <1>2
<1>4. buffer' = [buffer EXCEPT ![w] = batch]
    BY DEF Collect
<1>5. \/ worker' = [worker EXCEPT ![w] = "process"]
      \/ worker' = [worker EXCEPT ![w] = "size"] /\ ~(Len(batch) >= target[w])
    BY DEF Collect, Worker
<1>6. \/ worker' = [worker EXCEPT ![w] = "process"]
      \/ worker' = [worker EXCEPT ![w] = "size"] /\ Len(batch) < LargestBatch
    BY <1>1, <1>2, <1>5
<1> HIDE DEF batch
<1>7. /\ worker' \in [Workers -> {"size", "select", "process", "gone"}]
      /\ buffer' \in [Workers -> Seq(Items \cup {ZeroItem})]
    BY <1>0, <1>1, <1>4, <1>5
<1>8. ASSUME NEW v \in Workers
      PROVE  /\ Len(buffer'[v]) <= LargestBatch
             /\ worker'[v] # "size" => target[v] <= LargestBatch
             /\ worker'[v] \in {"size", "select"} => Len(buffer'[v]) < LargestBatch
    <2>1. CASE v = w
        <3>1. buffer'[v] = batch /\ target[v] = target[w]
            BY <1>0, <1>4, <2>1
        <3>2. worker'[v] = "process" \/ (worker'[v] = "size" /\ Len(batch) < LargestBatch)
            BY <1>0, <1>6, <2>1
        <3> QED
            BY <1>2, <1>3, <3>1, <3>2, Zenon
    <2>2. CASE v # w
        <3>1. buffer'[v] = buffer[v] /\ worker'[v] = worker[v]
            BY <1>0, <1>4, <1>5, <2>2
        <3> QED
            BY <3>1 DEF TypeOK, Sizes
    <2> QED
        BY <2>1, <2>2
<1> QED
    BY <1>7, <1>8

LEMMA WorkerTypes ==
    ASSUME TypeOK, Sizes, NEW w \in Workers, WorkerStep(w)
    PROVE  TypeOK' /\ Sizes'
<1>1. CASE SizeBatch(w)
    <2>1. Len(queue) \in 0..QueueSize
        BY Bounds DEF TypeOK
    <2>2. /\ CalculateDynamicBatchSize(Len(queue)) \in Nat
          /\ CalculateDynamicBatchSize(Len(queue)) <= LargestBatch
        BY <2>1, TargetBounded
    <2>3. /\ worker' = [worker EXCEPT ![w] = "select"]
          /\ target' = [target EXCEPT ![w] = CalculateDynamicBatchSize(Len(queue))]
          /\ UNCHANGED <<queue, queueClosed, done, stopper, adding, buffer, outcome>>
          /\ worker[w] = "size"
        BY <1>1 DEF SizeBatch, Worker
    <2> QED
        BY <2>2, <2>3 DEF TypeOK, Sizes, LargestBatch, adding, outcome
<1>2. CASE Receive(w)
    <2>1. queue # <<>> /\ Head(queue) \in Items
        BY <1>2 DEF Receive, TypeOK
    <2>2. Collect(w, Head(queue)) /\ ReceiveOne
        BY <1>2, ReceiveHeadIsOne DEF Receive
    <2>3. /\ Tail(queue) \in Seq(Items)
          /\ Len(Tail(queue)) = Len(queue) - 1
        BY <2>1 DEF TypeOK
    <2>4. /\ queue' \in Seq(Items)
          /\ accepted' \in Seq(Items)
          /\ adder' \in [Items -> {"idle", "select", "parked", "sent", "refused", "swallowed"}]
        <3>1. CASE queue' = Tail(queue) /\ UNCHANGED adding
            BY <2>3, <3>1 DEF TypeOK, adding
        <3>2. ASSUME NEW i \in Items,
                     queue' = Append(Tail(queue), i),
                     accepted' = Append(accepted, i),
                     adder' = [adder EXCEPT ![i] = "sent"]
              PROVE  /\ queue' \in Seq(Items)
                     /\ accepted' \in Seq(Items)
                     /\ adder' \in [Items -> {"idle", "select", "parked", "sent", "refused",
                                              "swallowed"}]
            <4>1. Append(Tail(queue), i) \in Seq(Items) /\ Append(accepted, i) \in Seq(Items)
                BY <2>3 DEF TypeOK
            <4> QED
                BY <3>2, <4>1 DEF TypeOK
        <3> QED
            BY <2>2, <3>1, <3>2 DEF ReceiveOne, Parked
    <2>5. /\ Len(Tail(queue)) <= QueueSize
          /\ \A i \in Items : Len(Append(Tail(queue), i)) <= QueueSize
        BY <2>3, Bounds DEF TypeOK
    <2>6. Len(queue') <= QueueSize
        BY <2>2, <2>5 DEF ReceiveOne, Parked
    <2>7. UNCHANGED <<queueClosed, done, stopper, target, outcome>>
        BY <2>2 DEF Collect
    <2> QED
        BY <2>1, <2>2, <2>4, <2>6, <2>7, CollectTypes, Zenon
           DEF TypeOK, Sizes, LargestBatch, outcome
<1>3. CASE ReceiveZero(w)
    <2>1. Collect(w, ZeroItem) /\ UNCHANGED <<queue, adding>>
        BY <1>3 DEF ReceiveZero
    <2>2. UNCHANGED <<queueClosed, done, stopper, target, outcome>>
        BY <2>1 DEF Collect
    <2> QED
        BY <2>1, <2>2, CollectTypes DEF TypeOK, Sizes, LargestBatch, adding, outcome
<1>4. CASE TimerFires(w)
    BY <1>4 DEF TimerFires, Worker, TypeOK, Sizes, LargestBatch, adding, outcome
<1>5. CASE ProcessorReturns(w)
    <2>1. \A i \in Items : Occurrences(i, buffer[w]) \in Nat
        <3> TAKE i \in Items
        <3>1. IsFiniteSet({n \in 1..Len(buffer[w]) : buffer[w][n] = i})
            <4>1. Len(buffer[w]) \in Nat
                BY DEF TypeOK
            <4>2. IsFiniteSet(1..Len(buffer[w]))
                BY <4>1, FS_Interval
            <4> QED
                BY <4>2, FS_Subset
        <3> QED
            BY <3>1, FS_CardinalityType DEF Occurrences
    <2>2. [i \in Items |-> processed[i] + Occurrences(i, buffer[w])] \in [Items -> Nat]
        BY <2>1 DEF TypeOK
    <2>3. Len(<<>>) < LargestBatch /\ Len(<<>>) <= LargestBatch
        BY Bounds
    <2>4. /\ worker' = [worker EXCEPT ![w] = "size"]
          /\ buffer' = [buffer EXCEPT ![w] = <<>>]
          /\ processed' \in [Items -> Nat]
          /\ UNCHANGED <<queue, queueClosed, done, stopper, adding, target, dropped>>
        BY <1>5, <2>2 DEF ProcessorReturns, Worker
    <2>5. \A v \in Workers :
             \/ buffer'[v] = buffer[v] /\ worker'[v] = worker[v]
             \/ buffer'[v] = <<>> /\ worker'[v] = "size"
        <3>1. worker \in [Workers -> {"size", "select", "process", "gone"}]
            BY DEF TypeOK
        <3>2. buffer \in [Workers -> Seq(Items \cup {ZeroItem})]
            BY DEF TypeOK
        <3>3. /\ buffer'[w] = <<>> /\ worker'[w] = "size"
              /\ \A v \in Workers \ {w} : buffer'[v] = buffer[v] /\ worker'[v] = worker[v]
            BY <2>4, <3>1, <3>2
        <3> QED
            BY <3>3
    <2>6. \A v \in Workers :
             /\ Len(buffer'[v]) <= LargestBatch
             /\ worker'[v] \in {"size", "select"} => Len(buffer'[v]) < LargestBatch
        <3> TAKE v \in Workers
        <3>1. CASE buffer'[v] = buffer[v] /\ worker'[v] = worker[v]
            BY <3>1 DEF TypeOK, Sizes
        <3>2. CASE buffer'[v] = <<>>
            BY <2>3, <3>2, Bounds
        <3> QED
            BY <2>5, <3>1, <3>2
    <2>7. Sizes'
        BY <2>4, <2>5, <2>6 DEF Sizes, LargestBatch
    <2> QED
        BY <2>4, <2>6, <2>7 DEF TypeOK, LargestBatch, adding
<1>6. ASSUME NEW from \in {"select", "process"}, Ends(w, from)
      PROVE  TypeOK' /\ Sizes'
    <2>1. ToSet(buffer[w]) \ {ZeroItem} \subseteq Items
        BY DEF TypeOK, ToSet
    <2>2. Len(<<>>) <= LargestBatch
        BY Bounds
    <2>3. /\ worker' = [worker EXCEPT ![w] = "gone"]
          /\ worker[w] = from
          /\ dropped' = dropped \cup (ToSet(buffer[w]) \ {ZeroItem})
          /\ buffer' = [buffer EXCEPT ![w] = <<>>]
          /\ UNCHANGED <<queue, queueClosed, done, stopper, adding, target, processed>>
        BY <1>6 DEF Ends, Worker
    <2> QED
        BY <2>1, <2>2, <2>3 DEF TypeOK, Sizes, LargestBatch, adding
<1> QED
    BY <1>1, <1>2, <1>3, <1>4, <1>5, <1>6 DEF WorkerStep, ProcessorPanics, SeeDone

LEMMA StopTypes ==
    ASSUME TypeOK, Sizes, StopCancels \/ StopClosesQueue \/ ParentCancelled
    PROVE  TypeOK' /\ Sizes'
<1> USE DEF TypeOK, Sizes, LargestBatch, adding, working, outcome
<1>1. ASSUME CancelContext, stopper' \in {stopper, "closing"}
      PROVE  TypeOK' /\ Sizes'
    BY <1>1 DEF CancelContext
<1>2. CASE StopClosesQueue
    BY <1>2 DEF StopClosesQueue
<1> QED
    BY <1>1, <1>2 DEF StopCancels, ParentCancelled

-----------------------------------------------------------------------------
(***************************************************************************)
(* The account.                                                            *)
(***************************************************************************)
LEMMA LedgerSend ==
    ASSUME NEW a, NEW q, NEW b \in Batches, NEW p, NEW d, Ledger(a, q, b, p, d),
           NEW i \in Items, \A n \in 1..Len(a) : a[n] # i
    PROVE  Ledger(Append(a, i), Append(q, i), b, p, d)
<1>1. EndOf(a, q) /\ a \in Seq(Items)
    BY DEF Ledger, EndOf
<1>2. /\ EndOf(Append(a, i), Append(q, i))
      /\ Taken(Append(a, i), Append(q, i)) = Taken(a, q)
    BY <1>1, SendKeeps
<1>3. ASSUME NEW w \in Workers
      PROVE  Follows(b[w], Append(a, i))
    <2>1. b[w] \in Seq(Items \cup {ZeroItem}) /\ Follows(b[w], a)
        BY DEF Batches, Ledger
    <2>2. i \notin Taken(a, q)
        BY <1>1 DEF Taken, EndOf
    <2>3. i \notin Real(b[w])
        BY <2>2 DEF Ledger, Placed
    <2> QED
        BY <1>1, <2>1, <2>3, FollowsSend
<1> QED
    BY <1>2, <1>3 DEF Ledger

LEMMA LedgerReceive ==
    ASSUME NEW a, NEW q, NEW b \in Batches, NEW p \in [Items -> Nat], NEW d \in SUBSET Items,
           Ledger(a, q, b, p, d), q # <<>>, NEW w \in Workers
    PROVE  Ledger(a, Tail(q), [b EXCEPT ![w] = Append(b[w], Head(q))], p, d)
<1> DEFINE after == [b EXCEPT ![w] = Append(b[w], Head(q))]
<1>1. EndOf(a, q) /\ Placed(Taken(a, q), b, p, d)
    BY DEF Ledger
<1>2. /\ EndOf(a, Tail(q))
      /\ Taken(a, Tail(q)) = Taken(a, q) \cup {Head(q)}
      /\ Head(q) \in Items
      /\ Head(q) \notin Taken(a, q)
    BY <1>1, HeadTaken
<1>3. Placed(Taken(a, Tail(q)), after, p, d)
    <2>1. Placed(Taken(a, q) \cup {Head(q)}, after, p, d)
        BY <1>1, <1>2, PlacedReceive
    <2> HIDE DEF after
    <2> QED
        BY <1>2, <2>1
<1>4. Follows(Append(b[w], Head(q)), a)
    <2>1. b[w] \in Seq(Items \cup {ZeroItem}) /\ Follows(b[w], a)
        BY DEF Batches, Ledger
    <2>2. Real(b[w]) \subseteq Taken(a, q)
        BY <1>1 DEF Placed
    <2> QED
        BY <1>1, <2>1, <2>2, FollowsReceive
<1>5. /\ after[w] = Append(b[w], Head(q))
      /\ \A v \in Workers \ {w} : after[v] = b[v]
    BY DEF Batches
<1>6. \A v \in Workers : Follows(b[v], a)
    BY DEF Ledger
<1> HIDE DEF after
<1>7. \A v \in Workers : Follows(after[v], a)
    BY <1>4, <1>5, <1>6
<1>8. Ledger(a, Tail(q), after, p, d)
    BY <1>2, <1>3, <1>7 DEF Ledger
<1> QED
    BY <1>8 DEF after

LEMMA LedgerZero ==
    ASSUME NEW a, NEW q, NEW b \in Batches, NEW p, NEW d, Ledger(a, q, b, p, d),
           NEW w \in Workers
    PROVE  Ledger(a, q, [b EXCEPT ![w] = Append(b[w], ZeroItem)], p, d)
<1> DEFINE after == [b EXCEPT ![w] = Append(b[w], ZeroItem)]
<1>1. /\ EndOf(a, q)
      /\ a \in Seq(Items)
      /\ Placed(Taken(a, q), b, p, d)
      /\ \A v \in Workers : Follows(b[v], a)
    BY DEF Ledger, EndOf
<1>2. Placed(Taken(a, q), after, p, d)
    BY <1>1, PlacedZero
<1>3. Follows(Append(b[w], ZeroItem), a)
    <2>1. b[w] \in Seq(Items \cup {ZeroItem})
        BY DEF Batches
    <2> QED
        BY <1>1, <2>1, FollowsZero
<1>4. /\ after[w] = Append(b[w], ZeroItem)
      /\ \A v \in Workers \ {w} : after[v] = b[v]
    BY DEF Batches
<1> HIDE DEF after
<1>5. \A v \in Workers : Follows(after[v], a)
    BY <1>1, <1>3, <1>4
<1>6. Ledger(a, q, after, p, d)
    BY <1>1, <1>2, <1>5 DEF Ledger
<1> QED
    BY <1>6 DEF after

\* An empty batch follows any order.
LEMMA FollowsEmptied ==
    ASSUME NEW a, NEW b \in Batches, NEW w \in Workers, \A v \in Workers : Follows(b[v], a)
    PROVE  \A v \in Workers : Follows([b EXCEPT ![w] = <<>>][v], a)
<1>1. Follows(<<>>, a)
    BY DEF Follows
<1> QED
    BY <1>1 DEF Batches

LEMMA LedgerReturns ==
    ASSUME NEW a, NEW q, NEW b \in Batches, NEW p \in [Items -> Nat], NEW d \in SUBSET Items,
           Ledger(a, q, b, p, d), NEW w \in Workers
    PROVE  Ledger(a, q, [b EXCEPT ![w] = <<>>],
                  [i \in Items |-> p[i] + Occurrences(i, b[w])], d)
<1>1. /\ EndOf(a, q)
      /\ Placed(Taken(a, q), b, p, d)
      /\ \A v \in Workers : Follows(b[v], a)
    BY DEF Ledger
<1>2. Placed(Taken(a, q), [b EXCEPT ![w] = <<>>],
             [i \in Items |-> p[i] + Occurrences(i, b[w])], d)
    BY <1>1, PlacedReturns
<1>3. \A v \in Workers : Follows([b EXCEPT ![w] = <<>>][v], a)
    BY <1>1, FollowsEmptied
<1> QED
    BY <1>1, <1>2, <1>3 DEF Ledger

LEMMA LedgerEnds ==
    ASSUME NEW a, NEW q, NEW b \in Batches, NEW p, NEW d, Ledger(a, q, b, p, d),
           NEW w \in Workers
    PROVE  Ledger(a, q, [b EXCEPT ![w] = <<>>], p, d \cup Real(b[w]))
BY PlacedEnds, FollowsEmptied DEF Ledger

\* What an Add does to the account: nothing, or it sends its item.
LEMMA AddAccount ==
    ASSUME TypeOK, Account, NEW i \in Items, Add(i)
    PROVE  Account'
<1>1. \/ UNCHANGED <<queue, accepted, buffer, processed, dropped>>
      \/ Send(i)
    BY DEF Add, CheckContext, Refuse, SendOnClosed, Park, working, outcome
<1>2. adder[i] # "sent" /\ \A j \in Items \ {i} : adder'[j] = adder[j]
    BY DEF Add, CheckContext, Refuse, Send, SendOnClosed, Park, Adder, TypeOK
<1>3. \A n \in 1..Len(accepted) : accepted[n] \in Items \ {i}
    BY <1>2 DEF Account, AcceptedOnce, TypeOK
<1>4. CASE UNCHANGED <<queue, accepted, buffer, processed, dropped>>
    <2>1. Ledger(accepted, queue, buffer, processed, dropped)'
        BY <1>4 DEF Account
    <2>2. AcceptedOnce'
        BY <1>2, <1>3, <1>4 DEF Account, AcceptedOnce
    <2> QED
        BY <2>1, <2>2 DEF Account
<1>5. CASE Send(i)
    <2>1. /\ queue' = Append(queue, i)
          /\ accepted' = Append(accepted, i)
          /\ adder'[i] = "sent"
          /\ UNCHANGED <<buffer, processed, dropped>>
        BY <1>5 DEF Send, Adder, TypeOK, working, outcome
    <2>2. Ledger(Append(accepted, i), Append(queue, i), buffer, processed, dropped)
        BY <1>3, LedgerSend DEF Account, TypeOK, Batches
    <2>3. Ledger(accepted, queue, buffer, processed, dropped)'
        BY <2>1, <2>2
    <2>4. /\ Len(Append(accepted, i)) = Len(accepted) + 1
          /\ Append(accepted, i)[Len(accepted) + 1] = i
          /\ \A n \in 1..Len(accepted) : Append(accepted, i)[n] = accepted[n]
          /\ Len(accepted) \in Nat
        BY DEF TypeOK
    <2>5. \A n \in 1..Len(Append(accepted, i)) : adder'[Append(accepted, i)[n]] = "sent"
        BY <1>2, <1>3, <2>1, <2>4 DEF Account, AcceptedOnce
    <2>6. AcceptedOnce'
        BY <2>1, <2>5 DEF AcceptedOnce
    <2> QED
        BY <2>3, <2>6 DEF Account
<1> QED
    BY <1>1, <1>4, <1>5

\* A worker that receives takes the head, and a parked item then joins the queue.
LEMMA ReceiveAccount ==
    ASSUME TypeOK, Account, NEW w \in Workers, Receive(w)
    PROVE  Account'
<1> DEFINE batches == [buffer EXCEPT ![w] = Append(buffer[w], Head(queue))]
<1>1. /\ queue # <<>>
      /\ ReceiveOne
      /\ buffer' = batches
      /\ UNCHANGED <<processed, dropped>>
    BY ReceiveHeadIsOne DEF Receive, Collect, outcome
<1>2. batches \in Batches
    <2>1. Head(queue) \in Items
        BY <1>1 DEF TypeOK
    <2>2. Append(buffer[w], Head(queue)) \in Seq(Items \cup {ZeroItem})
        BY <2>1 DEF TypeOK
    <2> QED
        BY <2>2 DEF TypeOK, Batches
<1>3. Ledger(accepted, Tail(queue), batches, processed, dropped)
    BY <1>1, LedgerReceive DEF Account, TypeOK, Batches
<1> HIDE DEF batches
<1>4. CASE queue' = Tail(queue) /\ UNCHANGED adding
    <2>1. Ledger(accepted, queue, buffer, processed, dropped)'
        BY <1>1, <1>3, <1>4 DEF adding
    <2>2. AcceptedOnce'
        BY <1>4 DEF Account, AcceptedOnce, adding
    <2> QED
        BY <2>1, <2>2 DEF Account
<1>5. ASSUME NEW i \in Parked,
             queue' = Append(Tail(queue), i),
             accepted' = Append(accepted, i),
             adder' = [adder EXCEPT ![i] = "sent"]
      PROVE  Account'
    <2>1. i \in Items /\ adder[i] = "parked"
        BY DEF Parked
    <2>2. /\ \A n \in 1..Len(accepted) : accepted[n] \in Items \ {i}
          /\ adder'[i] = "sent"
          /\ \A j \in Items \ {i} : adder'[j] = adder[j]
        BY <1>5, <2>1 DEF Account, AcceptedOnce, TypeOK
    <2>3. Ledger(Append(accepted, i), Append(Tail(queue), i), batches, processed, dropped)
        BY <1>2, <1>3, <2>1, <2>2, LedgerSend
    <2>4. Ledger(accepted, queue, buffer, processed, dropped)'
        BY <1>1, <1>5, <2>3
    <2>5. /\ Len(Append(accepted, i)) = Len(accepted) + 1
          /\ Append(accepted, i)[Len(accepted) + 1] = i
          /\ \A n \in 1..Len(accepted) : Append(accepted, i)[n] = accepted[n]
          /\ Len(accepted) \in Nat
        BY DEF TypeOK
    <2>6. \A n \in 1..Len(Append(accepted, i)) : adder'[Append(accepted, i)[n]] = "sent"
        BY <2>2, <2>5 DEF Account, AcceptedOnce
    <2>7. AcceptedOnce'
        BY <1>5, <2>6 DEF AcceptedOnce
    <2> QED
        BY <2>4, <2>7 DEF Account
<1> QED
    BY <1>1, <1>4, <1>5 DEF ReceiveOne

LEMMA WorkerAccount ==
    ASSUME TypeOK, Account, NEW w \in Workers, WorkerStep(w)
    PROVE  Account'
<1>1. CASE SizeBatch(w) \/ TimerFires(w)
    BY <1>1 DEF SizeBatch, TimerFires, adding, outcome, Account, AcceptedOnce
<1>2. CASE Receive(w)
    BY <1>2, ReceiveAccount
<1>3. CASE ReceiveZero(w)
    <2>1. /\ buffer' = [buffer EXCEPT ![w] = Append(buffer[w], ZeroItem)]
          /\ UNCHANGED <<queue, adding, processed, dropped>>
        BY <1>3 DEF ReceiveZero, Collect, outcome
    <2>2. Ledger(accepted, queue, [buffer EXCEPT ![w] = Append(buffer[w], ZeroItem)],
                 processed, dropped)
        BY LedgerZero DEF Account, TypeOK, Batches
    <2> QED
        BY <2>1, <2>2 DEF Account, AcceptedOnce, adding
<1>4. CASE ProcessorReturns(w)
    <2>1. Ledger(accepted, queue, [buffer EXCEPT ![w] = <<>>],
                 [i \in Items |-> processed[i] + Occurrences(i, buffer[w])], dropped)
        BY LedgerReturns DEF Account, TypeOK, Batches
    <2> QED
        BY <1>4, <2>1 DEF ProcessorReturns, Account, AcceptedOnce, adding
<1>5. ASSUME NEW from, Ends(w, from)
      PROVE  Account'
    <2>1. Real(buffer[w]) = ToSet(buffer[w]) \ {ZeroItem}
        BY DEF Real, ToSet, TypeOK
    <2>2. Ledger(accepted, queue, [buffer EXCEPT ![w] = <<>>], processed,
                 dropped \cup Real(buffer[w]))
        BY LedgerEnds DEF Account, TypeOK, Batches
    <2> QED
        BY <1>5, <2>1, <2>2 DEF Ends, Account, AcceptedOnce, adding
<1> QED
    BY <1>1, <1>2, <1>3, <1>4, <1>5 DEF WorkerStep, ProcessorPanics, SeeDone

LEMMA StopAccount ==
    ASSUME TypeOK, Account, StopCancels \/ StopClosesQueue \/ ParentCancelled
    PROVE  Account'
<1>1. UNCHANGED <<queue, accepted, buffer, processed, dropped>>
    BY DEF StopCancels, StopClosesQueue, ParentCancelled, CancelContext, adding, working,
       outcome
<1>2. \A i \in Items : adder[i] = "sent" => adder'[i] = "sent"
    BY DEF StopCancels, StopClosesQueue, ParentCancelled, CancelContext, adding, Parked
<1>3. \A n \in 1..Len(accepted) : accepted[n] \in Items
    BY DEF TypeOK
<1> QED
    BY <1>1, <1>2, <1>3 DEF Account, AcceptedOnce

LEMMA NextInv == IInv /\ [Next]_vars => IInv'
<1> SUFFICES ASSUME TypeOK, Sizes, Account, [Next]_vars
             PROVE  TypeOK' /\ Sizes' /\ Account'
    BY DEF IInv
<1>1. ASSUME NEW i \in Items, Add(i)
      PROVE  TypeOK' /\ Sizes' /\ Account'
    BY <1>1, AddTypes, AddAccount
<1>2. ASSUME NEW w \in Workers, WorkerStep(w)
      PROVE  TypeOK' /\ Sizes' /\ Account'
    BY <1>2, WorkerTypes, WorkerAccount
<1>3. CASE StopCancels \/ StopClosesQueue \/ ParentCancelled
    BY <1>3, StopTypes, StopAccount
<1>4. CASE UNCHANGED vars
    BY <1>4 DEF vars, adding, working, outcome, TypeOK, Sizes, LargestBatch, Account,
                AcceptedOnce
<1> QED
    BY <1>1, <1>2, <1>3, <1>4 DEF Next

-----------------------------------------------------------------------------
\* The inductive invariant of the batcher.
THEOREM Invariance == Spec => []IInv
BY InitInv, NextInv, PTL DEF Spec

(* The queue keeps its capacity, and no batch grows beyond the configured size although
   the queue's length, which decides it, is stale when the batch grows (worker and
   calculateDynamicBatchSize of chan_batcher.go). *)
THEOREM TypeCorrect == Spec => []TypeOK
<1>1. IInv => TypeOK
    BY DEF IInv
<1> QED
    BY <1>1, Invariance, PTL

(* Whatever the workers, Stop, the context and a panicking processor do, an item that
   Add accepted waits, is in one batch, was processed once, or was dropped. *)
THEOREM AcceptedHaveOnePlace == Spec => []EachItemOnce
<1>1. IInv => EachItemOnce
    <2> SUFFICES ASSUME IInv
                 PROVE  EachItemOnce
        OBVIOUS
    <2>1. /\ EndOf(accepted, queue)
          /\ Placed(Taken(accepted, queue), buffer, processed, dropped)
        BY DEF IInv, Account, Ledger
    <2>2. /\ accepted \in Seq(Items)
          /\ queue \in Seq(Items)
          /\ \A w \in Workers : buffer[w] \in Seq(Items \cup {ZeroItem})
        BY DEF IInv, TypeOK
    <2>3. \A w \in Workers : Buffered(w) = Real(buffer[w])
        BY <2>2 DEF Buffered, Real, ToSet
    <2>4. /\ ToSet(accepted) = {accepted[n] : n \in 1..Len(accepted)}
          /\ ToSet(queue) = {queue[n] : n \in 1..Len(queue)}
        BY <2>2 DEF ToSet
    <2>5. /\ ToSet(accepted) = Taken(accepted, queue) \cup ToSet(queue)
          /\ Taken(accepted, queue) \cap ToSet(queue) = {}
          /\ \A m, n \in 1..Len(queue) : queue[m] = queue[n] => m = n
        BY <2>1, <2>4, TakenAndWaiting
    <2>6. IsInjective(accepted) /\ IsInjective(queue)
        BY <2>1, <2>2, <2>5 DEF EndOf, IsInjective
    <2>7. ToSet(accepted) = ToSet(queue) \cup Processed \cup dropped
                              \cup UNION {Buffered(w) : w \in Workers}
        BY <2>1, <2>3, <2>5 DEF Placed, Processed
    <2>8. /\ Processed \subseteq Taken(accepted, queue)
          /\ dropped \subseteq Taken(accepted, queue)
          /\ \A w \in Workers : Buffered(w) \subseteq Taken(accepted, queue)
        BY <2>1, <2>3 DEF Placed, Processed
    <2>9. dropped \cap Processed = {}
        BY <2>1 DEF Placed, Processed
    <2>10. \A w \in Workers :
              /\ Buffered(w) \cap (Processed \cup dropped) = {}
              /\ \A v \in Workers \ {w} : Buffered(w) \cap Buffered(v) = {}
        BY <2>1, <2>3 DEF Placed, Processed
    <2>11. \A i \in Items : processed[i] <= 1
        BY <2>1 DEF Placed
    <2>12. /\ ToSet(queue) \cap Processed = {}
           /\ dropped \cap (ToSet(queue) \cup Processed) = {}
        BY <2>5, <2>8, <2>9
    <2>13. \A w \in Workers : Buffered(w) \cap (ToSet(queue) \cup Processed \cup dropped) = {}
        BY <2>5, <2>8, <2>10
    <2> QED
        BY <2>6, <2>7, <2>10, <2>11, <2>12, <2>13 DEF EachItemOnce
<1> QED
    BY <1>1, Invariance, PTL

(* Items keep the order in which they were accepted within every batch, whichever worker
   takes them and however senders were parked. *)
THEOREM BatchesInOrder == Spec => []BatchInOrder
<1>1. IInv => BatchInOrder
    <2> SUFFICES ASSUME IInv,
                        NEW w \in Workers,
                        NEW m \in 1..Len(buffer[w]), NEW n \in 1..Len(buffer[w]),
                        m < n, buffer[w][m] \in Items, buffer[w][n] \in Items
                 PROVE  Rank(buffer[w][m]) < Rank(buffer[w][n])
        BY DEF BatchInOrder
    <2>1. /\ Placed(Taken(accepted, queue), buffer, processed, dropped)
          /\ Follows(buffer[w], accepted)
          /\ EndOf(accepted, queue)
        BY DEF IInv, Account, Ledger
    <2>2. \A i \in {buffer[w][m], buffer[w][n]} : \E j \in 1..Len(accepted) : accepted[j] = i
        <3>1. {buffer[w][m], buffer[w][n]} \subseteq Real(buffer[w])
            BY BatcherAssumption DEF Real
        <3>2. Real(buffer[w]) \subseteq Taken(accepted, queue)
            BY <2>1 DEF Placed
        <3> QED
            BY <2>1, <3>1, <3>2 DEF Taken, EndOf
    <2>3. \A i \in {buffer[w][m], buffer[w][n]} :
             Rank(i) \in 1..Len(accepted) /\ accepted[Rank(i)] = i
        BY <2>2 DEF Rank
    <2> QED
        BY <2>1, <2>3 DEF Follows
<1> QED
    BY <1>1, Invariance, PTL
=============================================================================
