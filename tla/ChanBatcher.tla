----------------------------- MODULE ChanBatcher -----------------------------
(***************************************************************************)
(* batchy.ChanBatcherInstance (batchy/chan_batcher.go): goroutines call    *)
(* Add, which sends on a buffered channel; workers collect items from the  *)
(* channel into batches and hand them to the processor; Stop, or the       *)
(* cancellation of the parent context, ends the workers.                   *)
(*                                                                         *)
(* A Go select whose cases are ready chooses any of them, so a worker that *)
(* finds the context done and an item waiting may do either.  A receive    *)
(* from the closed and empty queue is ready too and yields a zero value,   *)
(* here ZeroItem; a send on the closed queue panics.  A goroutine blocked  *)
(* in a send is parked, and the next receive takes its item into the       *)
(* buffer of the channel on the spot.                                      *)
(*                                                                         *)
(* External: the processor returns or panics; ants.Pool runs one task per  *)
(* worker, and Release does not stop a running task.                       *)
(***************************************************************************)
EXTENDS Naturals, Sequences, FiniteSets, SequencesExt

CONSTANTS
    Items,          \* values that are added, each in a call of its own
    ZeroItem,       \* the zero value of T
    Workers,        \* actualWorkers worker goroutines
    QueueSize,      \* capacity of the queue
    BatchSize,      \* the configured sizes, each 0 when not set
    MinBatchSize,
    MaxBatchSize,
    DynamicBatching,
    MayStop,        \* whether Stop is called
    MayCancel,      \* whether the parent context may be cancelled
    MayPanic        \* whether the processor may panic

ASSUME BatcherAssumption ==
    /\ ZeroItem \notin Items
    /\ QueueSize \in Nat \ {0}
    /\ {BatchSize, MinBatchSize, MaxBatchSize} \subseteq Nat
    /\ {DynamicBatching, MayStop, MayCancel, MayPanic} \subseteq BOOLEAN

VARIABLES
    queue,          \* the channel's buffer
    queueClosed,
    done,           \* the context is cancelled
    adder,          \* where the Add of each item is
    worker,         \* where each worker is
    target,         \* currentBatchSize of each worker
    buffer,         \* each worker's batch
    stopper,        \* where Stop is
    accepted,       \* history: items sent on the queue, in order
    processed,      \* history: how often each item went to a processor that returned
    dropped         \* history: items in the buffer of a worker that ended

adding == <<adder, accepted>>
working == <<worker, target, buffer>>
outcome == <<processed, dropped>>
vars == <<queue, queueClosed, done, stopper, adding, working, outcome>>

Init ==
    /\ queue = <<>>
    /\ queueClosed = FALSE
    /\ done = FALSE
    /\ adder = [i \in Items |-> "idle"]
    /\ worker = [w \in Workers |-> "size"]
    /\ target = [w \in Workers |-> BatchSize]
    /\ buffer = [w \in Workers |-> <<>>]
    /\ stopper = "idle"
    /\ accepted = <<>>
    /\ processed = [i \in Items |-> 0]
    /\ dropped = {}

-----------------------------------------------------------------------------
(***************************************************************************)
(* Add(item).  It returns an error ("refused"), or nil: because the item   *)
(* was sent ("sent") or because the recovered panic of a send on the       *)
(* closed queue leaves the result nil ("swallowed").                       *)
(***************************************************************************)
Adder(i, from, to) ==
    /\ adder[i] = from
    /\ adder' = [adder EXCEPT ![i] = to]

CheckContext(i) ==
    /\ Adder(i, "idle", IF done THEN "refused" ELSE "select")
    /\ UNCHANGED <<queue, queueClosed, done, stopper, accepted, working, outcome>>

Refuse(i) ==
    /\ done
    /\ Adder(i, "select", "refused")
    /\ UNCHANGED <<queue, queueClosed, done, stopper, accepted, working, outcome>>

Send(i) ==
    /\ ~queueClosed
    /\ Len(queue) < QueueSize
    /\ Adder(i, "select", "sent")
    /\ queue' = Append(queue, i)
    /\ accepted' = Append(accepted, i)
    /\ UNCHANGED <<queueClosed, done, stopper, working, outcome>>

SendOnClosed(i) ==
    /\ queueClosed
    /\ Adder(i, "select", "swallowed")
    /\ UNCHANGED <<queue, queueClosed, done, stopper, accepted, working, outcome>>

Park(i) ==
    /\ ~queueClosed /\ ~done
    /\ Len(queue) = QueueSize
    /\ Adder(i, "select", "parked")
    /\ UNCHANGED <<queue, queueClosed, done, stopper, accepted, working, outcome>>

Add(i) == CheckContext(i) \/ Refuse(i) \/ Send(i) \/ SendOnClosed(i) \/ Park(i)

Parked == {i \in Items : adder[i] = "parked"}

-----------------------------------------------------------------------------
(***************************************************************************)
(* A worker: compute the target, select, perhaps process, over again.      *)
(***************************************************************************)
Worker(w, from, to) ==
    /\ worker[w] = from
    /\ worker' = [worker EXCEPT ![w] = to]

\* What NewChanBatcher makes of sizes that are not set.  Nothing orders the two: a
\* maximum below the minimum is accepted.
minBatchSize ==
    CASE MinBatchSize > 0 -> MinBatchSize
      [] MinBatchSize = 0 /\ BatchSize >= 4 -> BatchSize \div 4
      [] OTHER -> 1

maxBatchSize == IF MaxBatchSize > 0 THEN MaxBatchSize ELSE 4 * BatchSize

\* The share of a range that belongs to a queue of this length, rounded towards 0.
Share(range, length) == (range * length) \div QueueSize

\* queuePressure is compared with 0.8 and 0.2, and interpolates in between, down from
\* the minimum if the maximum is below it.
CalculateDynamicBatchSize(length) ==
    CASE ~DynamicBatching -> BatchSize
      [] DynamicBatching /\ 5 * length > 4 * QueueSize -> maxBatchSize
      [] DynamicBatching /\ 5 * length < QueueSize -> minBatchSize
      [] OTHER -> IF minBatchSize <= maxBatchSize
                    THEN minBatchSize + Share(maxBatchSize - minBatchSize, length)
                    ELSE minBatchSize - Share(minBatchSize - maxBatchSize, length)

SizeBatch(w) ==
    /\ Worker(w, "size", "select")
    /\ target' = [target EXCEPT ![w] = CalculateDynamicBatchSize(Len(queue))]
    /\ UNCHANGED <<queue, queueClosed, done, stopper, adding, buffer, outcome>>

\* Mutant: the parked item overtakes the waiting ones.
ReceiveOvertaking ==
    IF Parked = {}
      THEN queue' = Tail(queue) /\ UNCHANGED adding
      ELSE \E i \in Parked :
             /\ queue' = <<i>> \o Tail(queue)
             /\ accepted' = Append(accepted, i)
             /\ Adder(i, "parked", "sent")

\* Mutant: nobody wakes a parked sender.
ReceiveWithoutWaking == queue' = Tail(queue) /\ UNCHANGED adding

\* What the select's receive does to the channel: the head leaves, and a parked
\* sender, if there is one, completes its send.
ReceiveHead ==
    IF Parked = {}
      THEN queue' = Tail(queue) /\ UNCHANGED adding
      ELSE \E i \in Parked :
             /\ queue' = Append(Tail(queue), i)
             /\ accepted' = Append(accepted, i)
             /\ Adder(i, "parked", "sent")

\* Mutant: the size is looked at before the item is appended.
CollectLate(w, item) ==
    LET full == Len(buffer[w]) >= target[w]
    IN /\ buffer' = [buffer EXCEPT ![w] = Append(@, item)]
       /\ \/ full /\ Worker(w, "select", "process")
          \/ ~full /\ Worker(w, "select", "size")
          \/ ~full /\ DynamicBatching /\ Worker(w, "select", "process")
       /\ UNCHANGED <<queueClosed, done, stopper, target, outcome>>

\* The batch is full, or, in dynamic batching, the last one may be long ago.
Collect(w, item) ==
    LET batch == Append(buffer[w], item)
        full == Len(batch) >= target[w]
    IN /\ buffer' = [buffer EXCEPT ![w] = batch]
       /\ \/ full /\ Worker(w, "select", "process")
          \/ ~full /\ Worker(w, "select", "size")
          \/ ~full /\ DynamicBatching /\ Worker(w, "select", "process")
       /\ UNCHANGED <<queueClosed, done, stopper, target, outcome>>

Receive(w) ==
    /\ queue # <<>>
    /\ Collect(w, Head(queue))
    /\ ReceiveHead

ReceiveZero(w) ==
    /\ queue = <<>>
    /\ queueClosed
    /\ Collect(w, ZeroItem)
    /\ UNCHANGED <<queue, adding>>

\* Mutant: the timer is reset and the batch left alone.
TimerOnlyResets(w) ==
    /\ Worker(w, "select", "size")
    /\ UNCHANGED <<queue, queueClosed, done, stopper, adding, target, buffer, outcome>>

TimerFires(w) ==
    /\ Worker(w, "select", IF buffer[w] = <<>> THEN "size" ELSE "process")
    /\ UNCHANGED <<queue, queueClosed, done, stopper, adding, target, buffer, outcome>>

Occurrences(i, batch) == Cardinality({n \in 1..Len(batch) : batch[n] = i})

\* Mutant: the buffer is not emptied.
ReturnsKeepingBuffer(w) ==
    /\ Worker(w, "process", "size")
    /\ processed' = [i \in Items |-> processed[i] + Occurrences(i, buffer[w])]
    /\ UNCHANGED <<queue, queueClosed, done, stopper, adding, target, buffer, dropped>>

ProcessorReturns(w) ==
    /\ Worker(w, "process", "size")
    /\ processed' = [i \in Items |-> processed[i] + Occurrences(i, buffer[w])]
    /\ buffer' = [buffer EXCEPT ![w] = <<>>]
    /\ UNCHANGED <<queue, queueClosed, done, stopper, adding, target, dropped>>

\* The worker's task ends with its batch; nobody starts another worker.
Ends(w, from) ==
    /\ Worker(w, from, "gone")
    /\ dropped' = dropped \cup (ToSet(buffer[w]) \ {ZeroItem})
    /\ buffer' = [buffer EXCEPT ![w] = <<>>]
    /\ UNCHANGED <<queue, queueClosed, done, stopper, adding, target, processed>>

ProcessorPanics(w) == MayPanic /\ Ends(w, "process")

\* Mutant: the worker listens to Stop and not to the context.
SeeStop(w) == stopper = "stopped" /\ Ends(w, "select")

SeeDone(w) == done /\ Ends(w, "select")

WorkerStep(w) ==
    \/ SizeBatch(w)
    \/ Receive(w)
    \/ ReceiveZero(w)
    \/ TimerFires(w)
    \/ ProcessorReturns(w)
    \/ ProcessorPanics(w)
    \/ SeeDone(w)

-----------------------------------------------------------------------------
(***************************************************************************)
(* Stop, which sync.Once runs once, and the parent context.                *)
(***************************************************************************)
\* Closing the context's channel wakes every goroutine parked on it.
CancelContext ==
    /\ done' = TRUE
    /\ adder' = [i \in Items |-> IF i \in Parked THEN "refused" ELSE adder[i]]
    /\ UNCHANGED <<queue, queueClosed, accepted, working, outcome>>

StopCancels ==
    /\ MayStop
    /\ stopper = "idle"
    /\ stopper' = "closing"
    /\ CancelContext

StopClosesQueue ==
    /\ stopper = "closing"
    /\ stopper' = "stopped"
    /\ queueClosed' = TRUE
    /\ UNCHANGED <<queue, done, adding, working, outcome>>

ParentCancelled ==
    /\ MayCancel
    /\ ~done
    /\ CancelContext
    /\ UNCHANGED stopper

Next ==
    \/ \E i \in Items : Add(i)
    \/ \E w \in Workers : WorkerStep(w)
    \/ StopCancels
    \/ StopClosesQueue
    \/ ParentCancelled

(***************************************************************************)
(* Workers are scheduled and their timers fire; a processor that is called *)
(* returns (or panics); an Add that has begun goes on.                     *)
(***************************************************************************)
Fairness ==
    /\ \A w \in Workers : /\ WF_vars(SizeBatch(w))
                          /\ SF_vars(Receive(w))
                          /\ SF_vars(TimerFires(w))
                          /\ SF_vars(SeeDone(w))
                          /\ WF_vars(ProcessorReturns(w))
    /\ \A i \in Items : WF_vars(adder[i] = "select" /\ Add(i))
    /\ WF_vars(StopClosesQueue)

Spec == Init /\ [][Next]_vars /\ Fairness

-----------------------------------------------------------------------------
\* The largest target; a batch is looked at only after an item, so it is one at least.
LargestBatch ==
    CASE DynamicBatching /\ minBatchSize <= maxBatchSize -> maxBatchSize
      [] DynamicBatching /\ minBatchSize > maxBatchSize -> minBatchSize
      [] ~DynamicBatching /\ BatchSize > 0 -> BatchSize
      [] OTHER -> 1

(* The values the variables range over.  The queue keeps its capacity, it is closed
   only under a context that is done, and no batch is larger than the configuration
   allows although its target comes from a queue length that is stale by then. *)
TypeOK ==
    /\ queue \in Seq(Items) /\ Len(queue) <= QueueSize
    /\ queueClosed \in BOOLEAN
    /\ done \in BOOLEAN
    /\ queueClosed => done
    /\ adder \in [Items -> {"idle", "select", "parked", "sent", "refused", "swallowed"}]
    /\ worker \in [Workers -> {"size", "select", "process", "gone"}]
    /\ target \in [Workers -> Nat]
    /\ buffer \in [Workers -> Seq(Items \cup {ZeroItem})]
    /\ \A w \in Workers : Len(buffer[w]) <= LargestBatch
    /\ stopper \in {"idle", "closing", "stopped"}
    /\ accepted \in Seq(Items)
    /\ processed \in [Items -> Nat]
    /\ dropped \subseteq Items

Buffered(w) == ToSet(buffer[w]) \ {ZeroItem}

Processed == {i \in Items : processed[i] > 0}

(* Every item Add accepted is in exactly one place: waiting in the queue, in the
   batch of one worker, processed once, or dropped with a worker that ended. *)
EachItemOnce ==
    /\ ToSet(accepted) = ToSet(queue) \cup Processed \cup dropped
                           \cup UNION {Buffered(w) : w \in Workers}
    /\ \A s \in {accepted, queue} : IsInjective(s)
    /\ \A i \in Items : processed[i] <= 1
    /\ ToSet(queue) \cap Processed = {}
    /\ dropped \cap (ToSet(queue) \cup Processed) = {}
    /\ \A w \in Workers :
          /\ Buffered(w) \cap (ToSet(queue) \cup Processed \cup dropped) = {}
          /\ \A v \in Workers \ {w} : Buffered(w) \cap Buffered(v) = {}

\* Where item i stands among the accepted ones.
Rank(i) == CHOOSE n \in 1..Len(accepted) : accepted[n] = i

(* The items of a batch are in the order in which they were accepted, whichever
   worker took which and however senders were parked. *)
BatchInOrder ==
    \A w \in Workers : \A m, n \in 1..Len(buffer[w]) :
        m < n /\ {buffer[w][m], buffer[w][n]} \subseteq Items =>
            Rank(buffer[w][m]) < Rank(buffer[w][n])

(* Add reports success only for an item it has sent (the comment in Add says that
   the panic of a send on the closed queue cannot happen). *)
SuccessMeansAccepted == \A i \in Items : adder[i] # "swallowed"

NoWorkerLeft == \A w \in Workers : worker[w] = "gone"

(* While the batcher runs, an accepted item is processed, at the latest when the
   timer of the worker that holds it fires; only a panic of the processor keeps an
   item from it, one in the same batch or one of every worker. *)
AcceptedEventuallyProcessed ==
    \A i \in Items :
        adder[i] = "sent" ~> i \in Processed \cup dropped \/ done \/ NoWorkerLeft

(* Every Add returns, a parked one included, unless every worker has ended by a
   panic. *)
AddReturns ==
    \A i \in Items : adder[i] \in {"select", "parked"}
                       ~> adder[i] \in {"sent", "refused", "swallowed"} \/ NoWorkerLeft

(* Once the context is done every worker ends. *)
WorkersEnd == done ~> NoWorkerLeft
=============================================================================
