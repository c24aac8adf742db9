-------------------------- MODULE EventQueueProofs --------------------------
(***************************************************************************)
(* Proofs about EventQueue, for every set of kinds and of drainers and     *)
(* every value of the bounds.                                              *)
(***************************************************************************)
EXTENDS EventQueue, SequenceTheorems, TLAPS

\* An event is really in hand while callbacks run.
TakenIsEvent == \A d \in Invoking : taken[d] \in Event

(* The inductive invariant: SerialFIFO is preserved only because a single
   drainer appends to "delivered", and a single drainer exists only because the
   flag says so. *)
IInv ==
    /\ TypeOK
    /\ SingleDrainer
    /\ NoLostWakeup
    /\ TakenIsEvent
    /\ SerialFIFO

-----------------------------------------------------------------------------
(* NoEvent is not an event that can be queued. *)
LEMMA NoEventFresh == NoEvent \notin Event
  BY NoEventAssumption DEF Event

(* A function into a set is one into every larger set. *)
LEMMA WiderRange ==
  ASSUME NEW A, NEW B, NEW C, B \subseteq C, NEW f \in [A -> B]
  PROVE  f \in [A -> C]
  OBVIOUS

(* Moving the head of the queue into the hand of the drainer keeps the whole. *)
LEMMA MoveHead ==
  ASSUME NEW T, NEW q \in Seq(T), q # <<>>, NEW p \in Seq(T)
  PROVE  p \o <<>> \o q = p \o <<Head(q)>> \o Tail(q)
<1>1. Tail(q) \in Seq(T) /\ Head(q) \in T /\ <<Head(q)>> \in Seq(T) /\ <<>> \in Seq(T)
  OBVIOUS
<1>2. q = <<Head(q)>> \o Tail(q)
  BY <1>1
<1>3. p \o <<>> = p
  BY <1>1
<1> QED
  BY <1>1, <1>2, <1>3, ConcatAssociative

(* Moving the event in hand to the delivered ones keeps the whole. *)
LEMMA MoveHand ==
  ASSUME NEW T, NEW q \in Seq(T), NEW p \in Seq(T), NEW e \in T
  PROVE  p \o <<e>> \o q = Append(p, e) \o <<>> \o q
  OBVIOUS

-----------------------------------------------------------------------------
(* Queueing an event keeps the invariant, whether or not it starts a drainer. *)
LEMMA EnqueueKeeps ==
  ASSUME IInv, NEW e \in Event, EnqueueEvent(e), UNCHANGED gateVars
  PROVE  IInv'
<1> USE DEF IInv
<1>1. TypeOK'
  BY DEF TypeOK, EnqueueEvent, gateVars, Places
<1>2. SingleDrainer'
  <2>1. CASE eventDraining
    BY <2>1 DEF SingleDrainer, EnqueueEvent, Active
  <2>2. CASE ~eventDraining
    <3>1. PICK d \in Drainers : drainer' = [drainer EXCEPT ![d] = "start"]
      BY <2>2 DEF EnqueueEvent
    <3>2. \A x \in Drainers : drainer[x] = "idle"
      BY <2>2 DEF SingleDrainer, Active
    <3> QED
      BY <3>1, <3>2 DEF SingleDrainer, EnqueueEvent, Active, TypeOK
  <2> QED
    BY <2>1, <2>2
<1>3. NoLostWakeup'
  BY <1>2 DEF NoLostWakeup, SingleDrainer, EnqueueEvent
<1>4. Invoking' = Invoking /\ taken' = taken
  <2>1. CASE eventDraining
    BY <2>1 DEF Invoking, EnqueueEvent
  <2>2. CASE ~eventDraining
    BY <2>2 DEF Invoking, EnqueueEvent, TypeOK
  <2> QED
    BY <2>1, <2>2
<1>5. TakenIsEvent'
  BY <1>4 DEF TakenIsEvent
<1>6. SerialFIFO'
  <2>1. InFlight' = InFlight
    BY <1>4 DEF InFlight
  <2>2. /\ InFlight \in Seq(Event)
        /\ delivered \in Seq(Event)
        /\ eventQueue \in Seq(Event)
    BY DEF InFlight, TakenIsEvent, TypeOK
  <2>3. Append(delivered \o InFlight \o eventQueue, e)
          = delivered \o InFlight \o Append(eventQueue, e)
    <3> DEFINE r == delivered \o InFlight
    <3>1. r \in Seq(Event)
      BY <2>2
    <3> HIDE DEF r
    <3>2. Append(r \o eventQueue, e) = r \o Append(eventQueue, e)
      <4>1. <<e>> \in Seq(Event) /\ Append(eventQueue, e) = eventQueue \o <<e>>
        BY <2>2
      <4>2. Append(r \o eventQueue, e) = (r \o eventQueue) \o <<e>>
        BY <2>2, <3>1
      <4> QED
        BY <2>2, <3>1, <4>1, <4>2, ConcatAssociative
    <3> QED
      BY <3>2 DEF r
  <2> QED
    BY <2>1, <2>3 DEF SerialFIFO, EnqueueEvent
<1> QED
  BY <1>1, <1>2, <1>3, <1>5, <1>6

(* What a step that leaves the queue, its history and every goroutine's hand
   alone has to show: only its own effect on the types and on the drainers. *)
LEMMA QuietKeeps ==
  ASSUME IInv, TypeOK', SingleDrainer', Invoking' = Invoking,
         UNCHANGED <<eventQueue, enqueued, delivered, taken>>,
         eventQueue # <<>> => eventDraining'
  PROVE  IInv'
BY DEF IInv, SingleDrainer, NoLostWakeup, TakenIsEvent, SerialFIFO, InFlight

(* Each step of a drainer keeps the invariant. *)
LEMMA DrainerKeeps ==
  ASSUME IInv, NEW d \in Drainers, DrainerStep(d), UNCHANGED gateVars
  PROVE  IInv'
<1> USE DEF IInv
<1>1. Active(d) /\ eventDraining
  BY DEF DrainerStep, ReadReady, PassReady, TakeEvent, StopDraining,
         CallbacksReturn, Active, SingleDrainer
<1>2. \A x \in Drainers : x # d => drainer[x] = "idle"
  BY <1>1 DEF SingleDrainer, Active
<1>3. CASE ReadReady(d)
  <2>1. TypeOK'
    BY <1>3 DEF ReadReady, TypeOK, producerVars, gateVars, Places
  <2>2. SingleDrainer' /\ Invoking' = Invoking
    BY <1>1, <1>2, <1>3 DEF ReadReady, SingleDrainer, Active, Invoking,
                            TypeOK, producerVars
  <2> QED
    BY <1>1, <1>3, <2>1, <2>2, QuietKeeps DEF ReadReady, producerVars
<1>4. CASE PassReady(d)
  <2>1. TypeOK'
    BY <1>4 DEF PassReady, TypeOK, producerVars, gateVars, Places
  <2>2. SingleDrainer' /\ Invoking' = Invoking
    BY <1>1, <1>2, <1>4 DEF PassReady, SingleDrainer, Active, Invoking,
                            TypeOK, producerVars
  <2> QED
    BY <1>1, <1>4, <2>1, <2>2, QuietKeeps DEF PassReady, producerVars
<1>5. CASE StopDraining(d)
  <2>1. TypeOK'
    BY <1>5 DEF StopDraining, TypeOK, gateVars, Places
  <2>2. SingleDrainer' /\ Invoking' = Invoking
    BY <1>1, <1>2, <1>5 DEF StopDraining, SingleDrainer, Active, Invoking, TypeOK
  <2> QED
    BY <1>5, <2>1, <2>2, QuietKeeps DEF StopDraining
<1>6. CASE TakeEvent(d)
  <2>1. Head(eventQueue) \in Event /\ Tail(eventQueue) \in Seq(Event)
    BY <1>6 DEF TakeEvent, TypeOK
  <2>2. TypeOK'
    BY <1>6, <2>1 DEF TakeEvent, TypeOK, gateVars, Places
  <2>3. SingleDrainer' /\ NoLostWakeup'
    BY <1>1, <1>2, <1>6 DEF TakeEvent, SingleDrainer, NoLostWakeup, Active, TypeOK
  <2>4. Invoking = {} /\ Invoking' = {d} /\ taken'[d] = Head(eventQueue)
    BY <1>2, <1>6 DEF TakeEvent, Invoking, TypeOK
  <2>5. TakenIsEvent'
    BY <2>1, <2>4 DEF TakenIsEvent
  <2>6. SerialFIFO'
    <3>1. InFlight = <<>> /\ InFlight' = <<Head(eventQueue)>>
      BY <2>4 DEF InFlight
    <3> QED
      BY <1>6, <3>1, MoveHead DEF TakeEvent, SerialFIFO, TypeOK
  <2> QED
    BY <2>2, <2>3, <2>5, <2>6
<1>7. CASE CallbacksReturn(d)
  <2>1. Invoking = {d} /\ Invoking' = {} /\ taken[d] \in Event
    BY <1>2, <1>7 DEF CallbacksReturn, Invoking, TypeOK, TakenIsEvent
  <2>2. TypeOK'
    BY <1>7, <2>1 DEF CallbacksReturn, TypeOK, producerVars, gateVars, Places
  <2>3. SingleDrainer' /\ NoLostWakeup'
    BY <1>1, <1>2, <1>7 DEF CallbacksReturn, SingleDrainer, NoLostWakeup, Active,
                            TypeOK, producerVars
  <2>4. SerialFIFO'
    <3>1. InFlight = <<taken[d]>> /\ InFlight' = <<>>
      BY <2>1 DEF InFlight
    <3> QED
      BY <1>7, <2>1, <3>1, MoveHand DEF CallbacksReturn, SerialFIFO, TypeOK, producerVars
  <2> QED
    BY <2>1, <2>2, <2>3, <2>4 DEF TakenIsEvent
<1> QED
  BY <1>3, <1>4, <1>5, <1>6, <1>7 DEF DrainerStep

-----------------------------------------------------------------------------
(* The invariant holds in the initial state. *)
LEMMA InitIInv == Init => IInv
<1> SUFFICES ASSUME Init
             PROVE  IInv
  OBVIOUS
<1>1. TypeOK
  <2>1. 0 \in 0..MaxReady /\ 0 \in 0..0
    BY BoundsAssumption
  <2>2. <<>> \in Seq(Event)
    OBVIOUS
  <2> QED
    BY <2>1, <2>2 DEF Init, TypeOK, Places
<1>2. SingleDrainer /\ NoLostWakeup
  BY DEF Init, SingleDrainer, NoLostWakeup, Active
<1>3. Invoking = {}
  BY DEF Init, Invoking
<1>4. TakenIsEvent /\ SerialFIFO
  BY <1>3 DEF Init, TakenIsEvent, SerialFIFO, InFlight
<1> QED
  BY <1>1, <1>2, <1>4 DEF IInv

(* Every step keeps the invariant: one part for each action. *)
LEMMA NextIInv == IInv /\ [Next]_vars => IInv'
<1> SUFFICES ASSUME IInv, [Next]_vars
             PROVE  IInv'
  OBVIOUS
<1> USE DEF IInv
<1>1. CASE Dispatch
  <2>1. PICK e \in Event : DispatchEvent(e) /\ UNCHANGED gateVars
    BY <1>1 DEF Dispatch
  <2>3. CASE EnqueueEvent(e)
    BY <2>1, <2>3, EnqueueKeeps
  <2>4. CASE InvokeInGoroutine
    <3>1. TypeOK'
      BY <2>1, <2>4 DEF InvokeInGoroutine, TypeOK, producerVars, gateVars
    <3>2. SingleDrainer' /\ Invoking' = Invoking
      BY <2>4 DEF InvokeInGoroutine, SingleDrainer, Active, Invoking, producerVars
    <3> QED
      BY <2>4, <3>1, <3>2, QuietKeeps
      DEF InvokeInGoroutine, producerVars, NoLostWakeup, SingleDrainer
  <2> QED
    BY <2>1, <2>3, <2>4 DEF DispatchEvent
<1>2. CASE Connection
  <2>1. TypeOK'
    <3>1. /\ connectReady' \in 0..MaxReady
          /\ 0..connectReady \subseteq 0..connectReady'
          /\ closedReady' \subseteq 0..connectReady'
      <4>1. CASE CloseReady
        BY <4>1 DEF CloseReady, TypeOK
      <4>2. CASE connectReady < MaxReady /\ ReplaceReady
        BY <4>2, BoundsAssumption DEF ReplaceReady, TypeOK
      <4> QED
        BY <1>2, <4>1, <4>2 DEF Connection
    <3>2. gate' \in [Drainers -> 0..connectReady']
      <4>1. gate \in [Drainers -> 0..connectReady] /\ gate' = gate
        BY <1>2 DEF Connection, TypeOK
      <4> QED
        BY <3>1, <4>1, WiderRange
    <3> QED
      BY <1>2, <3>1, <3>2 DEF Connection, TypeOK, producerVars
  <2>2. SingleDrainer' /\ Invoking' = Invoking
    BY <1>2 DEF Connection, SingleDrainer, Active, Invoking, producerVars
  <2> QED
    BY <1>2, <2>1, <2>2, QuietKeeps
    DEF Connection, producerVars, NoLostWakeup, SingleDrainer
<1>3. ASSUME NEW d \in Drainers, DrainerStep(d), UNCHANGED gateVars
      PROVE  IInv'
  BY <1>3, DrainerKeeps
<1>4. CASE ConnectCallbackReturns /\ UNCHANGED gateVars
  <2>1. TypeOK'
    BY <1>4 DEF ConnectCallbackReturns, TypeOK, producerVars, gateVars
  <2>2. SingleDrainer' /\ Invoking' = Invoking
    BY <1>4 DEF ConnectCallbackReturns, SingleDrainer, Active, Invoking, producerVars
  <2> QED
    BY <1>4, <2>1, <2>2, QuietKeeps
    DEF ConnectCallbackReturns, producerVars, NoLostWakeup, SingleDrainer
<1>5. CASE UNCHANGED vars
  BY <1>5 DEF vars, TypeOK, SingleDrainer, NoLostWakeup, TakenIsEvent, SerialFIFO,
              Active, Invoking, InFlight
<1> QED
  BY <1>1, <1>2, <1>3, <1>4, <1>5 DEF Next, Callbacks

(* Every reachable state of the queue satisfies the inductive invariant. *)
THEOREM Invariance == Spec => []IInv
  BY InitIInv, NextIInv, PTL DEF Spec

(* The variables of the queue keep their types in every behaviour. *)
THEOREM TypeCorrect == Spec => []TypeOK
<1>1. IInv => TypeOK
  BY DEF IInv
<1> QED
  BY <1>1, Invariance, PTL

(* For any number of producers, drainers and events there is never a second
   drainer, nor a drainer the flag does not know of. *)
THEOREM OneDrainer == Spec => []SingleDrainer
<1>1. IInv => SingleDrainer
  BY DEF IInv
<1> QED
  BY <1>1, Invariance, PTL

(* No event is ever left in the queue without a drainer that will look again. *)
THEOREM NoWakeupLost == Spec => []NoLostWakeup
<1>1. IInv => NoLostWakeup
  BY DEF IInv
<1> QED
  BY <1>1, Invariance, PTL

(* Delivered, in hand and waiting together are what was queued, in order. *)
THEOREM DeliveryOrder == Spec => []SerialFIFO
<1>1. IInv => SerialFIFO
  BY DEF IInv
<1> QED
  BY <1>1, Invariance, PTL

-----------------------------------------------------------------------------
(* The hand of the drainer, as the abstract queue sees it. *)
LEMMA RunningIs ==
  /\ Invoking = {} => Running = NoEvent
  /\ \A d \in Drainers : Invoking = {d} => Running = taken[d]
BY DEF Running

(* The empty queue is the initial state of SerialDelivery. *)
LEMMA InitSerial == Init => Serial!Init
  BY DEF Init, Serial!Init, Running, Invoking

(* Every step of the queue is a step of SerialDelivery or leaves it alone. *)
LEMMA NextSerial == IInv /\ [Next]_vars => [Serial!Next]_Serial!vars
<1> SUFFICES ASSUME IInv, [Next]_vars
             PROVE  [Serial!Next]_Serial!vars
  OBVIOUS
<1> USE DEF IInv
<1>1. ASSUME NEW e \in Event, EnqueueEvent(e)
      PROVE  Serial!Post(e)
  <2>1. Invoking' = Invoking /\ taken' = taken
    <3>1. CASE eventDraining
      BY <1>1, <3>1 DEF Invoking, EnqueueEvent
    <3>2. CASE ~eventDraining
      BY <1>1, <3>2 DEF Invoking, EnqueueEvent, TypeOK
    <3> QED
      BY <3>1, <3>2
  <2> QED
    BY <1>1, <2>1 DEF Serial!Post, EnqueueEvent, Running
<1>2. ASSUME Invoking' = Invoking, taken' = taken, eventQueue' = eventQueue
      PROVE  UNCHANGED Serial!vars
  BY <1>2 DEF Serial!vars, Running
<1>3. CASE Dispatch
  <2>1. PICK e \in Event : DispatchEvent(e)
    BY <1>3 DEF Dispatch
  <2>3. CASE EnqueueEvent(e)
    BY <1>1, <2>3 DEF Serial!Next
  <2>4. CASE InvokeInGoroutine
    BY <1>2, <2>4 DEF InvokeInGoroutine, producerVars, Invoking
  <2> QED
    BY <2>1, <2>3, <2>4 DEF DispatchEvent
<1>4. CASE Connection
  BY <1>2, <1>4 DEF Connection, producerVars, Invoking
<1>5. CASE ConnectCallbackReturns
  BY <1>2, <1>5 DEF ConnectCallbackReturns, producerVars, Invoking
<1>6. ASSUME NEW d \in Drainers, DrainerStep(d)
      PROVE  [Serial!Next]_Serial!vars
  <2>1. Active(d)
    BY <1>6 DEF DrainerStep, ReadReady, PassReady, TakeEvent, StopDraining,
                CallbacksReturn, Active
  <2>2. \A x \in Drainers : x # d => drainer[x] = "idle"
    BY <2>1 DEF SingleDrainer, Active
  <2>3. CASE ReadReady(d) \/ PassReady(d) \/ StopDraining(d)
    <3>1. Invoking' = Invoking
      BY <2>2, <2>3 DEF ReadReady, PassReady, StopDraining, Invoking, TypeOK
    <3> QED
      BY <1>2, <2>3, <3>1 DEF ReadReady, PassReady, StopDraining, producerVars
  <2>4. CASE TakeEvent(d)
    <3>1. Invoking = {} /\ Invoking' = {d} /\ taken'[d] = Head(eventQueue)
      BY <2>2, <2>4 DEF TakeEvent, Invoking, TypeOK
    <3>2. Running = NoEvent /\ Running' = Head(eventQueue)
      BY <3>1 DEF Running
    <3> QED
      BY <2>4, <3>2 DEF TakeEvent, Serial!Next, Serial!Begin
  <2>5. CASE CallbacksReturn(d)
    <3>1. Invoking = {d} /\ Invoking' = {} /\ taken[d] \in Event
      BY <2>2, <2>5 DEF CallbacksReturn, Invoking, TypeOK, TakenIsEvent
    <3>2. Running = taken[d] /\ Running' = NoEvent
      BY <3>1 DEF Running
    <3> QED
      BY <2>5, <3>1, <3>2, NoEventFresh
      DEF CallbacksReturn, producerVars, Serial!Next, Serial!Finish
  <2> QED
    BY <1>6, <2>3, <2>4, <2>5 DEF DrainerStep
<1>7. CASE UNCHANGED vars
  BY <1>2, <1>7 DEF vars, Invoking
<1> QED
  BY <1>3, <1>4, <1>5, <1>6, <1>7 DEF Next, Callbacks

(* The queue implements serial delivery: the user sees one callback at a time, in
   the order of enqueueing, whatever goroutines do below. *)
THEOREM Refinement == Spec => ImplementsSerial
<1>1. Spec => Serial!Init /\ [][Serial!Next]_Serial!vars
  BY InitSerial, NextSerial, Invariance, PTL DEF Spec
<1> QED
  BY <1>1 DEF ImplementsSerial, Serial!Spec
=============================================================================
