--------------------------- MODULE SessionV1Proofs ---------------------------
(***************************************************************************)
(* A connection of evsocket v1, of a server or of a client that connects   *)
(* again and again, with a queue of any size and any number of messages:   *)
(* it never panics, a disconnect is reported when it is over, and what is  *)
(* written is what was queued, in order.                                   *)
(*                                                                         *)
(* The invariant has three parts: where the goroutines can be; what the    *)
(* once of disconnected keeps apart; and where the messages of a session   *)
(* are, which is the account of the queue.                                 *)
(***************************************************************************)
EXTENDS SessionV1, TLAPS

Messages == {"hello", "reply", "pong", "close"}

\* The places of disconnected; the caller that has won the once is in one of Closing.
Closing == {"setAlive", "closeConn", "closeDone"}
Reporting == {"report", "leavePool"}
Disconnecting == {"isAlive", "once"} \cup Closing \cup Reporting

\* Where the goroutines can be, and what the flags can be.
PlacesOK ==
    /\ pc = [p \in Goroutines \cup {"closer"} |-> pc[p]]
    /\ pc["send"] \in {"select", "write", "end"} \cup Disconnecting
    /\ pc["read"] \in {"tick", "reading", "handle", "reply", "end"} \cup Disconnecting
    /\ {alive, done, reported, crashed} \subseteq BOOLEAN
    /\ once \in {"fresh", "running", "over"}

DataOK ==
    /\ queue \in Seq(Messages)
    /\ accepted \in Seq(Messages)
    /\ sent \in Seq(Messages)
    /\ before \in Nat
    /\ pc["send"] = "write" => hand \in Messages

\* done is closed by the one that has won the once, and only by it; whoever reports the
\* end, and whoever comes after, finds alive false; and run ends once done is closed.
EndedOnce ==
    /\ ~crashed
    /\ done <=> once = "over"
    /\ \A p \in {"send", "read"} : pc[p] \in Closing => once = "running"
    /\ pc["send"] \in Closing => pc["read"] \notin Closing
    /\ \A p \in {"send", "read"} : pc[p] \in Reporting \cup {"closeConn", "closeDone"} => ~alive
    /\ once = "over" => ~alive
    /\ reported => ~alive
    /\ pc["run"] = "end" /\ session > 0 => done

\* How many messages have been taken from the queue.
Taken == Len(accepted) - Len(queue)

\* The queue holds the last ones accepted; sent holds those taken in this session, all of
\* them but the one in send's hand as long as the connection takes what is written.
InTransit ==
    /\ Len(queue) <= Len(accepted)
    /\ \A i \in 1..Len(queue) : queue[i] = accepted[Taken + i]
    /\ before + Len(sent) <= Taken
    /\ \A i \in 1..Len(sent) : sent[i] = accepted[before + i]
    /\ pc["send"] = "write" => before + Len(sent) < Taken /\ hand = accepted[Taken]
    /\ ~broken /\ ~closeSent =>
         before + Len(sent) = IF pc["send"] = "write" THEN Taken - 1 ELSE Taken

IInv == PlacesOK /\ DataOK /\ EndedOnce /\ InTransit

\* A step that is not one of the queue's.
WireStays ==
    /\ UNCHANGED <<hand, before, sent, closeSent>>
    /\ broken => broken'
    /\ pc'["send"] = "write" <=> pc["send"] = "write"

OutboxStays == WireStays /\ UNCHANGED <<queue, accepted>>

Queues ==
    /\ WireStays
    /\ \E msg \in Messages : queue' = Append(queue, msg) /\ accepted' = Append(accepted, msg)

\* The goroutines go where the code takes them.
LEMMA PlacesStep ==
    ASSUME PlacesOK, [Next]_vars
    PROVE  PlacesOK'
<1> USE DEF PlacesOK, Goroutines, Running, Places, Closing, Reporting, Disconnecting, At,
            Goes, ending, lock, outbox, wire, peer, side
<1>1. CASE Emit
    BY <1>1 DEF Emit, Write
<1>2. CASE SetAttribute
    BY <1>2 DEF SetAttribute
<1>3. CASE CallbackReturns \/ HandlerReturns
    BY <1>3 DEF CallbackReturns, HandlerReturns
<1>4. CASE ClientConnect \/ DialFails
    BY <1>4 DEF ClientConnect, DialFails
<1>5. CASE DialSucceeds
    BY <1>5 DEF DialSucceeds, RenewOnce
<1>6. CASE BeginClose \/ BeginShutdown
    BY <1>6 DEF BeginClose, BeginShutdown
<1>7. CASE SnapshotPool \/ VisitConnection
    BY <1>7 DEF SnapshotPool, VisitConnection
<1>8. CASE Write("closer", "close", "close", "end")
    BY <1>8 DEF Write
<1>9. CASE TakeMessage
    BY <1>9 DEF TakeMessage
<1>10. CASE WriteMessage
    BY <1>10 DEF WriteMessage
<1>11. CASE SeeCancelled("send", "select")
    BY <1>11 DEF SeeCancelled
<1>12. ASSUME NEW p \in {"send", "read"}, Disconnected(p)
       PROVE  PlacesOK'
    <2>1. CASE CheckAlive(p)
        BY <2>1 DEF CheckAlive
    <2>2. CASE EnterOnce(p)
        BY <2>2 DEF EnterOnce
    <2>3. CASE SetAlive(p)
        BY <2>3 DEF SetAlive
    <2>4. CASE CloseConn(p)
        BY <2>4 DEF CloseConn
    <2>5. CASE CloseDone(p)
        BY <2>5 DEF CloseDone
    <2>6. CASE Report(p)
        BY <2>6 DEF Report
    <2>7. CASE LeavePool(p)
        BY <2>7 DEF LeavePool
    <2> QED
        BY <1>12, <2>1, <2>2, <2>3, <2>4, <2>5, <2>6, <2>7 DEF Disconnected
<1>13. CASE BeginRead \/ ReadMessage \/ ReadFails
    BY <1>13 DEF BeginRead, ReadMessage, ReadFails
<1>14. CASE Handle
    BY <1>14 DEF Handle
<1>15. CASE Write("read", "reply", "reply", "tick")
    BY <1>15 DEF Write
<1>16. CASE SeeCancelled("read", "tick")
    BY <1>16 DEF SeeCancelled
<1>17. CASE Tick
    BY <1>17 DEF Tick
<1>18. CASE Write("pong", "write", "pong", "tick")
    BY <1>18 DEF Write
<1>19. CASE SeeCancelled("pong", "tick")
    BY <1>19 DEF SeeCancelled
<1>20. CASE Run
    BY <1>20 DEF Run
<1>21. CASE PeerSends \/ ConnectionBreaks
    BY <1>21 DEF PeerSends, ConnectionBreaks
<1>22. CASE UNCHANGED vars
    BY <1>22 DEF vars
<1> QED
    BY <1>1, <1>2, <1>3, <1>4, <1>5, <1>6, <1>7, <1>8, <1>9, <1>10, <1>11, <1>12, <1>13,
       <1>14, <1>15, <1>16, <1>17, <1>18, <1>19, <1>20, <1>21, <1>22
    DEF Next, App, Close, Send, Read, Pong

\* The once lets one caller of disconnected through in a session.
LEMMA EndedStep ==
    ASSUME PlacesOK, EndedOnce, [Next]_vars
    PROVE  EndedOnce'
<1> USE DEF EndedOnce, PlacesOK, Goroutines, Running, Places, Closing, Reporting,
            Disconnecting, At, Goes, ending, lock, outbox, wire, peer, side
<1>1. CASE Emit
    BY <1>1 DEF Emit, Write
<1>2. CASE SetAttribute
    BY <1>2 DEF SetAttribute
<1>3. CASE CallbackReturns \/ HandlerReturns
    BY <1>3 DEF CallbackReturns, HandlerReturns
<1>4. CASE ClientConnect
    <2>1. session > 0 => done
        BY <1>4 DEF ClientConnect, MayConnect, Over
    <2>2. done' = done
        BY <1>4, <2>1 DEF ClientConnect
    <2> QED
        BY <1>4, <2>2 DEF ClientConnect
<1>23. CASE DialFails
    BY <1>23 DEF DialFails
<1>5. CASE DialSucceeds
    BY <1>5 DEF DialSucceeds, RenewOnce
<1>6. CASE BeginClose \/ BeginShutdown
    BY <1>6 DEF BeginClose, BeginShutdown
<1>7. CASE SnapshotPool \/ VisitConnection
    BY <1>7 DEF SnapshotPool, VisitConnection
<1>8. CASE Write("closer", "close", "close", "end")
    BY <1>8 DEF Write
<1>9. CASE TakeMessage
    BY <1>9 DEF TakeMessage
<1>10. CASE WriteMessage
    BY <1>10 DEF WriteMessage
<1>11. CASE SeeCancelled("send", "select")
    BY <1>11 DEF SeeCancelled
<1>12. ASSUME NEW p \in {"send", "read"}, Disconnected(p)
       PROVE  EndedOnce'
    <2>1. CASE CheckAlive(p)
        BY <2>1 DEF CheckAlive
    <2>2. CASE EnterOnce(p)
        BY <2>2 DEF EnterOnce
    <2>3. CASE SetAlive(p)
        BY <2>3 DEF SetAlive
    <2>4. CASE CloseConn(p)
        BY <2>4 DEF CloseConn
    <2>5. CASE CloseDone(p)
        BY <2>5 DEF CloseDone
    <2>6. CASE Report(p)
        BY <2>6 DEF Report
    <2>7. CASE LeavePool(p)
        BY <2>7 DEF LeavePool
    <2> QED
        BY <1>12, <2>1, <2>2, <2>3, <2>4, <2>5, <2>6, <2>7 DEF Disconnected
<1>13. CASE BeginRead \/ ReadMessage \/ ReadFails
    BY <1>13 DEF BeginRead, ReadMessage, ReadFails
<1>14. CASE Handle
    BY <1>14 DEF Handle
<1>15. CASE Write("read", "reply", "reply", "tick")
    BY <1>15 DEF Write
<1>16. CASE SeeCancelled("read", "tick")
    BY <1>16 DEF SeeCancelled
<1>17. CASE Tick
    BY <1>17 DEF Tick
<1>18. CASE Write("pong", "write", "pong", "tick")
    BY <1>18 DEF Write
<1>19. CASE SeeCancelled("pong", "tick")
    BY <1>19 DEF SeeCancelled
<1>20. CASE Run
    BY <1>20 DEF Run
<1>21. CASE PeerSends \/ ConnectionBreaks
    BY <1>21 DEF PeerSends, ConnectionBreaks
<1>22. CASE UNCHANGED vars
    BY <1>22 DEF vars
<1> QED
    BY <1>1, <1>2, <1>3, <1>4, <1>5, <1>6, <1>7, <1>8, <1>9, <1>10, <1>11, <1>12, <1>13,
       <1>14, <1>15, <1>16, <1>17, <1>18, <1>19, <1>20, <1>21, <1>22, <1>23
    DEF Next, App, Close, Send, Read, Pong

\* What a step does to the queue and to the messages on their way.
LEMMA OutboxStep ==
    ASSUME PlacesOK, [Next]_vars
    PROVE  OutboxStays \/ Queues \/ TakeMessage \/ WriteMessage \/ DialSucceeds
<1> USE DEF OutboxStays, Queues, WireStays, Messages, PlacesOK, Goroutines,
           Running, Places, Closing, Reporting, Disconnecting, At, Goes, ending, lock, outbox,
           wire, peer, side
<1>1. CASE Emit
    BY <1>1 DEF Emit, Write
<1>2. CASE SetAttribute
    BY <1>2 DEF SetAttribute
<1>3. CASE CallbackReturns \/ HandlerReturns
    BY <1>3 DEF CallbackReturns, HandlerReturns
<1>4. CASE ClientConnect \/ DialFails
    BY <1>4 DEF ClientConnect, DialFails
<1>5. CASE DialSucceeds
    BY <1>5 DEF DialSucceeds, RenewOnce
<1>6. CASE BeginClose \/ BeginShutdown
    BY <1>6 DEF BeginClose, BeginShutdown
<1>7. CASE SnapshotPool \/ VisitConnection
    BY <1>7 DEF SnapshotPool, VisitConnection
<1>8. CASE Write("closer", "close", "close", "end")
    BY <1>8 DEF Write
<1>9. CASE TakeMessage
    BY <1>9 DEF TakeMessage
<1>10. CASE WriteMessage
    BY <1>10 DEF WriteMessage
<1>11. CASE SeeCancelled("send", "select")
    BY <1>11 DEF SeeCancelled
<1>12. ASSUME NEW p \in {"send", "read"}, Disconnected(p)
       PROVE  OutboxStays \/ Queues \/ TakeMessage \/ WriteMessage \/ DialSucceeds
    <2>1. CASE CheckAlive(p)
        BY <2>1 DEF CheckAlive
    <2>2. CASE EnterOnce(p)
        BY <2>2 DEF EnterOnce
    <2>3. CASE SetAlive(p)
        BY <2>3 DEF SetAlive
    <2>4. CASE CloseConn(p)
        BY <2>4 DEF CloseConn
    <2>5. CASE CloseDone(p)
        BY <2>5 DEF CloseDone
    <2>6. CASE Report(p)
        BY <2>6 DEF Report
    <2>7. CASE LeavePool(p)
        BY <2>7 DEF LeavePool
    <2> QED
        BY <1>12, <2>1, <2>2, <2>3, <2>4, <2>5, <2>6, <2>7 DEF Disconnected
<1>13. CASE BeginRead \/ ReadMessage \/ ReadFails
    BY <1>13 DEF BeginRead, ReadMessage, ReadFails
<1>14. CASE Handle
    BY <1>14 DEF Handle
<1>15. CASE Write("read", "reply", "reply", "tick")
    BY <1>15 DEF Write
<1>16. CASE SeeCancelled("read", "tick")
    BY <1>16 DEF SeeCancelled
<1>17. CASE Tick
    BY <1>17 DEF Tick
<1>18. CASE Write("pong", "write", "pong", "tick")
    BY <1>18 DEF Write
<1>19. CASE SeeCancelled("pong", "tick")
    BY <1>19 DEF SeeCancelled
<1>20. CASE Run
    BY <1>20 DEF Run
<1>21. CASE PeerSends \/ ConnectionBreaks
    BY <1>21 DEF PeerSends, ConnectionBreaks
<1>22. CASE UNCHANGED vars
    BY <1>22 DEF vars
<1> QED
    BY <1>1, <1>2, <1>3, <1>4, <1>5, <1>6, <1>7, <1>8, <1>9, <1>10, <1>11, <1>12, <1>13,
       <1>14, <1>15, <1>16, <1>17, <1>18, <1>19, <1>20, <1>21, <1>22
    DEF Next, App, Close, Send, Read, Pong

-----------------------------------------------------------------------------
(***************************************************************************)
(* The queue.                                                              *)
(***************************************************************************)
\* A sequence with one more element at its end, and one without its first.
LEMMA AppendAt ==
    ASSUME NEW s \in Seq(Messages), NEW x \in Messages
    PROVE  /\ Append(s, x) \in Seq(Messages) /\ Len(Append(s, x)) = Len(s) + 1
           /\ \A i \in 1..Len(s) : Append(s, x)[i] = s[i]
           /\ Append(s, x)[Len(s) + 1] = x
OBVIOUS

LEMMA TailAt ==
    ASSUME NEW s \in Seq(Messages), s # <<>>
    PROVE  /\ Tail(s) \in Seq(Messages) /\ Len(s) \in Nat \ {0} /\ Len(Tail(s)) = Len(s) - 1
           /\ Head(s) = s[1] /\ s[1] \in Messages
           /\ \A i \in 1..(Len(s) - 1) : Tail(s)[i] = s[i + 1]
OBVIOUS

\* The sequences hold messages.
LEMMA DataStep ==
    ASSUME PlacesOK, DataOK, InTransit, [Next]_vars
    PROVE  DataOK'
<1> USE DEF DataOK
<1>1. CASE OutboxStays
    BY <1>1 DEF OutboxStays, WireStays
<1>2. CASE Queues
    BY <1>2, AppendAt DEF Queues, WireStays
<1>3. CASE TakeMessage
    BY <1>3, TailAt DEF TakeMessage
<1>4. CASE WriteMessage
    <2>1. pc["send"] = "write" /\ pc'["send"] # "write"
        BY <1>4 DEF WriteMessage, At, Goes, PlacesOK, Goroutines, Running
    <2>2. sent' \in Seq(Messages)
        BY <1>4, <2>1, AppendAt DEF WriteMessage
    <2> QED
        BY <1>4, <2>1, <2>2 DEF WriteMessage, outbox
<1>5. CASE DialSucceeds
    <2>1. pc'["send"] = "select"
        BY <1>5 DEF DialSucceeds, Places, Running, Goroutines
    <2>2. Len(queue) \in Nat /\ Len(accepted) \in Nat /\ Len(queue) <= Len(accepted)
        BY DEF InTransit
    <2>3. before' \in Nat
        BY <1>5, <2>2 DEF DialSucceeds
    <2> QED
        BY <1>5, <2>1, <2>3 DEF DialSucceeds, outbox
<1> QED
    BY <1>1, <1>2, <1>3, <1>4, <1>5, OutboxStep

\* Every message keeps its place between accepted, queue, hand and sent.
LEMMA TransitStep ==
    ASSUME PlacesOK, DataOK, InTransit, [Next]_vars
    PROVE  InTransit'
<1> USE DEF DataOK, InTransit, Taken
<1>1. CASE OutboxStays
    BY <1>1 DEF OutboxStays, WireStays
<1>2. CASE Queues
    <2>1. PICK msg \in Messages :
             queue' = Append(queue, msg) /\ accepted' = Append(accepted, msg)
        BY <1>2 DEF Queues
    <2>2. /\ UNCHANGED <<hand, before, sent, closeSent>>
          /\ broken => broken'
          /\ pc'["send"] = "write" <=> pc["send"] = "write"
        BY <1>2 DEF Queues, WireStays
    <2>3. Taken' = Taken /\ Len(accepted') = Len(accepted) + 1 /\ Len(queue') = Len(queue) + 1
        BY <2>1, AppendAt
    <2>4. /\ \A i \in 1..Len(accepted) : accepted'[i] = accepted[i]
          /\ \A i \in 1..Len(queue) : queue'[i] = queue[i]
          /\ queue'[Len(queue) + 1] = accepted'[Len(accepted) + 1]
        BY <2>1, AppendAt
    <2>5. ASSUME NEW i \in 1..Len(queue')
          PROVE  queue'[i] = accepted'[Taken' + i]
        <3>1. Len(queue) \in Nat /\ Len(accepted) \in Nat
            OBVIOUS
        <3>2. CASE i = Len(queue) + 1
            <4>1. Taken' + i = Len(accepted) + 1
                BY <2>3, <3>1, <3>2
            <4> QED
                BY <2>4, <3>2, <4>1
        <3>3. CASE i \in 1..Len(queue)
            <4>1. Taken' + i \in 1..Len(accepted) /\ Taken' + i = Taken + i
                BY <2>3, <3>1, <3>3
            <4> QED
                BY <2>4, <3>3, <4>1
        <3> QED
            BY <2>3, <3>1, <3>2, <3>3
    <2>6. \A i \in 1..Len(sent') : sent'[i] = accepted'[before' + i]
        BY <2>2, <2>4
    <2>7. pc'["send"] = "write" => before' + Len(sent') < Taken' /\ hand' = accepted'[Taken']
        BY <2>2, <2>3, <2>4
    <2> QED
        BY <2>2, <2>3, <2>5, <2>6, <2>7
<1>3. CASE TakeMessage
    <2>1. /\ pc["send"] = "select" /\ pc'["send"] = "write"
          /\ queue # <<>> /\ hand' = Head(queue) /\ queue' = Tail(queue)
          /\ UNCHANGED <<accepted, before, sent, closeSent, broken>>
        BY <1>3 DEF TakeMessage, At, Goes, PlacesOK, Goroutines, Running, peer
    <2>2. Len(queue') = Len(queue) - 1 /\ Len(queue) \in Nat \ {0} /\ Taken' = Taken + 1
        BY <2>1, TailAt
    <2>3. hand' = accepted[Taken']
        BY <2>1, <2>2, TailAt
    <2>4. \A i \in 1..Len(queue') : queue'[i] = accepted[Taken' + i]
        BY <2>1, <2>2, TailAt
    <2> QED
        BY <2>1, <2>2, <2>3, <2>4
<1>4. CASE WriteMessage
    <2>1. /\ pc["send"] = "write" /\ pc'["send"] # "write"
          /\ UNCHANGED <<queue, accepted, before, hand, broken>>
        BY <1>4 DEF WriteMessage, At, Goes, PlacesOK, Goroutines, Running, outbox, peer
    <2>2. CASE broken \/ closeSent
        BY <1>4, <2>1, <2>2 DEF WriteMessage
    <2>3. CASE ~broken /\ ~closeSent
        <3>1. sent' = Append(sent, hand)
            BY <1>4, <2>3 DEF WriteMessage
        <3>2. /\ Len(sent') = Len(sent) + 1
              /\ \A i \in 1..Len(sent) : sent'[i] = sent[i]
              /\ sent'[Len(sent) + 1] = accepted[Taken]
            BY <2>1, <3>1, AppendAt
        <3>3. before + Len(sent) + 1 = Taken
            BY <2>1, <2>3
        <3>4. ASSUME NEW i \in 1..Len(sent')
              PROVE  sent'[i] = accepted[before + i]
            <4>1. Len(sent) \in Nat
                OBVIOUS
            <4>2. CASE i = Len(sent) + 1
                <5>1. before + i = Taken
                    BY <3>3, <4>1, <4>2
                <5> QED
                    BY <3>2, <4>2, <5>1
            <4>3. CASE i \in 1..Len(sent)
                BY <3>2, <4>3
            <4> QED
                BY <3>2, <4>1, <4>2, <4>3
        <3> QED
            BY <2>1, <3>2, <3>3, <3>4
    <2> QED
        BY <2>2, <2>3
<1>5. CASE DialSucceeds
    <2>1. /\ pc'["send"] = "select" /\ sent' = <<>> /\ before' = Taken
          /\ queue' = queue /\ accepted' = accepted
        BY <1>5 DEF DialSucceeds, Places, Running, Goroutines, outbox
    <2> QED
        BY <2>1
<1> QED
    BY <1>1, <1>2, <1>3, <1>4, <1>5, OutboxStep

-----------------------------------------------------------------------------
\* Before the first session nothing has been queued and nothing has ended.
LEMMA InitHolds == Init => IInv
<1> SUFFICES ASSUME Init PROVE IInv
    OBVIOUS
<1>1. PlacesOK
    BY DEF Init, PlacesOK, Places, Goroutines, Running, Over, client
<1>2. DataOK
    BY <1>1 DEF Init, DataOK, Places, Goroutines, Running, Over
<1>3. EndedOnce
    BY DEF Init, EndedOnce, Places, Goroutines, Running, Over, Closing, Reporting
<1>4. InTransit
    BY DEF Init, InTransit, Taken, Places, Goroutines, Running, Over
<1> QED
    BY <1>1, <1>2, <1>3, <1>4 DEF IInv

\* Every connection is always in a state the three parts describe.
THEOREM Invariance == Spec => []IInv
<1>1. IInv /\ [Next]_vars => IInv'
    BY PlacesStep, DataStep, EndedStep, TransitStep DEF IInv
<1> QED
    BY InitHolds, <1>1, PTL DEF Spec

\* However read and send race in disconnected (evsocket/socketio.go), and however often a
\* client connects again, done is closed once in a session: nothing panics.
THEOREM NeverPanics == Spec => []NoCrash
<1>1. IInv => NoCrash
    BY DEF IInv, EndedOnce, NoCrash
<1> QED
    BY <1>1, Invariance, PTL

\* Whoever reports the disconnect of a session, first or second, finds IsAlive false.
THEOREM ReportedWhenOver == Spec => []DisconnectMeansDead
<1>1. IInv => DisconnectMeansDead
    BY DEF IInv, EndedOnce, DisconnectMeansDead
<1> QED
    BY <1>1, Invariance, PTL

\* What is written in a session is what was left in the queue and what was queued since, in
\* that order, for a queue of any size and any number of messages of every goroutine.
THEOREM WritesInOrder == Spec => []SentInOrder
<1>1. ASSUME DataOK, InTransit
      PROVE  SentInOrder
    <2>1. /\ Len(sent) \in Nat /\ Len(accepted) \in Nat /\ Len(queue) \in Nat /\ before \in Nat
          /\ before + Len(sent) <= Len(accepted)
        BY <1>1 DEF DataOK, InTransit, Taken
    <2>2. Outgoing \in Seq(Messages) /\ Len(Outgoing) = Len(accepted) - before
        BY <1>1, <2>1 DEF Outgoing, DataOK
    <2>3. \A i \in 1..Len(sent) : Outgoing[i] = accepted[before + i]
        BY <1>1, <2>1 DEF Outgoing, DataOK
    <2>4. \A i \in 1..Len(sent) : sent[i] = Outgoing[i]
        BY <1>1, <2>3 DEF InTransit
    <2>5. Len(sent) <= Len(Outgoing)
        BY <2>1, <2>2
    <2>6. SubSeq(sent, 1, Len(sent)) = SubSeq(Outgoing, 1, Len(sent))
        BY <1>1, <2>1, <2>2, <2>4, <2>5 DEF DataOK
    <2> QED
        BY <2>5, <2>6 DEF SentInOrder, IsPrefix
<1>2. IInv => SentInOrder
    BY <1>1 DEF IInv
<1> QED
    BY <1>2, Invariance, PTL
=============================================================================
