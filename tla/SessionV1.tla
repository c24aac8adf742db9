------------------------------ MODULE SessionV1 ------------------------------
(***************************************************************************)
(* One connection of evsocket v1 (evsocket/socketio.go): of a server, the  *)
(* handler that New returns, or of a client, ClientConnect called again    *)
(* and again; and the goroutines run starts for it.                        *)
(*                                                                         *)
(*   app   the handler, or the caller of ClientConnect: the user's         *)
(*         callback, then <-done                                           *)
(*   send  takes messages from the queue and writes them                   *)
(*   read  reads messages and calls the listeners                          *)
(*   pong  queues a pong at every tick                                     *)
(*   run   waits for done, then cancels the context of the other three     *)
(*                                                                         *)
(* All of them share mu, a sync.RWMutex.  read holds it for reading while  *)
(* it is blocked in ReadMessage; a goroutine that waits in Lock keeps new  *)
(* readers out, as sync.RWMutex does.  Every other critical section is     *)
(* short and one step here, enabled when the lock can be had.              *)
(*                                                                         *)
(* A client calls ClientConnect when the goroutines of its last session    *)
(* have ended (MayConnect).  So done is closed by then and nothing has to  *)
(* be closed by force, Conn is set while goroutines run, and the retry     *)
(* branch of send is never taken.  The queue outlives the session.         *)
(*                                                                         *)
(* External: gorilla's WriteMessage fails once the connection is broken or *)
(* a close frame was written; ReadMessage returns a message or, once the   *)
(* connection is broken, an error, and never a control frame.              *)
(***************************************************************************)
EXTENDS Naturals, Sequences, SequencesExt

CONSTANTS
    QueueSize,      \* capacity of the queue (100 in the code)
    Instances       \* kinds of connection and their bounds

(***************************************************************************)
(* An instance is the value of ClientFlag and the bounds on the messages   *)
(* the callback emits, the pongs queued, the messages the peer sends, the  *)
(* calls of SetUUID or SetAttribute in the callback, and the sessions of a *)
(* client.                                                                 *)
(***************************************************************************)
ASSUME SessionV1Assumption ==
    /\ QueueSize \in Nat \ {0}
    /\ Instances \subseteq [client : BOOLEAN, emits : Nat, pongs : Nat, incoming : Nat,
                            sets : Nat, sessions : Nat]

VARIABLES
    max,        \* the instance
    session,    \* number of sessions so far
    isShutdown, \* SocketInstance.isShutdown
    pc,         \* where each goroutine is
    alive,      \* isAlive
    done,       \* the channel done is closed
    cancelled,  \* the context is cancelled
    once,       \* the sync.Once of disconnected: "fresh", "running" or "over"
    inPool,
    reading,    \* read holds mu for reading, inside ReadMessage
    waiting,    \* goroutines that wait in mu.Lock
    queue,
    hand,       \* the message send took last
    accepted,   \* history: messages queued, in order
    before,     \* history: how many of them were taken in earlier sessions
    sets,       \* history: setters called
    sent,       \* history: messages written in this session, in order
    reported,   \* history: EventDisconnect was fired
    crashed,    \* a panic has ended the process
    incoming,   \* external: messages of the peer not read yet
    received,   \* history: number of messages the peer has sent
    broken,     \* external: the connection is gone
    closeSent   \* a close frame was written

ending == <<alive, done, cancelled, once, inPool, reported, crashed>>
lock == <<reading, waiting, sets>>
outbox == <<queue, accepted>>
wire == <<before, hand, sent, closeSent>>
peer == <<incoming, received, broken>>
side == <<max, session, isShutdown>>
vars == <<side, pc, ending, lock, outbox, wire, peer>>

Running == [app |-> "callback", send |-> "select", read |-> "tick",
            pong |-> "tick", run |-> "wait"]

Over == [app |-> "idle", send |-> "end", read |-> "end", pong |-> "end", run |-> "end"]

Goroutines == DOMAIN Running

\* The places of the goroutines of a session, and of the closer, which outlives it.
Places(session_pc, closer) ==
    [p \in Goroutines \cup {"closer"} |-> IF p = "closer" THEN closer ELSE session_pc[p]]

\* ClientFlag.
client == max.client

Init ==
    /\ max \in Instances
    /\ isShutdown = FALSE
    /\ session = IF client THEN 0 ELSE 1
    /\ pc = Places(IF client THEN Over ELSE Running, "idle")
    /\ alive = ~client
    /\ done = FALSE
    /\ cancelled = FALSE
    /\ once = "fresh"
    /\ inPool = ~client
    /\ reading = FALSE
    /\ waiting = {}
    /\ queue = <<>>
    /\ hand = "none"
    /\ accepted = <<>>
    /\ before = 0
    /\ sets = 0
    /\ sent = <<>>
    /\ reported = FALSE
    /\ crashed = FALSE
    /\ incoming = 0
    /\ received = 0
    /\ broken = FALSE
    /\ closeSent = FALSE

Goes(p, from, to) ==
    /\ ~crashed
    /\ pc[p] = from
    /\ pc' = [pc EXCEPT ![p] = to]
    /\ UNCHANGED <<max, session>>

At(p, from, to) == Goes(p, from, to) /\ UNCHANGED isShutdown

Count(seq, msg) == Len(SelectSeq(seq, LAMBDA x : x = msg))

\* mu.RLock does not wait.
ReadLockFree == waiting = {}

\* The queue blocks its sender while it is full.
Write(p, from, msg, to) ==
    /\ At(p, from, to)
    /\ Len(queue) < QueueSize
    /\ queue' = Append(queue, msg)
    /\ accepted' = Append(accepted, msg)
    /\ UNCHANGED <<ending, lock, wire, peer>>

-----------------------------------------------------------------------------
(***************************************************************************)
(* app: the user's callback emits, closes, or calls a setter; then the     *)
(* handler waits for done.                                                 *)
(***************************************************************************)
Emit ==
    \/ /\ Count(accepted, "hello") < max.emits
       /\ At("app", "callback", "emit")
       /\ UNCHANGED <<ending, lock, outbox, wire, peer>>
    \/ Write("app", "emit", "hello", "callback")

SetAttribute ==
    \/ /\ sets < max.sets
       /\ At("app", "callback", "lock")
       /\ sets' = sets + 1
       /\ waiting' = waiting \cup {"app"}
       /\ UNCHANGED <<ending, reading, outbox, wire, peer>>
    \/ /\ At("app", "lock", "callback")
       /\ ~reading
       /\ waiting' = waiting \ {"app"}
       /\ UNCHANGED <<sets, ending, reading, outbox, wire, peer>>

CallbackReturns ==
    /\ At("app", "callback", "handler")
    /\ UNCHANGED <<ending, lock, outbox, wire, peer>>

HandlerReturns ==
    /\ done
    /\ At("app", "handler", IF client THEN "idle" ELSE "end")
    /\ UNCHANGED <<ending, lock, outbox, wire, peer>>

-----------------------------------------------------------------------------
(***************************************************************************)
(* ClientConnect.                                                          *)
(***************************************************************************)
\* What is asked of the application: nothing of the session before is running.
MayConnect ==
    /\ client
    /\ session < max.sessions
    /\ \A p \in Goroutines : pc[p] = Over[p]

\* Its own checks; a session that has not closed done is closed by force.
ClientConnect ==
    /\ MayConnect
    /\ ReadLockFree
    /\ ~alive
    /\ ~isShutdown
    /\ At("app", "idle", "dial")
    /\ LET forced == session > 0 /\ ~done
       IN  /\ done' = (done \/ forced)
           /\ broken' = (broken \/ forced)
    /\ UNCHANGED <<alive, cancelled, once, inPool, reported, crashed, lock, outbox, wire,
                   incoming, received>>

DialFails ==
    /\ At("app", "dial", "idle")
    /\ alive' = FALSE
    /\ UNCHANGED <<done, cancelled, once, inPool, reported, crashed, lock, outbox, wire, peer>>

\* Mutant: the sync.Once of the session before is kept.
KeepOnce == UNCHANGED once

RenewOnce == once' = "fresh"

\* From the dial to go run(): nobody else is about.  Only the first session gets a UUID
\* and an entry in the pool.
DialSucceeds ==
    /\ ~crashed
    /\ pc["app"] = "dial"
    /\ pc' = Places(Running, pc["closer"])
    /\ session' = session + 1
    /\ alive' = TRUE
    /\ done' = FALSE
    /\ cancelled' = FALSE
    /\ RenewOnce
    /\ inPool' = (inPool \/ session = 0)
    /\ reported' = FALSE
    /\ before' = Len(accepted) - Len(queue)
    /\ sent' = <<>>
    /\ closeSent' = FALSE
    /\ broken' = FALSE
    /\ incoming' = 0
    /\ UNCHANGED <<max, isShutdown, crashed, lock, outbox, hand, received>>

-----------------------------------------------------------------------------
(***************************************************************************)
(* closer: the application calls Close, or SocketInstance.Shutdown, which  *)
(* closes the connections that it finds alive in the pool.                 *)
(***************************************************************************)
BeginClose ==
    /\ session > 0
    /\ At("closer", "idle", "close")
    /\ UNCHANGED <<ending, lock, outbox, wire, peer>>

BeginShutdown ==
    /\ Goes("closer", "idle", "snapshot")
    /\ isShutdown' = TRUE
    /\ UNCHANGED <<ending, lock, outbox, wire, peer>>

SnapshotPool ==
    /\ At("closer", "snapshot", IF inPool THEN "isAlive" ELSE "end")
    /\ UNCHANGED <<ending, lock, outbox, wire, peer>>

VisitConnection ==
    /\ ReadLockFree
    /\ At("closer", "isAlive", IF alive THEN "close" ELSE "end")
    /\ UNCHANGED <<ending, lock, outbox, wire, peer>>

Close == SnapshotPool \/ VisitConnection \/ Write("closer", "close", "close", "end")

-----------------------------------------------------------------------------
(***************************************************************************)
(* disconnected(err), called by read and by send.                          *)
(***************************************************************************)
CheckAlive(p) ==
    /\ ReadLockFree
    /\ At(p, "isAlive", IF alive THEN "once" ELSE "report")
    /\ UNCHANGED <<ending, lock, outbox, wire, peer>>

\* Mutant: a flag instead of the sync.Once lets the second caller go ahead.
EnterFlagged(p) ==
    /\ At(p, "once", IF once = "fresh" THEN "setAlive" ELSE "report")
    /\ once' = IF once = "fresh" THEN "running" ELSE once
    /\ waiting' = IF once = "fresh" THEN waiting \cup {p} ELSE waiting
    /\ UNCHANGED <<alive, done, cancelled, inPool, reported, crashed, reading, sets, outbox,
                   wire, peer>>

\* Mutant: nothing keeps the second caller out.
EnterAlways(p) ==
    /\ At(p, "once", "setAlive")
    /\ waiting' = waiting \cup {p}
    /\ UNCHANGED <<ending, reading, sets, outbox, wire, peer>>

\* The first caller runs the function of once.Do; the others wait until it is over.
EnterOnce(p) ==
    /\ once # "running"
    /\ At(p, "once", IF once = "fresh" THEN "setAlive" ELSE "report")
    /\ once' = IF once = "fresh" THEN "running" ELSE once
    /\ waiting' = IF once = "fresh" THEN waiting \cup {p} ELSE waiting
    /\ UNCHANGED <<alive, done, cancelled, inPool, reported, crashed, reading, sets, outbox,
                   wire, peer>>

SetAlive(p) ==
    /\ At(p, "setAlive", IF client THEN "closeConn" ELSE "closeDone")
    /\ ~reading
    /\ alive' = FALSE
    /\ waiting' = waiting \ {p}
    /\ UNCHANGED <<done, cancelled, once, inPool, reported, crashed, reading, sets, outbox,
                   wire, peer>>

CloseConn(p) ==
    /\ At(p, "closeConn", "closeDone")
    /\ broken' = TRUE
    /\ UNCHANGED <<ending, lock, outbox, wire, incoming, received>>

\* close(done) panics when done is closed already.
CloseDone(p) ==
    /\ At(p, "closeDone", "report")
    /\ done' = TRUE
    /\ crashed' = done
    /\ once' = "over"
    /\ UNCHANGED <<alive, cancelled, inPool, reported, lock, outbox, wire, peer>>

Report(p) ==
    /\ At(p, "report", "leavePool")
    /\ reported' = TRUE
    /\ UNCHANGED <<alive, done, cancelled, once, inPool, crashed, lock, outbox, wire, peer>>

\* read returns afterwards, send goes on with its loop.
LeavePool(p) ==
    /\ At(p, "leavePool", IF p = "read" THEN "end" ELSE "select")
    /\ inPool' = FALSE
    /\ UNCHANGED <<alive, done, cancelled, once, reported, crashed, lock, outbox,
                   wire, peer>>

Disconnected(p) ==
    CheckAlive(p) \/ EnterOnce(p) \/ SetAlive(p) \/ CloseConn(p)
      \/ CloseDone(p) \/ Report(p) \/ LeavePool(p)

-----------------------------------------------------------------------------
(***************************************************************************)
(* send.                                                                   *)
(***************************************************************************)
\* Mutant: the newest message is taken.
TakeNewest ==
    /\ At("send", "select", "write")
    /\ queue # <<>>
    /\ hand' = Last(queue)
    /\ queue' = Front(queue)
    /\ UNCHANGED <<ending, lock, accepted, before, sent, closeSent, peer>>

TakeMessage ==
    /\ At("send", "select", "write")
    /\ queue # <<>>
    /\ hand' = Head(queue)
    /\ queue' = Tail(queue)
    /\ UNCHANGED <<ending, lock, accepted, before, sent, closeSent, peer>>

\* Mutant: mu is a plain mutex.
WriteMessageAlone ==
    /\ ReadLockFree
    /\ ~reading
    /\ IF broken \/ closeSent
         THEN /\ At("send", "write", "isAlive")
              /\ UNCHANGED <<sent, closeSent>>
         ELSE /\ At("send", "write", "select")
              /\ sent' = Append(sent, hand)
              /\ closeSent' = (hand = "close")
    /\ UNCHANGED <<ending, lock, outbox, before, hand, peer>>

WriteMessage ==
    /\ ReadLockFree
    /\ IF broken \/ closeSent
         THEN /\ At("send", "write", "isAlive")
              /\ UNCHANGED <<sent, closeSent>>
         ELSE /\ At("send", "write", "select")
              /\ sent' = Append(sent, hand)
              /\ closeSent' = (hand = "close")
    /\ UNCHANGED <<ending, lock, outbox, before, hand, peer>>

SeeCancelled(p, from) ==
    /\ cancelled
    /\ At(p, from, "end")
    /\ UNCHANGED <<ending, lock, outbox, wire, peer>>

Send == TakeMessage \/ WriteMessage \/ SeeCancelled("send", "select") \/ Disconnected("send")

-----------------------------------------------------------------------------
(***************************************************************************)
(* read: at a tick it takes mu for reading and blocks in ReadMessage.      *)
(***************************************************************************)
BeginRead ==
    /\ ReadLockFree
    /\ At("read", "tick", "reading")
    /\ reading' = TRUE
    /\ UNCHANGED <<ending, waiting, sets, outbox, wire, peer>>

ReadMessage ==
    /\ incoming > 0
    /\ At("read", "reading", "handle")
    /\ reading' = FALSE
    /\ incoming' = incoming - 1
    /\ UNCHANGED <<ending, waiting, sets, outbox, wire, received, broken>>

ReadFails ==
    /\ broken
    /\ At("read", "reading", "isAlive")
    /\ reading' = FALSE
    /\ UNCHANGED <<ending, waiting, sets, outbox, wire, peer>>

\* The listeners run on this goroutine, and one may emit a reply.
Handle ==
    /\ \/ At("read", "handle", "tick")
       \/ At("read", "handle", "reply")
    /\ UNCHANGED <<ending, lock, outbox, wire, peer>>

Read ==
    \/ BeginRead
    \/ ReadMessage
    \/ ReadFails
    \/ Handle
    \/ Write("read", "reply", "reply", "tick")
    \/ SeeCancelled("read", "tick")
    \/ Disconnected("read")

-----------------------------------------------------------------------------
(***************************************************************************)
(* pong, run and the peer.                                                 *)
(***************************************************************************)
Tick ==
    /\ Count(accepted, "pong") < max.pongs
    /\ At("pong", "tick", "write")
    /\ UNCHANGED <<ending, lock, outbox, wire, peer>>

Pong == Tick \/ Write("pong", "write", "pong", "tick") \/ SeeCancelled("pong", "tick")

\* Mutant: run returns and leaves the context alone.
RunForgetsCancel ==
    /\ done
    /\ At("run", "wait", "end")
    /\ UNCHANGED <<ending, lock, outbox, wire, peer>>

Run ==
    /\ done
    /\ At("run", "wait", "end")
    /\ cancelled' = TRUE
    /\ UNCHANGED <<alive, done, once, inPool, reported, crashed, lock, outbox, wire, peer>>

PeerSends ==
    /\ ~broken
    /\ session > 0
    /\ received < max.incoming
    /\ incoming' = incoming + 1
    /\ received' = received + 1
    /\ UNCHANGED <<side, pc, ending, lock, outbox, wire, broken>>

ConnectionBreaks ==
    /\ ~broken
    /\ session > 0
    /\ broken' = TRUE
    /\ UNCHANGED <<side, pc, ending, lock, outbox, wire, incoming, received>>

App == Emit \/ SetAttribute \/ CallbackReturns \/ HandlerReturns
         \/ ClientConnect \/ DialFails \/ DialSucceeds

Next == App \/ BeginClose \/ BeginShutdown \/ Close \/ Send \/ Read \/ Pong \/ Run
          \/ PeerSends \/ ConnectionBreaks

(***************************************************************************)
(* What goroutines do by themselves; the callback goes on with what it has *)
(* begun, a dial succeeds or fails, and a peer that receives a close frame *)
(* answers it or goes away.                                                *)
(***************************************************************************)
Work ==
    \/ pc["app"] \notin {"callback", "idle"} /\ App
    \/ Close \/ Send \/ Read \/ Pong \/ Run
    \/ closeSent /\ ConnectionBreaks

(***************************************************************************)
(* As long as a goroutine can go on, one does.  With bounded messages each *)
(* has its turn: this is all that is needed of the scheduler.  A peer need *)
(* not send anything, and nobody need connect.                             *)
(***************************************************************************)
Spec == Init /\ [][Next]_vars /\ WF_vars(Work)

-----------------------------------------------------------------------------
(* read and send may find the connection gone at the same time, and both have then
   seen isAlive true: done is closed by one of them only, so nothing panics. *)
NoCrash == ~crashed

(* A listener that is told of the disconnect finds IsAlive false, whichever
   goroutine tells it: the loser of the race in disconnected waits for the winner. *)
DisconnectMeansDead == reported => ~alive

\* What was left in the queue when the session began, and what was queued since.
Outgoing == SubSeq(accepted, before + 1, Len(accepted))

(* What reaches the peer in a session is what was emitted or left in the queue, in that
   order, with nothing left out before the connection broke. *)
SentInOrder == IsPrefix(sent, Outgoing)

\* A setter waits for read, which waits for the peer; send waits behind the setter.
SetterBlocksSend == "app" \in waiting /\ reading

(* What the callback emits reaches the peer (the comment in New: the loops have been
   started, so the callback can safely send and wait for messages), unless the
   callback then calls a setter while the peer is silent. *)
EmitReachesPeer ==
    []<>(\/ Count(sent, "hello") = Count(Outgoing, "hello")
         \/ broken \/ closeSent \/ SetterBlocksSend)

\* A goroutine in write, on a queue that is full and that nobody reads any more.
Stranded(p) ==
    /\ pc[p] \in {"write", "reply", "emit"}
    /\ pc["send"] = "end"
    /\ Len(queue) = QueueSize

(* Once done is closed every goroutine of the connection ends (the comment on done:
   "so go routines will stop gracefully"), or is stranded in write. *)
GoroutinesStop ==
    []<>(done => crashed \/ \A p \in {"send", "read", "pong", "run"} :
                               pc[p] = "end" \/ (p # "send" /\ Stranded(p)))

(* When the connection breaks, the goroutine of the handler or of ClientConnect is held
   up no longer, neither in a setter, nor in <-done, nor in an Emit of the callback:
   each session has a done and a sync.Once of its own, so that the client can connect
   again.  An Emit on a queue that is full when send has ended is the exception: nothing
   takes from that queue any more, and the Emit never returns. *)
BreakReleasesCaller ==
    []<>(broken => \/ pc["app"] \notin {"emit", "lock", "handler"}
                   \/ Stranded("app")
                   \/ crashed)
=============================================================================
