---------------------------- MODULE EndlessServer ----------------------------
(***************************************************************************)
(* The life of one server of ftlserver (ftlserver/endless.go, the HTTP     *)
(* mode): how it stops.                                                    *)
(*                                                                         *)
(*   serve    the goroutine in ListenAndServe and Serve, with the accept   *)
(*            loop of http.Server on it                                    *)
(*   handler  handleSignals, which runs shutdown and hammerTime(0) itself  *)
(*   timer    hammerTime(DefaultHammerTime), started by shutdown           *)
(*   one goroutine of http.Server per connection                           *)
(*                                                                         *)
(* They meet on the state, each read and write of which is a step, and on  *)
(* the WaitGroup wg, in whose Add a counter below zero is a panic.  The    *)
(* panic of hammerTime is recovered by it, any other ends the process.     *)
(*                                                                         *)
(* External: http.Server calls Close of a connection when it has served    *)
(* it, and SetKeepAlivesEnabled(false) closes those that are idle.  The    *)
(* signal channel has no buffer: signals arrive while the handler waits.   *)
(***************************************************************************)
EXTENDS Integers, FiniteSets

CONSTANTS
    Connections,
    MaxSignals,     \* bound on the signals received
    HammerSignal,   \* whether SIGUSR2 is sent
    HammerTimer,    \* DefaultHammerTime >= 0
    HammerLate,     \* a hammer is not lifted before Serve has reached wg.Wait
    AcceptMayFail,  \* whether Accept may fail on an open listener
    ConnectionsEnd  \* whether every connection is served in the end

ASSUME EndlessAssumption ==
    /\ IsFiniteSet(Connections)
    /\ MaxSignals \in Nat
    /\ {HammerSignal, HammerTimer, HammerLate, AcceptMayFail, ConnectionsEnd} \subseteq BOOLEAN

VARIABLES
    state,      \* "init", "running", "shuttingDown" or "terminate"
    stopped,    \* the listener is closed
    wg,         \* counter of the WaitGroup
    waiting,    \* serve is blocked in wg.Wait
    pc,         \* where serve, handler and timer are
    conn,       \* what has become of each connection
    shut,       \* connections whose net.Conn is closed
    hammered,   \* history: a hammer has struck
    signals,    \* number of signals received
    crashed     \* a panic has ended the process

counter == <<wg, waiting, crashed>>
sessions == <<conn, shut>>
history == <<hammered, signals>>
vars == <<state, stopped, counter, pc, sessions, history>>

Init ==
    /\ state = "init"
    /\ stopped = FALSE
    /\ wg = 0
    /\ waiting = FALSE
    /\ pc = [serve |-> "listen", handler |-> "idle", timer |-> "off"]
    /\ conn = [c \in Connections |-> "new"]
    /\ shut = {}
    /\ hammered = FALSE
    /\ signals = 0
    /\ crashed = FALSE

Goto(p, from, to) ==
    /\ ~crashed
    /\ pc[p] = from
    /\ pc' = [pc EXCEPT ![p] = to]

\* wg.Done(): the last one wakes the goroutine in Wait; one too many panics.
Done(recovered) ==
    /\ wg' = wg - 1
    /\ waiting' = (waiting /\ wg # 1)
    /\ crashed' = (wg <= 0 /\ ~recovered)

-----------------------------------------------------------------------------
(***************************************************************************)
(* Connections.                                                            *)
(***************************************************************************)
\* Mutant: a connection counts as closed whatever Close of the net.Conn returned.
CloseCounting(c) ==
    /\ ~crashed
    /\ conn[c] = "open"
    /\ conn' = [conn EXCEPT ![c] = "closed"]
    /\ shut' = shut \cup {c}
    /\ UNCHANGED <<state, stopped, counter, pc, history>>

\* endlessConn.Close, as far as the net.Conn: it fails when that is closed already.
Close(c) ==
    /\ ~crashed
    /\ conn[c] = "open"
    /\ conn' = [conn EXCEPT ![c] = IF c \in shut THEN "gone" ELSE "closed"]
    /\ shut' = shut \cup {c}
    /\ UNCHANGED <<state, stopped, counter, pc, history>>

CloseCounts(c) ==
    /\ ~crashed
    /\ conn[c] = "closed"
    /\ conn' = [conn EXCEPT ![c] = "gone"]
    /\ Done(FALSE)
    /\ UNCHANGED <<state, stopped, pc, shut, history>>

-----------------------------------------------------------------------------
(***************************************************************************)
(* serve.                                                                  *)
(***************************************************************************)
StartServing ==
    /\ Goto("serve", "listen", "accept")
    /\ state' = "running"
    /\ UNCHANGED <<stopped, counter, sessions, history>>

\* Mutant: the connection is not added to the WaitGroup.
AcceptUncounted(c) ==
    /\ Goto("serve", "accept", "accept")
    /\ ~stopped
    /\ conn[c] = "new"
    /\ conn' = [conn EXCEPT ![c] = "open"]
    /\ UNCHANGED <<state, stopped, counter, shut, history>>

Accept(c) ==
    /\ Goto("serve", "accept", "add")
    /\ ~stopped
    /\ conn[c] = "new"
    /\ conn' = [conn EXCEPT ![c] = "accepted"]
    /\ UNCHANGED <<state, stopped, counter, shut, history>>

AddConnection(c) ==
    /\ Goto("serve", "add", "accept")
    /\ conn[c] = "accepted"
    /\ conn' = [conn EXCEPT ![c] = "open"]
    /\ wg' = wg + 1
    /\ UNCHANGED <<state, stopped, waiting, crashed, shut, history>>

\* http.Server.Serve returns, having closed the listener itself if nobody had.
AcceptFails ==
    /\ Goto("serve", "accept", "wait")
    /\ stopped \/ AcceptMayFail
    /\ stopped' = TRUE
    /\ UNCHANGED <<state, counter, sessions, history>>

\* wg.Wait(): a counter that is not zero, below zero included, blocks it.  A waiter that
\* is woken reads the counter again and panics ("WaitGroup is reused before previous Wait
\* has returned") if the hammer has counted on meanwhile.
Wait ==
    \/ /\ Goto("serve", "wait", IF wg = 0 THEN "terminate" ELSE "blocked")
       /\ waiting' = (wg # 0)
       /\ UNCHANGED <<state, stopped, wg, crashed, sessions, history>>
    \/ /\ Goto("serve", "blocked", IF wg = 0 THEN "terminate" ELSE "blocked")
       /\ ~waiting
       /\ crashed' = (wg # 0)
       /\ UNCHANGED <<state, stopped, wg, waiting, sessions, history>>

Terminate ==
    /\ Goto("serve", "terminate", "end")
    /\ state' = "terminate"
    /\ UNCHANGED <<stopped, counter, sessions, history>>

Serve == StartServing \/ AcceptFails \/ Wait \/ Terminate
           \/ \E c \in Connections : AddConnection(c)

-----------------------------------------------------------------------------
(***************************************************************************)
(* shutdown, on the handler's goroutine.                                   *)
(***************************************************************************)
ReceiveSignal(label) ==
    /\ signals < MaxSignals
    /\ Goto("handler", "idle", label)
    /\ signals' = signals + 1
    /\ UNCHANGED <<state, stopped, counter, sessions, hammered>>

Interrupt == ReceiveSignal("shutdown")

HammerAtOnce == HammerSignal /\ ReceiveSignal("hammer")

\* Mutant: the state is not looked at.
ShutdownAnyway ==
    /\ Goto("handler", "shutdown", "setState")
    /\ UNCHANGED <<state, stopped, counter, sessions, history>>

BeginShutdown ==
    /\ Goto("handler", "shutdown", IF state = "running" THEN "setState" ELSE "idle")
    /\ UNCHANGED <<state, stopped, counter, sessions, history>>

\* The hammer is started in the same breath: nothing of it is seen before it reads
\* the state.
SetShuttingDown ==
    /\ ~crashed
    /\ pc["handler"] = "setState"
    /\ state' = "shuttingDown"
    /\ pc' = [pc EXCEPT !["handler"] = "keepAlive",
                       !["timer"] = IF HammerTimer THEN "hammer" ELSE @]
    /\ UNCHANGED <<stopped, counter, sessions, history>>

\* SetKeepAlivesEnabled(false): some connections are idle, and are closed from here;
\* their own goroutines find out later.
CloseIdle(c) ==
    /\ Goto("handler", "keepAlive", "countIdle")
    /\ conn[c] = "open"
    /\ c \notin shut
    /\ shut' = shut \cup {c}
    /\ UNCHANGED <<state, stopped, counter, conn, history>>

CountIdle ==
    /\ Goto("handler", "countIdle", "keepAlive")
    /\ Done(FALSE)
    /\ UNCHANGED <<state, stopped, sessions, history>>

\* Mutant: the listener is left open.
LeaveListener ==
    /\ Goto("handler", "keepAlive", "idle")
    /\ UNCHANGED <<state, stopped, counter, sessions, history>>

CloseListener ==
    /\ Goto("handler", "keepAlive", "idle")
    /\ stopped' = TRUE
    /\ UNCHANGED <<state, counter, sessions, history>>

Shutdown == BeginShutdown \/ SetShuttingDown \/ CountIdle \/ CloseListener

-----------------------------------------------------------------------------
(***************************************************************************)
(* hammerTime, on the handler's goroutine or on the timer's.               *)
(***************************************************************************)
Rest(p) == IF p = "handler" THEN "idle" ELSE "end"

BeginHammer(p) ==
    /\ Goto(p, "hammer", IF state = "shuttingDown" THEN "sleep" ELSE Rest(p))
    /\ UNCHANGED <<state, stopped, counter, sessions, history>>

Wake(p) ==
    /\ HammerLate => pc["serve"] \in {"blocked", "terminate", "end"}
    /\ Goto(p, "sleep", IF state = "terminate" THEN Rest(p) ELSE "loop")
    /\ UNCHANGED <<state, stopped, counter, sessions, history>>

LookAgain(p) ==
    /\ Goto(p, "loop", IF state = "terminate" THEN Rest(p) ELSE "strike")
    /\ UNCHANGED <<state, stopped, counter, sessions, history>>

\* wg.Done() until it panics.
Strike(p) ==
    /\ Goto(p, "strike", IF wg <= 0 THEN Rest(p) ELSE "loop")
    /\ Done(TRUE)
    /\ hammered' = TRUE
    /\ UNCHANGED <<state, stopped, sessions, signals>>

HammerTime(p) == BeginHammer(p) \/ Wake(p) \/ LookAgain(p) \/ Strike(p)

Next ==
    \/ Serve
    \/ Interrupt
    \/ HammerAtOnce
    \/ Shutdown
    \/ \E p \in {"handler", "timer"} : HammerTime(p)
    \/ \E c \in Connections : Accept(c) \/ Close(c) \/ CloseCounts(c) \/ CloseIdle(c)

(***************************************************************************)
(* Goroutines are scheduled and timers expire; connections are served in   *)
(* the end, if ConnectionsEnd says so.  Nobody need connect or send a      *)
(* signal.                                                                 *)
(***************************************************************************)
Fairness ==
    /\ WF_vars(Serve)
    /\ WF_vars(Shutdown)
    /\ \A p \in {"handler", "timer"} : WF_vars(HammerTime(p))
    /\ \A c \in Connections :
         /\ WF_vars(CloseCounts(c))
         /\ ConnectionsEnd => WF_vars(Close(c))

Spec == Init /\ [][Next]_vars /\ Fairness

-----------------------------------------------------------------------------
HammerLabels == {"hammer", "sleep", "loop", "strike"}

States == {"init", "running", "shuttingDown", "terminate"}

(* The values the variables range over; the state is "init" until Serve has begun, so a
   shutdown never starts before it, and a goroutine is blocked in Wait only while the
   counter is not zero. *)
TypeOK ==
    /\ state \in States
    /\ {stopped, waiting, hammered, crashed} \subseteq BOOLEAN
    /\ wg \in Int
    /\ state = "init" <=> pc["serve"] = "listen"
    /\ waiting => pc["serve"] = "blocked" /\ wg # 0
    /\ pc["serve"] \in {"listen", "accept", "add", "wait", "blocked", "terminate", "end"}
    /\ pc["handler"] \in {"idle", "shutdown", "setState", "keepAlive", "countIdle"}
                           \cup HammerLabels
    /\ pc["timer"] \in {"off", "end"} \cup HammerLabels
    /\ conn \in [Connections -> {"new", "accepted", "open", "closed", "gone"}]
    /\ shut \subseteq Connections
    /\ signals \in 0..MaxSignals

(* Until a hammer strikes, the WaitGroup never goes below zero outside hammerTime,
   although the handler and a connection's own goroutine may both close the connection. *)
NoCrash == crashed => hammered

(* Unless a hammer has struck, Serve returns only when every connection it accepted has
   been closed (its comment: so that all outstanding connections can be served before
   shutting down). *)
GracefulEnd ==
    ~hammered /\ pc["serve"] \in {"terminate", "end"} =>
        \A c \in Connections : conn[c] \in {"new", "closed", "gone"} \/ c \in shut

Rank == [init |-> 0, running |-> 1, shuttingDown |-> 2, terminate |-> 3]

(* The state only moves forward: the hammer, which looks at it between sleeping and
   striking, never finds a server that has ended back in shutdown. *)
StateForward == [][Rank[state] <= Rank[state']]_state

(* A server that shuts down ends, because its connections end or because the hammer
   does away with them. *)
ShutdownEnds == state = "shuttingDown" ~> state = "terminate" \/ crashed
=============================================================================
