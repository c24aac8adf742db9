------------------------- MODULE EndlessServerProofs -------------------------
(***************************************************************************)
(* A server with any number of connections, signals and hammers: until a   *)
(* hammer strikes, the WaitGroup never panics and Serve returns when       *)
(* everything is served.  What makes this inductive is the account of the  *)
(* WaitGroup: it counts the connections whose Done is still to come, and   *)
(* the one the handler has closed and not yet counted.                     *)
(*                                                                         *)
(* And its state only moves forward as long as Accept fails on a closed    *)
(* listener only: then Serve cannot end between the look shutdown takes at *)
(* the state and its own write of it.                                      *)
(***************************************************************************)
EXTENDS EndlessServer, TLAPS, FiniteSetTheorems

\* Connections whose own goroutine is going to call Done.
Owed == {c \in Connections : (conn[c] = "open" /\ c \notin shut) \/ conn[c] = "closed"}

\* The handler's debt.
IdleOwed == IF pc["handler"] = "countIdle" THEN 1 ELSE 0

\* The three goroutines, for the provers.
Places == pc = [serve |-> pc["serve"], handler |-> pc["handler"], timer |-> pc["timer"]]

\* What holds whether or not a hammer has struck.
Typed ==
    /\ TypeOK
    /\ Places
    /\ pc["handler"] = "setState" => state # "init"

Account ==
    /\ crashed = FALSE
    /\ wg = Cardinality(Owed) + IdleOwed
    /\ \A c \in Connections :
          /\ conn[c] \in {"new", "accepted"} => c \notin shut
          /\ conn[c] = "accepted" => pc["serve"] = "add"
    /\ \A c, d \in Connections : conn[c] = "accepted" /\ conn[d] = "accepted" => c = d
    /\ pc["serve"] = "blocked" /\ ~waiting => wg = 0
    /\ pc["serve"] \in {"terminate", "end"} => wg = 0

IInv == Typed /\ (~hammered => Account)

ServeSteps == StartServing \/ AcceptFails \/ Wait \/ Terminate

HandlerSteps == Interrupt \/ HammerAtOnce \/ BeginShutdown \/ SetShuttingDown \/ CloseListener

\* The connections owed are finitely many.
LEMMA OwedIsFinite == IsFiniteSet(Owed) /\ Cardinality(Owed) \in Nat
<1>1. Owed \subseteq Connections
    BY DEF Owed
<1> QED
    BY <1>1, EndlessAssumption, FS_Subset, FS_CardinalityType

\* Nothing is owed at first.
LEMMA InitHolds == Init => IInv
<1> SUFFICES ASSUME Init PROVE IInv
    OBVIOUS
<1>1. TypeOK
    <2>1. state \in States /\ {stopped, waiting, hammered, crashed} \subseteq BOOLEAN
        BY DEF Init, States
    <2>2. wg \in Int /\ signals \in 0..MaxSignals
        BY EndlessAssumption DEF Init
    <2>3. /\ pc["serve"] = "listen" /\ state = "init" /\ ~waiting
          /\ pc["handler"] = "idle" /\ pc["timer"] = "off"
        BY DEF Init
    <2>4. conn \in [Connections -> {"new", "accepted", "open", "closed", "gone"}]
        BY DEF Init
    <2>5. shut \subseteq Connections
        BY DEF Init
    <2> QED
        BY <2>1, <2>2, <2>3, <2>4, <2>5 DEF TypeOK, HammerLabels
<1>2. Typed
    BY <1>1 DEF Init, Typed, Places
<1>3. Owed = {} /\ IdleOwed = 0
    BY DEF Init, Owed, IdleOwed
<1>4. wg = Cardinality(Owed) + IdleOwed
    BY <1>3, FS_EmptySet DEF Init
<1> QED
    BY <1>2, <1>4 DEF Init, IInv, Account

\* A step that moves neither the connections nor the handler's debt keeps what is owed.
LEMMA OwedStays ==
    ASSUME conn' = conn, shut' = shut
    PROVE  Owed' = Owed
BY DEF Owed

-----------------------------------------------------------------------------
(***************************************************************************)
(* Type correctness.                                                       *)
(***************************************************************************)
\* What a step of one goroutine does to the places of the three.
LEMMA GotoMoves ==
    ASSUME Places, NEW p \in {"serve", "handler", "timer"}, NEW a, NEW b, Goto(p, a, b)
    PROVE  /\ pc[p] = a /\ pc'[p] = b /\ ~crashed
           /\ \A q \in {"serve", "handler", "timer"} : q # p => pc'[q] = pc[q]
           /\ Places'
BY DEF Places, Goto

\* serve alone is ever blocked, and only it leaves "listen" behind.
LEMMA ServeTyped == ASSUME Typed, ServeSteps PROVE Typed'
<1> USE DEF Typed
<1>1. /\ conn' = conn /\ shut' = shut /\ wg' = wg
      /\ signals' = signals /\ hammered' = hammered
    BY DEF ServeSteps, StartServing, AcceptFails, Wait, Terminate, sessions, counter, history
<1>0. crashed' \in BOOLEAN
    <2>1. CASE StartServing \/ AcceptFails \/ Terminate
        BY <2>1 DEF StartServing, AcceptFails, Terminate, counter, TypeOK
    <2>2. CASE Wait
        BY <2>2 DEF Wait, TypeOK
    <2> QED
        BY <2>1, <2>2 DEF ServeSteps
<1>2. /\ pc'["handler"] = pc["handler"] /\ pc'["timer"] = pc["timer"] /\ Places'
    BY GotoMoves DEF ServeSteps, StartServing, AcceptFails, Wait, Terminate, Goto, Places
<1>3. CASE StartServing
    <2>1. /\ pc["serve"] = "listen" /\ pc'["serve"] = "accept" /\ state' = "running"
          /\ stopped' = stopped /\ waiting' = waiting
        BY <1>3 DEF StartServing, Goto, Places, counter
    <2> QED
        BY <1>0, <1>1, <1>2, <2>1 DEF TypeOK, States
<1>4. CASE AcceptFails
    <2>1. /\ pc["serve"] = "accept" /\ pc'["serve"] = "wait" /\ state' = state
          /\ stopped' = TRUE /\ waiting' = waiting
        BY <1>4 DEF AcceptFails, Goto, Places, counter
    <2> QED
        BY <1>0, <1>1, <1>2, <2>1 DEF TypeOK, States
<1>5. CASE Wait
    <2>1. /\ state' = state /\ stopped' = stopped
          /\ \/ /\ pc["serve"] = "wait" /\ waiting' = (wg # 0)
                /\ pc'["serve"] = (IF wg = 0 THEN "terminate" ELSE "blocked")
             \/ /\ pc["serve"] = "blocked" /\ ~waiting /\ waiting' = waiting
                /\ pc'["serve"] = (IF wg = 0 THEN "terminate" ELSE "blocked")
        BY <1>5 DEF Wait, Goto, Places, counter
    <2>2. waiting' \in BOOLEAN
        BY <2>1 DEF TypeOK
    <2>3. waiting' => pc'["serve"] = "blocked" /\ wg # 0
        BY <2>1
    <2>4. TypeOK'
        BY <1>0, <1>1, <1>2, <2>1, <2>2, <2>3 DEF TypeOK
    <2> QED
        BY <1>0, <1>1, <1>2, <2>1, <2>4
<1>6. CASE Terminate
    <2>1. /\ pc["serve"] = "terminate" /\ pc'["serve"] = "end" /\ state' = "terminate"
          /\ stopped' = stopped /\ waiting' = waiting
        BY <1>6 DEF Terminate, Goto, Places, counter
    <2> QED
        BY <1>0, <1>1, <1>2, <2>1 DEF TypeOK, States
<1> QED
    BY <1>3, <1>4, <1>5, <1>6 DEF ServeSteps

\* shutdown is not begun before Serve has.
LEMMA HandlerTyped == ASSUME Typed, HandlerSteps PROVE Typed'
<1> USE DEF Typed
<1>1. /\ conn' = conn /\ shut' = shut /\ wg' = wg /\ waiting' = waiting
      /\ crashed' = crashed /\ hammered' = hammered
    BY DEF HandlerSteps, Interrupt, HammerAtOnce, ReceiveSignal, BeginShutdown,
           SetShuttingDown, CloseListener, sessions, counter, history
<1>2. /\ pc'["serve"] = pc["serve"] /\ Places'
      /\ pc'["timer"] = pc["timer"] \/ pc'["timer"] = "hammer"
    BY DEF HandlerSteps, Interrupt, HammerAtOnce, ReceiveSignal, BeginShutdown,
           SetShuttingDown, CloseListener, Goto, Places
<1>3. /\ pc["handler"] \in {"idle", "shutdown", "setState", "keepAlive"}
      /\ pc'["handler"] \in {"idle", "shutdown", "setState", "keepAlive", "hammer"}
    BY DEF HandlerSteps, Interrupt, HammerAtOnce, ReceiveSignal, BeginShutdown,
           SetShuttingDown, CloseListener, Goto, Places
<1>4. /\ signals' = signals \/ (signals < MaxSignals /\ signals' = signals + 1)
      /\ stopped' = stopped \/ stopped' = TRUE
    BY DEF HandlerSteps, Interrupt, HammerAtOnce, ReceiveSignal, BeginShutdown,
           SetShuttingDown, CloseListener, history
<1>5. signals' \in 0..MaxSignals
    BY <1>4, EndlessAssumption DEF TypeOK
<1>6. /\ state' = state \/ (state' = "shuttingDown" /\ state # "init")
      /\ pc'["handler"] = "setState" => state' = state /\ state # "init"
    BY DEF HandlerSteps, Interrupt, HammerAtOnce, ReceiveSignal, BeginShutdown,
           SetShuttingDown, CloseListener, Goto, Places
<1>7. TypeOK'
    BY <1>1, <1>2, <1>3, <1>4, <1>5, <1>6 DEF TypeOK, States, HammerLabels
<1> QED
    BY <1>2, <1>6, <1>7

\* What Done does to the counter, whoever calls it.
LEMMA DoneTyped ==
    ASSUME Typed, NEW recovered \in BOOLEAN, Done(recovered)
    PROVE  /\ wg' \in Int /\ {waiting', crashed'} \subseteq BOOLEAN
           /\ waiting' => waiting /\ wg' # 0
<1>1. wg \in Int /\ waiting \in BOOLEAN /\ wg' = wg - 1
    BY DEF Typed, TypeOK, Done
<1>2. waiting' \in BOOLEAN /\ crashed' \in BOOLEAN
    BY DEF Done
<1>3. waiting' => waiting /\ wg # 1
    BY DEF Done
<1> QED
    BY <1>1, <1>2, <1>3

\* The steps of the hammer are those of the handler or of the timer.
LEMMA HammerTyped ==
    ASSUME Typed, NEW p \in {"handler", "timer"}, HammerTime(p)
    PROVE  Typed'
<1> USE DEF Typed
<1>1. /\ conn' = conn /\ shut' = shut /\ state' = state /\ stopped' = stopped
      /\ signals' = signals /\ hammered' \in {hammered, TRUE}
    BY DEF HammerTime, BeginHammer, Wake, LookAgain, Strike, sessions, history
<1>2. /\ pc'["serve"] = pc["serve"] /\ Places'
      /\ pc'["handler"] \in {pc["handler"], "idle"} \cup HammerLabels
      /\ pc'["handler"] = "setState" => pc["handler"] = "setState"
      /\ pc'["timer"] \in {pc["timer"], "end"} \cup HammerLabels
    BY DEF HammerTime, BeginHammer, Wake, LookAgain, Strike, Goto, Places, Rest, HammerLabels
<1>3. wg' \in Int /\ {waiting', crashed'} \subseteq BOOLEAN /\ (waiting' => waiting /\ wg' # 0)
    <2>1. CASE BeginHammer(p) \/ Wake(p) \/ LookAgain(p)
        BY <2>1 DEF BeginHammer, Wake, LookAgain, counter, TypeOK
    <2>2. CASE Strike(p)
        BY <2>2, DoneTyped DEF Strike
    <2> QED
        BY <2>1, <2>2 DEF HammerTime
<1>4. hammered' \in BOOLEAN
    BY <1>1 DEF TypeOK
<1>5. TypeOK'
    BY <1>1, <1>2, <1>3, <1>4 DEF TypeOK
<1> QED
    BY <1>1, <1>2, <1>5

\* What the steps on connections may change of the other variables.
LEMMA ConnectionTyped ==
    ASSUME Typed, NEW c \in Connections,
           Accept(c) \/ AddConnection(c) \/ Close(c) \/ CloseCounts(c) \/ CloseIdle(c)
    PROVE  Typed'
<1> USE DEF Typed
<1>1. /\ state' = state /\ stopped' = stopped /\ signals' = signals /\ hammered' = hammered
    BY DEF Accept, AddConnection, Close, CloseCounts, CloseIdle, history
<1>2. /\ conn' \in [Connections -> {"new", "accepted", "open", "closed", "gone"}]
      /\ shut' \subseteq Connections
    BY DEF Accept, AddConnection, Close, CloseCounts, CloseIdle, TypeOK
<1>3. /\ Places' /\ pc'["timer"] = pc["timer"]
      /\ \/ pc'["serve"] = pc["serve"]
         \/ pc["serve"] \in {"accept", "add"} /\ pc'["serve"] \in {"accept", "add"}
      /\ pc'["handler"] \in {pc["handler"], "countIdle"}
    BY DEF Accept, AddConnection, Close, CloseCounts, CloseIdle, Goto, Places
<1>4. wg' \in Int /\ {waiting', crashed'} \subseteq BOOLEAN
    <2>1. CASE Accept(c) \/ Close(c) \/ CloseIdle(c)
        BY <2>1 DEF Accept, Close, CloseIdle, counter, TypeOK
    <2>2. CASE AddConnection(c)
        BY <2>2 DEF AddConnection, TypeOK
    <2>3. CASE CloseCounts(c)
        BY <2>3, DoneTyped DEF CloseCounts
    <2> QED
        BY <2>1, <2>2, <2>3
<1>5. waiting' => waiting /\ wg' # 0 /\ pc'["serve"] = pc["serve"]
    <2>1. CASE Accept(c) \/ Close(c) \/ CloseIdle(c)
        BY <2>1 DEF Accept, Close, CloseIdle, counter, TypeOK, Goto, Places
    <2>2. CASE AddConnection(c)
        BY <2>2 DEF AddConnection, TypeOK, Goto
    <2>3. CASE CloseCounts(c)
        BY <2>3, DoneTyped DEF CloseCounts
    <2> QED
        BY <2>1, <2>2, <2>3
<1>6. TypeOK'
    BY <1>1, <1>2, <1>3, <1>4, <1>5 DEF TypeOK
<1> QED
    BY <1>1, <1>3, <1>6

\* The handler counts the connection it closed.
LEMMA CountIdleTyped == ASSUME Typed, CountIdle PROVE Typed'
<1> USE DEF Typed
<1>1. /\ state' = state /\ stopped' = stopped /\ conn' = conn /\ shut' = shut
      /\ signals' = signals /\ hammered' = hammered
    BY DEF CountIdle, history, sessions
<1>2. /\ pc'["serve"] = pc["serve"] /\ pc'["timer"] = pc["timer"]
      /\ pc'["handler"] = "keepAlive" /\ Places'
    BY DEF CountIdle, Goto, Places
<1>3. wg' \in Int /\ {waiting', crashed'} \subseteq BOOLEAN /\ (waiting' => waiting /\ wg' # 0)
    BY DoneTyped DEF CountIdle
<1> QED
    BY <1>1, <1>2, <1>3 DEF TypeOK

\* Every step keeps the types.
LEMMA TypedHolds == Typed /\ [Next]_vars => Typed'
<1> SUFFICES ASSUME Typed, [Next]_vars PROVE Typed'
    OBVIOUS
<1>1. CASE Serve
    BY <1>1, ServeTyped, ConnectionTyped DEF Serve, ServeSteps
<1>2. CASE Interrupt \/ HammerAtOnce
    BY <1>2, HandlerTyped DEF HandlerSteps
<1>3. CASE Shutdown
    BY <1>3, HandlerTyped, CountIdleTyped DEF Shutdown, HandlerSteps
<1>4. ASSUME NEW p \in {"handler", "timer"}, HammerTime(p) PROVE Typed'
    BY <1>4, HammerTyped
<1>5. ASSUME NEW c \in Connections,
             Accept(c) \/ Close(c) \/ CloseCounts(c) \/ CloseIdle(c)
      PROVE  Typed'
    BY <1>5, ConnectionTyped
<1>6. CASE UNCHANGED vars
    BY <1>6 DEF Typed, TypeOK, Places, vars, counter, sessions, history
<1> QED
    BY <1>1, <1>2, <1>3, <1>4, <1>5, <1>6 DEF Next

-----------------------------------------------------------------------------
(***************************************************************************)
(* The account of the WaitGroup, until a hammer strikes.                   *)
(***************************************************************************)
\* serve returns from Wait only when the counter is zero.
LEMMA ServeHolds == ASSUME Typed, Account, ServeSteps PROVE Account'
<1> USE DEF Typed, Account
<1>1. conn' = conn /\ shut' = shut /\ wg' = wg
    BY DEF ServeSteps, StartServing, AcceptFails, Wait, Terminate, sessions, counter
<1>0. crashed' = FALSE
    <2>1. CASE StartServing \/ AcceptFails \/ Terminate
        BY <2>1 DEF StartServing, AcceptFails, Terminate, counter
    <2>2. CASE Wait
        BY <2>2 DEF Wait, Goto
    <2> QED
        BY <2>1, <2>2 DEF ServeSteps
<1>2. IdleOwed' = IdleOwed
    BY DEF ServeSteps, StartServing, AcceptFails, Wait, Terminate, Goto, Places, IdleOwed
<1>3. wg' = Cardinality(Owed') + IdleOwed'
    BY <1>1, <1>2, OwedStays
<1>4. /\ pc["serve"] # "add"
      /\ pc'["serve"] = "blocked" /\ ~waiting' => wg = 0
      /\ pc'["serve"] \in {"terminate", "end"} => wg = 0
    <2>1. CASE StartServing \/ AcceptFails
        BY <2>1 DEF StartServing, AcceptFails, Goto, Places
    <2>2. CASE Wait
        BY <2>2 DEF Wait, Goto, Places
    <2>3. CASE Terminate
        BY <2>3 DEF Terminate, Goto, Places
    <2> QED
        BY <2>1, <2>2, <2>3 DEF ServeSteps
<1> QED
    BY <1>0, <1>1, <1>3, <1>4

\* The steps of the handler, and of a hammer that does not strike, leave it alone.
LEMMA HandlerHolds ==
    ASSUME Typed, Account,
           \/ HandlerSteps
           \/ \E p \in {"handler", "timer"} : BeginHammer(p) \/ Wake(p) \/ LookAgain(p)
    PROVE  Account'
<1> USE DEF Typed, Account
<1>1. conn' = conn /\ shut' = shut /\ wg' = wg /\ waiting' = waiting /\ crashed' = crashed
    BY DEF HandlerSteps, Interrupt, HammerAtOnce, ReceiveSignal, BeginShutdown,
           SetShuttingDown, CloseListener, BeginHammer, Wake, LookAgain, sessions, counter
<1>2. pc'["serve"] = pc["serve"] /\ IdleOwed' = IdleOwed
    <2>1. CASE HandlerSteps
        BY <2>1 DEF HandlerSteps, Interrupt, HammerAtOnce, ReceiveSignal, BeginShutdown,
           SetShuttingDown, CloseListener, Goto, Places, IdleOwed
    <2>2. CASE \E p \in {"handler", "timer"} : BeginHammer(p) \/ Wake(p) \/ LookAgain(p)
        BY <2>2 DEF BeginHammer, Wake, LookAgain, Goto, Places, Rest, IdleOwed
    <2> QED
        BY <2>1, <2>2
<1> QED
    BY <1>1, <1>2, OwedStays

\* A connection is owed from the moment it is added until it is closed.
LEMMA ConnectionHolds ==
    ASSUME Typed, Account, NEW c \in Connections, Accept(c) \/ AddConnection(c) \/ Close(c)
    PROVE  Account'
<1> USE DEF Typed, Account
<1>1. crashed' = crashed /\ waiting' = waiting
    BY DEF Accept, AddConnection, Close, counter
<1>2. IdleOwed' = IdleOwed
    BY DEF Accept, AddConnection, Close, Goto, Places, IdleOwed
<1>3. conn \in [Connections -> {"new", "accepted", "open", "closed", "gone"}]
    BY DEF TypeOK
<1>4. CASE Accept(c)
    <2>1. /\ pc["serve"] = "accept" /\ pc'["serve"] = "add" /\ conn[c] = "new"
          /\ conn' = [conn EXCEPT ![c] = "accepted"] /\ shut' = shut /\ wg' = wg
        BY <1>4 DEF Accept, Goto, Places, counter
    <2>2. Owed' = Owed
        BY <2>1, <1>3 DEF Owed
    <2>3. wg' = Cardinality(Owed') + IdleOwed'
        BY <2>1, <2>2, <1>2
    <2> QED
        BY <1>1, <1>3, <2>1, <2>3
<1>5. CASE AddConnection(c)
    <2>1. /\ pc["serve"] = "add" /\ pc'["serve"] = "accept" /\ conn[c] = "accepted"
          /\ conn' = [conn EXCEPT ![c] = "open"] /\ shut' = shut /\ wg' = wg + 1
        BY <1>5 DEF AddConnection, Goto, Places
    <2>2. Owed' = Owed \cup {c} /\ c \notin Owed
        BY <2>1, <1>3 DEF Owed
    <2>3. wg' = Cardinality(Owed') + IdleOwed'
        <3>1. Cardinality(Owed') = Cardinality(Owed) + 1
            BY <2>2, OwedIsFinite, FS_AddElement
        <3> QED
            BY <3>1, <2>1, <1>2, OwedIsFinite DEF IdleOwed
    <2>4. \A d \in Connections :
            /\ conn'[d] \in {"new", "accepted"} => d \notin shut'
            /\ conn'[d] # "accepted"
        <3>1. TAKE d \in Connections
        <3>2. CASE d = c
            BY <3>2, <2>1, <1>3
        <3>3. CASE d # c
            <4>1. conn'[d] = conn[d]
                BY <3>3, <2>1, <1>3
            <4>2. conn[d] # "accepted"
                BY <3>3, <2>1
            <4> QED
                BY <4>1, <4>2, <3>3, <2>1
        <3> QED
            BY <3>2, <3>3
    <2> QED
        BY <1>1, <2>1, <2>3, <2>4
<1>6. CASE Close(c)
    <2>1. /\ pc' = pc /\ wg' = wg /\ conn[c] = "open" /\ shut' = shut \cup {c}
          /\ conn' = [conn EXCEPT ![c] = IF c \in shut THEN "gone" ELSE "closed"]
        BY <1>6 DEF Close, counter
    <2>2. Owed' = Owed
        BY <2>1, <1>3 DEF Owed
    <2>3. wg' = Cardinality(Owed') + IdleOwed'
        BY <2>1, <2>2, <1>2
    <2> QED
        BY <1>1, <1>3, <2>1, <2>3
<1> QED
    BY <1>4, <1>5, <1>6

\* The last of those who are owed wakes serve.
LEMMA DoneCounts ==
    ASSUME Typed, Account, Done(FALSE), wg > 0, pc'["serve"] = pc["serve"]
    PROVE  /\ wg' = wg - 1 /\ crashed' = FALSE
           /\ pc'["serve"] = "blocked" /\ ~waiting' => wg' = 0
           /\ pc'["serve"] \notin {"terminate", "end"}
BY DEF Typed, Account, TypeOK, Done

\* A connection that reports its end was owed.
LEMMA CloseCountsHolds ==
    ASSUME Typed, Account, NEW c \in Connections, CloseCounts(c) PROVE Account'
<1> USE DEF Typed, Account
<1>1. /\ pc' = pc /\ shut' = shut /\ conn[c] = "closed"
      /\ conn' = [conn EXCEPT ![c] = "gone"]
    BY DEF CloseCounts
<1>2. conn \in [Connections -> {"new", "accepted", "open", "closed", "gone"}]
    BY DEF TypeOK
<1>3. c \in Owed /\ Owed' = Owed \ {c}
    BY <1>1, <1>2 DEF Owed
<1>4. Cardinality(Owed') = Cardinality(Owed) - 1 /\ Cardinality(Owed') \in Nat
    <2>1. IsFiniteSet(Owed')
        BY <1>3, OwedIsFinite, FS_RemoveElement
    <2> QED
        BY <2>1, <1>3, OwedIsFinite, FS_RemoveElement, FS_CardinalityType
<1>5. IdleOwed' = IdleOwed /\ IdleOwed \in 0..1
    BY <1>1 DEF IdleOwed
<1>6. wg > 0
    BY <1>4, <1>5, OwedIsFinite
<1>7. /\ wg' = wg - 1 /\ crashed' = FALSE
      /\ pc'["serve"] = "blocked" /\ ~waiting' => wg' = 0
      /\ pc'["serve"] \notin {"terminate", "end"}
    BY <1>1, <1>6, DoneCounts DEF CloseCounts
<1>8. wg' = Cardinality(Owed') + IdleOwed'
    BY <1>4, <1>5, <1>7, OwedIsFinite
<1> QED
    BY <1>1, <1>2, <1>7, <1>8

\* A connection the handler closes is no longer owed by its own goroutine, but by the
\* handler.
LEMMA CloseIdleHolds ==
    ASSUME Typed, Account, NEW c \in Connections, CloseIdle(c) PROVE Account'
<1> USE DEF Typed, Account
<1>1. /\ conn' = conn /\ wg' = wg /\ waiting' = waiting /\ crashed' = crashed
      /\ conn[c] = "open" /\ c \notin shut /\ shut' = shut \cup {c}
    BY DEF CloseIdle, counter
<1>2. pc["handler"] = "keepAlive" /\ pc'["handler"] = "countIdle" /\ pc'["serve"] = pc["serve"]
    BY DEF CloseIdle, Goto, Places
<1>3. IdleOwed = 0 /\ IdleOwed' = 1
    BY <1>2 DEF IdleOwed
<1>4. c \in Owed /\ Owed' = Owed \ {c}
    BY <1>1 DEF Owed
<1>5. Cardinality(Owed') = Cardinality(Owed) - 1
    BY <1>4, OwedIsFinite, FS_RemoveElement
<1>6. wg' = Cardinality(Owed') + IdleOwed'
    BY <1>1, <1>3, <1>5, OwedIsFinite
<1> QED
    BY <1>1, <1>2, <1>6

\* The handler pays its debt.
LEMMA CountIdleHolds == ASSUME Typed, Account, CountIdle PROVE Account'
<1> USE DEF Typed, Account
<1>1. conn' = conn /\ shut' = shut
    BY DEF CountIdle, sessions
<1>2. pc["handler"] = "countIdle" /\ pc'["handler"] = "keepAlive" /\ pc'["serve"] = pc["serve"]
    BY DEF CountIdle, Goto, Places
<1>3. IdleOwed = 1 /\ IdleOwed' = 0
    BY <1>2 DEF IdleOwed
<1>4. Owed' = Owed
    BY <1>1, OwedStays
<1>5. wg > 0
    BY <1>3, OwedIsFinite
<1>6. /\ wg' = wg - 1 /\ crashed' = FALSE
      /\ pc'["serve"] = "blocked" /\ ~waiting' => wg' = 0
      /\ pc'["serve"] \notin {"terminate", "end"}
    BY <1>2, <1>5, DoneCounts DEF CountIdle
<1>7. wg' = Cardinality(Owed') + IdleOwed'
    BY <1>3, <1>4, <1>6, OwedIsFinite
<1> QED
    BY <1>1, <1>2, <1>6, <1>7

\* Every step keeps the account, until a hammer strikes.
LEMMA AccountHolds ==
    ASSUME Typed, [Next]_vars, ~hammered => Account, ~hammered'
    PROVE  Account'
<1>1. ~hammered
    BY DEF Next, vars, Serve, StartServing, AcceptFails, Wait, Terminate, AddConnection,
           Interrupt, HammerAtOnce, ReceiveSignal, Shutdown, BeginShutdown, SetShuttingDown,
           CountIdle, CloseListener, HammerTime, BeginHammer, Wake, LookAgain, Strike,
           Accept, Close, CloseCounts, CloseIdle, history
<1>2. Account
    BY <1>1
<1>3. CASE Serve
    BY <1>2, <1>3, ServeHolds, ConnectionHolds DEF Serve, ServeSteps
<1>4. CASE Interrupt \/ HammerAtOnce
    BY <1>2, <1>4, HandlerHolds DEF HandlerSteps
<1>5. CASE Shutdown
    BY <1>2, <1>5, HandlerHolds, CountIdleHolds DEF Shutdown, HandlerSteps
<1>6. ASSUME NEW p \in {"handler", "timer"}, HammerTime(p) PROVE Account'
    <2>1. BeginHammer(p) \/ Wake(p) \/ LookAgain(p)
        BY <1>6 DEF HammerTime, Strike
    <2> QED
        BY <1>2, <2>1, HandlerHolds
<1>7. ASSUME NEW c \in Connections,
             Accept(c) \/ Close(c) \/ CloseCounts(c) \/ CloseIdle(c)
      PROVE  Account'
    BY <1>2, <1>7, ConnectionHolds, CloseCountsHolds, CloseIdleHolds
<1>8. CASE UNCHANGED vars
    BY <1>2, <1>8, OwedStays DEF Account, IdleOwed, vars, counter, sessions, history
<1> QED
    BY <1>3, <1>4, <1>5, <1>6, <1>7, <1>8 DEF Next

-----------------------------------------------------------------------------
\* Every server is always in a state the types describe, and the account too until a
\* hammer strikes.
THEOREM Invariance == Spec => []IInv
<1>1. Init => IInv
    BY InitHolds
<1>2. IInv /\ [Next]_vars => IInv'
    BY TypedHolds, AccountHolds DEF IInv
<1> QED
    BY <1>1, <1>2, PTL DEF Spec

\* The values of the variables, with hammers at any moment: in particular no shutdown of
\* ftlserver/endless.go begins before Serve has, and Serve waits only while it has to.
THEOREM TypeCorrect == Spec => []TypeOK
<1>1. IInv => TypeOK
    BY DEF IInv, Typed
<1> QED
    BY <1>1, Invariance, PTL

\* Until a hammer strikes the WaitGroup never goes below zero, whatever the handler and
\* the connections close together (Close and shutdown of ftlserver/endless.go).
THEOREM NeverPanics == Spec => []NoCrash
<1>1. IInv => NoCrash
    BY DEF IInv, Account, NoCrash
<1> QED
    BY <1>1, Invariance, PTL

\* Unless a hammer has struck, Serve returns only when every connection it accepted is
\* closed: the counter is zero, so nothing is owed.
THEOREM ServeWaitsForAll == Spec => []GracefulEnd
<1>1. ASSUME IInv, ~hammered, pc["serve"] \in {"terminate", "end"}, NEW c \in Connections
      PROVE  conn[c] \in {"new", "closed", "gone"} \/ c \in shut
    <2>1. Cardinality(Owed) = 0
        BY <1>1, OwedIsFinite DEF IInv, Account, IdleOwed
    <2>2. Owed = {}
        BY <2>1, OwedIsFinite, FS_EmptySet
    <2>3. conn[c] # "accepted"
        BY <1>1 DEF IInv, Account
    <2>4. conn[c] = "open" => c \in shut
        BY <2>2 DEF Owed
    <2> QED
        BY <1>1, <2>3, <2>4 DEF IInv, Typed, TypeOK
<1>2. IInv => GracefulEnd
    BY <1>1 DEF GracefulEnd
<1> QED
    BY <1>2, Invariance, PTL

-----------------------------------------------------------------------------
(***************************************************************************)
(* The state of the server, when Accept fails on a closed listener only.   *)
(***************************************************************************)
\* Only a shutdown that has set the state closes the listener, and serve leaves its accept
\* loop only after that.
ListenerFirst ==
    /\ stopped => state \in {"shuttingDown", "terminate"}
    /\ pc["serve"] \in {"wait", "blocked", "terminate", "end"} => stopped
    /\ pc["handler"] \in {"keepAlive", "countIdle"} => state \in {"shuttingDown", "terminate"}
    /\ pc["handler"] = "setState" => state = "running"

\* The one step that reads neither the state nor the listener of the others: the hammer's.
LEMMA HammerListens ==
    ASSUME Typed, ListenerFirst, NEW p \in {"handler", "timer"}, HammerTime(p)
    PROVE  ListenerFirst' /\ state' = state
<1>1. state' = state /\ stopped' = stopped
    BY DEF HammerTime, BeginHammer, Wake, LookAgain, Strike
<1>2. /\ pc'["serve"] = pc["serve"]
      /\ pc'["handler"] \in {pc["handler"], "idle"} \cup HammerLabels
    BY DEF Typed, HammerTime, BeginHammer, Wake, LookAgain, Strike, Goto, Places, Rest,
           HammerLabels
<1> QED
    BY <1>1, <1>2 DEF ListenerFirst, HammerLabels

\* serve stops accepting because the listener is closed, and ends the server after that.
LEMMA ServeListens ==
    ASSUME ~AcceptMayFail, Typed, ListenerFirst, ServeSteps
    PROVE  ListenerFirst' /\ Rank[state] <= Rank[state']
<1> USE DEF Typed, ListenerFirst, Goto, Places
<1>1. CASE StartServing
    BY <1>1 DEF StartServing, TypeOK, Rank
<1>2. CASE AcceptFails
    BY <1>2 DEF AcceptFails, TypeOK, States, Rank
<1>3. CASE Wait
    BY <1>3 DEF Wait, TypeOK, States, Rank
<1>4. CASE Terminate
    BY <1>4 DEF Terminate, TypeOK, States, Rank
<1> QED
    BY <1>1, <1>2, <1>3, <1>4 DEF ServeSteps

\* The handler writes the state it decided on: serve has not left its accept loop.
LEMMA HandlerListens ==
    ASSUME Typed, ListenerFirst, HandlerSteps \/ CountIdle
    PROVE  ListenerFirst' /\ Rank[state] <= Rank[state']
<1> USE DEF Typed, ListenerFirst, Goto, Places
<1>1. CASE Interrupt \/ HammerAtOnce
    BY <1>1 DEF Interrupt, HammerAtOnce, ReceiveSignal, TypeOK, States, Rank
<1>2. CASE BeginShutdown
    BY <1>2 DEF BeginShutdown, TypeOK, States, Rank
<1>3. CASE SetShuttingDown
    BY <1>3 DEF SetShuttingDown, Rank
<1>4. CASE CloseListener
    BY <1>4 DEF CloseListener, TypeOK, States, Rank
<1>5. CASE CountIdle
    BY <1>5 DEF CountIdle, TypeOK, States, Rank
<1> QED
    BY <1>1, <1>2, <1>3, <1>4, <1>5 DEF HandlerSteps

\* Connections come and go without the state and without the listener.
LEMMA ConnectionListens ==
    ASSUME Typed, ListenerFirst, NEW c \in Connections,
           Accept(c) \/ AddConnection(c) \/ Close(c) \/ CloseCounts(c) \/ CloseIdle(c)
    PROVE  ListenerFirst' /\ state' = state
<1>1. state' = state /\ stopped' = stopped
    BY DEF Accept, AddConnection, Close, CloseCounts, CloseIdle
<1>2. /\ pc'["serve"] \in {pc["serve"], "accept", "add"}
      /\ \/ pc'["handler"] = pc["handler"]
         \/ pc["handler"] = "keepAlive" /\ pc'["handler"] = "countIdle"
    BY DEF Typed, Accept, AddConnection, Close, CloseCounts, CloseIdle, Goto, Places
<1> QED
    BY <1>1, <1>2 DEF ListenerFirst

\* What one step does to the state.
LEMMA ForwardStep ==
    ASSUME ~AcceptMayFail, Typed, ListenerFirst, [Next]_vars
    PROVE  ListenerFirst' /\ Rank[state] <= Rank[state']
<1>1. state' = state => Rank[state] <= Rank[state']
    BY DEF Typed, TypeOK, States, Rank
<1>2. CASE Serve
    BY <1>1, <1>2, ServeListens, ConnectionListens DEF Serve, ServeSteps
<1>3. CASE Interrupt \/ HammerAtOnce \/ Shutdown
    BY <1>3, HandlerListens DEF Shutdown, HandlerSteps
<1>4. ASSUME NEW p \in {"handler", "timer"}, HammerTime(p)
      PROVE  ListenerFirst' /\ Rank[state] <= Rank[state']
    BY <1>1, <1>4, HammerListens
<1>5. ASSUME NEW c \in Connections,
             Accept(c) \/ Close(c) \/ CloseCounts(c) \/ CloseIdle(c)
      PROVE  ListenerFirst' /\ Rank[state] <= Rank[state']
    BY <1>1, <1>5, ConnectionListens
<1>6. CASE UNCHANGED vars
    BY <1>1, <1>6 DEF ListenerFirst, vars
<1> QED
    BY <1>2, <1>3, <1>4, <1>5, <1>6 DEF Next

\* With any number of connections, signals and hammers, the state of a server never goes
\* back (shutdown, hammerTime and Serve of ftlserver/endless.go), provided that Accept
\* fails on a closed listener only.
THEOREM StateNeverGoesBack ==
    ASSUME ~AcceptMayFail
    PROVE  Spec => StateForward
<1>1. Init => ListenerFirst
    BY DEF Init, ListenerFirst
<1>2. IInv /\ ListenerFirst /\ [Next]_vars => ListenerFirst'
    BY ForwardStep DEF IInv
<1>3. IInv /\ ListenerFirst /\ [Next]_vars => [Rank[state] <= Rank[state']]_state
    BY ForwardStep DEF IInv
<1> QED
    BY <1>1, <1>2, <1>3, Invariance, PTL DEF Spec, StateForward
=============================================================================
