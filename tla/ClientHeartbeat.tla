--------------------------- MODULE ClientHeartbeat ---------------------------
(***************************************************************************)
(* The heartbeat of a v2 client facade (evsocket/v2/socketio.go:           *)
(* startClientHeartbeat, stopClientHeartbeat, runClientHeartbeat).         *)
(*                                                                         *)
(* OnOpen starts a goroutine that pings the new socket until its stop      *)
(* channel is closed.  The facade keeps one stop channel and the socket it *)
(* belongs to, under heartbeatMu.  Sockets of one facade open and close in *)
(* any order: the OnClose of an old socket may run after the OnOpen of its *)
(* successor.  A socket opens once, so the stop channel made for socket s  *)
(* is named s.                                                             *)
(***************************************************************************)
CONSTANTS
    Sockets,    \* transports of the facade, one per dial
    NoSocket    \* nil

VARIABLES
    heartbeatStop,  \* the facade's stop channel, or NoSocket
    heartbeatConn,  \* the socket it belongs to, or NoSocket
    stopped,        \* stop channels that have been closed
    started,        \* history: sockets whose OnOpen started a heartbeat
    beating         \* heartbeat goroutines that are still running

vars == <<heartbeatStop, heartbeatConn, stopped, started, beating>>

Init ==
    /\ heartbeatStop = NoSocket
    /\ heartbeatConn = NoSocket
    /\ stopped = {}
    /\ started = {}
    /\ beating = {}

(***************************************************************************)
(* normalizeClientOptions makes PingInterval positive, so the branch of    *)
(* startClientHeartbeat that only stops is never taken.                    *)
(***************************************************************************)
StartClientHeartbeat(s) ==
    /\ stopped' = stopped \cup ({heartbeatStop} \ {NoSocket})
    /\ heartbeatStop' = s
    /\ heartbeatConn' = s
    /\ started' = started \cup {s}
    /\ beating' = beating \cup {s}

\* Mutant: the socket is not compared with the one the heartbeat belongs to.
StopAnyHeartbeat(s) ==
    /\ stopped' = stopped \cup ({heartbeatStop} \ {NoSocket})
    /\ heartbeatStop' = NoSocket
    /\ heartbeatConn' = NoSocket
    /\ UNCHANGED <<started, beating>>

StopClientHeartbeat(s) ==
    IF s # NoSocket /\ heartbeatConn # s
      THEN UNCHANGED vars
      ELSE /\ stopped' = stopped \cup ({heartbeatStop} \ {NoSocket})
           /\ heartbeatStop' = NoSocket
           /\ heartbeatConn' = NoSocket
           /\ UNCHANGED <<started, beating>>

\* The goroutine returns: its channel is closed, or, at a tick, its socket is no
\* longer the live transport or cannot be written to.
HeartbeatReturns(s, current) ==
    /\ s \in beating
    /\ s \in stopped \/ ~current
    /\ beating' = beating \ {s}
    /\ UNCHANGED <<heartbeatStop, heartbeatConn, stopped, started>>

-----------------------------------------------------------------------------
(***************************************************************************)
(* The heartbeat by itself: sockets open once, and any socket that opened  *)
(* may be stopped at any later moment, more than once.                     *)
(***************************************************************************)
Next ==
    \/ \E s \in Sockets \ started : StartClientHeartbeat(s)
    \/ \E s \in started : StopClientHeartbeat(s)
    \/ \E s \in Sockets, current \in BOOLEAN : HeartbeatReturns(s, current)

Spec == Init /\ [][Next]_vars

-----------------------------------------------------------------------------
(* The values the variables range over. *)
TypeOK ==
    /\ heartbeatStop \in Sockets \cup {NoSocket}
    /\ heartbeatConn \in Sockets \cup {NoSocket}
    /\ stopped \subseteq started
    /\ started \subseteq Sockets
    /\ beating \subseteq started

(* close(heartbeatStop) never closes a channel twice, which would panic in the
   read loop: a channel leaves the field in the critical section that closes it. *)
NoDoubleClose == heartbeatStop \notin stopped

(* Only the heartbeat of the socket in heartbeatConn is left untold to stop, so a
   facade that reconnects any number of times pings on one socket and leaks no
   goroutine. *)
OneUntoldHeartbeat == started \ stopped \subseteq {heartbeatConn}
=============================================================================
