SPECIFICATION Spec
CONSTANTS
    Callers = {c1, c2}
    Sockets = {s1, s2}
    NoSocket = NoSocket
    NoEvent = NoEvent
    Drainers = {d1}
    MaxCalls = 2
    MaxMessages = 0
    ShutdownAllowed = FALSE
    DialMayFail = TRUE
    OpenMayTimeOut = TRUE
    Liberties <- AllLiberties
INVARIANTS
    DialExclusive
PROPERTIES
    UsesQueue
    UsesHeartbeat
    HeartbeatKept
CHECK_DEADLOCK FALSE
