SPECIFICATION Spec
CONSTANTS
    Callers = {c1}
    Sockets = {s1, s2}
    NoSocket = NoSocket
    NoEvent = NoEvent
    Drainers = {d1}
    MaxCalls = 2
    MaxMessages = 0
    ShutdownAllowed = FALSE
    DialMayFail = FALSE
    OpenMayTimeOut = FALSE
    Liberties <- ReconnectLive
INVARIANTS
    EverySessionReported
CHECK_DEADLOCK FALSE
