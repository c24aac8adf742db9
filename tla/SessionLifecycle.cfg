SPECIFICATION FairSpec
CONSTANTS
    Callers = {c1}
    Sockets = {s1, s2}
    NoSocket = NoSocket
    NoEvent = NoEvent
    Drainers = {d1}
    MaxCalls = 3
    MaxMessages = 1
    ShutdownAllowed = TRUE
    DialMayFail = TRUE
    OpenMayTimeOut = FALSE
    Liberties <- NoLiberties
INVARIANTS
    NoCrash
    FacadeCoherent
    NoStraySession
    EverySessionReported
    SessionsDoNotMix
PROPERTIES
    CallsReturn
    DisconnectDelivered
CHECK_DEADLOCK FALSE
