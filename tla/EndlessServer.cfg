SPECIFICATION Spec
CONSTANTS
    Connections = {c1, c2, c3}
    MaxSignals = 3
    HammerSignal = TRUE
    HammerTimer = TRUE
    HammerLate = TRUE
    AcceptMayFail = FALSE
    ConnectionsEnd = FALSE
INVARIANTS
    NoCrash
    GracefulEnd
PROPERTIES
    StateForward
    ShutdownEnds
CHECK_DEADLOCK FALSE
