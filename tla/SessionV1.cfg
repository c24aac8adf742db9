SPECIFICATION Spec
CONSTANTS
    QueueSize = 2
    Instances <- SmallInstances
INVARIANTS
    NoCrash
    DisconnectMeansDead
    SentInOrder
PROPERTIES
    EmitReachesPeer
    GoroutinesStop
    BreakReleasesCaller
CHECK_DEADLOCK FALSE
