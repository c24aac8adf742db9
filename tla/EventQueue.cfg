SPECIFICATION Spec
CONSTANTS
    Kinds <- MCKinds
    Tags = {t1}
    NoEvent = NoEvent
    Drainers = {d1, d2}
    MaxEvents = 3
    MaxReady = 2
    MaxConnects = 1
INVARIANTS
    NoLostWakeup
PROPERTIES
    ImplementsSerial
    Delivery
CHECK_DEADLOCK FALSE
