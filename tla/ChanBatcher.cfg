SPECIFICATION Spec
CONSTANTS
    Items = {i1, i2, i3}
    ZeroItem = ZeroItem
    Workers = {w1, w2}
    QueueSize = 2
    BatchSize = 2
    DynamicBatching = TRUE
    MinBatchSize = 0
    MaxBatchSize = 2
    MayStop = TRUE
    MayCancel = TRUE
    MayPanic = TRUE
INVARIANTS
    TypeOK
    EachItemOnce
    BatchInOrder
PROPERTIES
    AcceptedEventuallyProcessed
    AddReturns
    WorkersEnd
CHECK_DEADLOCK FALSE
