SPECIFICATION Spec
CONSTANTS
    Items = {i1, i2}
    ZeroItem = ZeroItem
    Workers = {w1}
    QueueSize = 1
    BatchSize = 2
    DynamicBatching = FALSE
    MinBatchSize = 0
    MaxBatchSize = 2
    MayStop = TRUE
    MayCancel = FALSE
    MayPanic = FALSE
INVARIANTS
    SuccessMeansAccepted
CHECK_DEADLOCK FALSE
