SPECIFICATION Spec
CONSTANTS
    Addresses = {a1, a2}
    MaxProcesses = 3
    Configs <- SameConfig
    NoSocket = NoSocket
    CrashLate = FALSE
INVARIANTS
    InheritsOwnSocket
    NoGap
    OneChild
PROPERTIES
    RestartCompletes
CHECK_DEADLOCK FALSE
