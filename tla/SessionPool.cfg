SPECIFICATION Spec
SYMMETRY Alike
CONSTANTS
    Facades <- TwoFacades
    Transports <- FourTransports
    Of <- MCOf
    Stopper = Stopper
    Ids <- MCIds
    None = None
    InitialId <- MCInitialId
    Wanted <- MCWanted
    Renamers = {f2}
    Eager = {f2}
    MayShutdown = TRUE
    Broadcasters = {f1}
    f1 = f1
    f2 = f2
    s1 = s1
    s2 = s2
    t1 = t1
    t2 = t2
    r1 = r1
    r2 = r2
    a = a
INVARIANTS
    KeyedByUUID
    LiveIsRoutable
    NoGhostEntry
    BroadcastSkipsSelf
CHECK_DEADLOCK FALSE
