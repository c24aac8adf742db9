SPECIFICATION Spec
CONSTANTS
    Processes = {p1, p2, p3}
    Keys = {k1, k2}
    MaxCalls = 5
SYMMETRY Symmetry
INVARIANTS
    LenSettles
CHECK_DEADLOCK FALSE
