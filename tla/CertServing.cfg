SPECIFICATION CertSpec
CONSTANTS
    Callers = {p1, p2}
    Keys = {k1}
    NoCert = NoCert
    Validity = 4
    Margin = 1
    CAEnds = 5
    MaxTime = 6
    MaySweep = TRUE
INVARIANTS
    UsableWhenServed
