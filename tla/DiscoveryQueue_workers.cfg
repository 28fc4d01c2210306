SPECIFICATION Spec
CONSTANTS
    s1 = s1
    s2 = s2
    r1 = r1
    r2 = r2
    w1 = w1
    w2 = w2
    Source = {s1, s2}
    Run = {r1, r2}
    Worker = {w1, w2}
    Token = {1, 2, 3}
    None = None
    BatchLimit = 1
    MaxCrashes = 0
    LostAcks = FALSE
    Managed = {}
SYMMETRY Symmetry
INVARIANTS
    TypeOK
    OneRefreshPerSource
    ScanAgreesWithRefresh
    RunAgreesWithSources
PROPERTIES
    LiveLeaseIsKept
