SPECIFICATION FairSpec
CONSTANTS
    s1 = s1
    s2 = s2
    r1 = r1
    w1 = w1
    Source = {s1, s2}
    Run = {r1}
    Worker = {w1}
    Token = {1, 2, 3, 4}
    None = None
    BatchLimit = 2
    MaxCrashes = 1
    LostAcks = TRUE
    Managed = {s1}
PROPERTIES
    SourceKeepsBeingScanned
    ImplementsRefresh
