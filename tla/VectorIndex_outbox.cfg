SPECIFICATION FairSpec
CONSTANTS
    i1 = i1
    i2 = i2
    Indexer = {i1, i2}
    None = None
    MaxVersion = 2
    MaxMeta = 1
    MaxCrashes = 1
INVARIANTS
    NoLostReindex
    FencedWorkerIsCurrent
PROPERTIES
    StaleIndexHeals
