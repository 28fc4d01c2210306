SPECIFICATION FairSpec
CONSTANTS
    w1 = w1
    w2 = w2
    Worker = {w1, w2}
    None = None
    Content <- Pages
    MaxEdits = 2
    MaxCrashes = 1
INVARIANTS
    TypeOK
    VersionsAreProjected
    CompletedMeansProjected
    OnlyNewRecordsAreNew
    ProjectionIsCurrent
PROPERTIES
    ChangedContentIsStoredUnlessRenumbered
