SPECIFICATION FairSpec
CONSTANTS
    w1 = w1
    w2 = w2
    Body <- Bodies
    Readable <- ReadableBodies
    Record <- RecordOf
    Worker = {w1, w2}
    None = None
    MaxEdits = 2
INVARIANTS
    TypeOK
    VersionsHaveArtifacts
    ObservationsMatchVersions
PROPERTIES
    ImplementsEvidenceLog
    StoreCatchesUpUnlessRefused
