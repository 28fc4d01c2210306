SPECIFICATION FairSpec
CONSTANTS
    w1 = w1
    w2 = w2
    u1 = u1
    x1 = x1
    Worker = {w1, w2}
    Reader = {u1}
    Item = {x1}
    None = None
    LastDate = 2
    DayLength = 2
    Zone <- West
    SectionLimit = 1
INVARIANTS
    TypeOK
    EditionAgreesWithJob
    NoNewsTwice
PROPERTIES
    ImplementsEdition
    BriefingIsPublished
