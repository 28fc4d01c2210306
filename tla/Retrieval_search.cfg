SPECIFICATION Spec
CONSTANTS
    d1 = d1
    d2 = d2
    d3 = d3
    f1 = f1
    t1 = t1
    t2 = t2
    Raw = Raw
    Document = {d1, d2, d3}
    Foreign = {f1}
    RecordType = {t1, t2}
    Limit = 2
    Scale = 238266
    MaxClaims = 2
    MinCitations = 2
    MaxChanges = 1
SYMMETRY Symmetry
INVARIANTS
    TypeOK
    ResultsPassTheFilter
    AnswersAreGrounded
PROPERTIES
    FusionRanksByReciprocalRanks
