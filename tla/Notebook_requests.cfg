SPECIFICATION Spec
CONSTANTS
    n1 = n1
    d1 = d1
    d2 = d2
    r1 = r1
    r2 = r2
    None = None
    Notebook = {n1}
    Document = {d1, d2}
    Search = {}
    Blank = {d2}
    Dated = {d1}
    Request = {r1, r2}
    MaxVersions = 2
    MaxEntries = 2
SYMMETRY Symmetry
INVARIANTS
    TypeOK
    PositionStaysFree
    ExportedEntriesKeepTheirCitations
PROPERTIES
    GeneratedEntriesAreGrounded
    ImplementsResearchLog
