SPECIFICATION Spec
CONSTANTS
    n1 = n1
    n2 = n2
    Node = {n1, n2}
    Proc = {p1, p2}
    ExportLimit = 1
    Work <- MCWork
    MaxTime = 4
    MaxCrashes = 1
    None = None
INVARIANTS
    TypeOK
    CountersExact
    RecordsKept
PROPERTIES
    Spreads
