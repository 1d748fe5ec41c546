SPECIFICATION Spec
CONSTANTS
    r1 = r1
    r2 = r2
    t1 = t1
    t2 = t2
    Repo = {r1, r2}
    Tag = {t1, t2}
    b1 = b1
    m1 = m1
    m2 = m2
    Blob = {b1}
    Manifest = {m1, m2}
    RefsOf <- MCRefsOf
    ChildrenOf <- MCChildrenOf
    Names <- MCNames
    KeepRecent = 1
    DryRun = FALSE
    MaxPushes = 2
    MaxTriggers = 1
    MaxFaults = 1
    None = None
INVARIANTS
    TypeOK
    CollectedSafely
PROPERTIES
    GarbageGoes
