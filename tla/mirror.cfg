SPECIFICATION Spec
CONSTANTS
    r1 = r1
    r2 = r2
    t1 = t1
    b1 = b1
    m1 = m1
    m2 = m2
    Proc = {p1, p2}
    Repo = {r1, r2}
    Tag = {t1}
    Blob = {b1}
    Manifest = {m1, m2}
    Upstream <- MCUpstream
    Wanted <- MCWanted
    MaxTrouble = 2
    None = None
INVARIANTS
    TypeOK
    ServedStored
    Backed
PROPERTIES
    Fills
