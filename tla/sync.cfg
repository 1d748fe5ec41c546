SPECIFICATION Spec
CHECK_DEADLOCK FALSE
CONSTANTS
    j1 = j1
    j2 = j2
    s1 = s1
    s2 = s2
    r1 = r1
    t1 = t1
    b1 = b1
    b2 = b2
    m1 = m1
    m2 = m2
    Proc = {g1, g2}
    Job = {j1, j2}
    Repo = {r1}
    Tag = {t1}
    Blob = {b1, b2}
    Manifest = {m1, m2}
    ConfigOf <- MCConfigOf
    LayersOf <- MCLayersOf
    ChildrenOf <- MCChildrenOf
    Type <- MCType
    Source = {s1, s2}
    SourceOf <- MCSourceOf
    Schedule <- MCSchedule
    FirstRepos = {r1}
    FirstTags = {t1}
    Mode <- MCMode
    Included <- MCIncluded
    Upstream <- MCUpstream
    MaxTrouble = 2
    None = None
INVARIANTS
    TypeOK
    OneRunPerJob
    TriggerNotLost
    SyncedComplete
PROPERTIES
    Converges
