SPECIFICATION Spec
CHECK_DEADLOCK FALSE
CONSTANTS
    j1 = j1
    j2 = j2
    s1 = s1
    s2 = s2
    r1 = r1
    t1 = t1
    b1 = b1
    b2 = b2
    m1 = m1
    m2 = m2
    Proc = {g1}
    Job = {j1}
    Repo = {r1}
    Tag = {t1}
    Blob = {b1, b2}
    Manifest = {m1, m2}
    ConfigOf <- MCConfigOf
    LayersOf <- MCLayersOf
    ChildrenOf <- MCChildrenOf
    Type <- MCRegistryOnly
    Source = {s1}
    SourceOf <- MCOneSource
    Schedule <- MCInterval
    FirstRepos = {r1}
    FirstTags = {t1}
    Mode <- MCContinuous
    Included <- MCAllTags
    Upstream <- MCUpstreamOne
    MaxTrouble = 1
    None = None
PROPERTIES
    IndexSynced
