SPECIFICATION Spec
CONSTANTS
    Proc = {p1, p2}
    Repo = {r1}
    Tag = {t1}
    b1 = b1
    m1 = m1
    m2 = m2
    Blob = {}
    Manifest = {m1, m2}
    RefsOf <- MCRefsOf
    Capacity = 1
    Requests = {"PutManifest", "GetManifest", "DeleteManifest",
                "DeleteRepository", "ImportManifest"}
    MaxCrashes = 0
    None = None
SYMMETRY Symmetry
INVARIANTS
    TypeOK
    TagsResolve
    CacheFollowsTag
