SPECIFICATION Spec
CONSTANTS
    Proc = {p1, p2}
    Repo = {r1, r2}
    Tag = {}
    b1 = b1
    m1 = m1
    m2 = m2
    Blob = {b1}
    Manifest = {m1}
    RefsOf <- MCRefsOf
    Capacity = 1
    Requests = {"PutManifest", "UploadBlob", "MountBlob", "DeleteBlob",
                "ImportManifest", "ProxyManifest"}
    MaxCrashes = 1
    None = None
SYMMETRY Symmetry
INVARIANTS
    ManifestsComplete
    BlobsProtected
