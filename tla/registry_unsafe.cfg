SPECIFICATION Spec
CONSTANTS
    Proc = {p1, p2}
    Repo = {r1, r2}
    Tag = {t1}
    b1 = b1
    m1 = m1
    m2 = m2
    Blob = {b1}
    Manifest = {m1}
    RefsOf <- MCRefsOf
    Capacity = 1
    Requests = {"UploadBlob", "MountBlob", "DeleteBlob"}
    MaxCrashes = 0
    None = None
PROPERTIES
    SafeToDelete
