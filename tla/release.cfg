SPECIFICATION FairSpec
CONSTANTS
    Proc = {p1, p2}
    Component = {c1, c2}
    ReleaseImage = ReleaseImage
    PeerState = {"cloning"}
    Requests <- AllRequests
    MaxCrashes = 1
INVARIANTS
    TypeOK
    VerifiedWasComplete
    NotStuck
PROPERTIES
    Settles
