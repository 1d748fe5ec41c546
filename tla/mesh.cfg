SPECIFICATION Spec
CHECK_DEADLOCK FALSE
CONSTANTS
    n1 = n1
    n2 = n2
    n3 = n3
    k1 = k1
    Node = {n1, n2, n3}
    Key = {k1}
    RingSize = 13
    Points <- MCPoints
    HashOf <- MCHashOf
    ReplicationFactor = 2
    QueueSize = 1
    Joined = {n1, n2, n3}
    MaxCalls = 3
    MaxTrouble = 2
    None = None
INVARIANTS
    TypeOK
    RingAgreement
    NearestOwn
    FoundInView
PROPERTIES
    ReplicasHeal
