SPECIFICATION Spec
CONSTANTS
    t1 = t1
    t2 = t2
    p1 = p1
    p2 = p2
    small = small
    large = large
    email = email
    secret = secret
    NoThread = NoThread
    NoPrincipal = NoPrincipal
    Threads <- TwoThreads
    Principals <- OnePrincipal
    Documents <- MCDocuments
    Types <- MCTypes
    Size <- MCSize
    Entities <- MCEntities
    Operations = {"create", "record", "stats"}
    Texts = {"fits"}
    MaxSessions = 2
    MaxSessionsPerPrincipal = 1
    MaxBytes = 3
    TTL = 1
    ClockMayStepBack = TRUE
    MaxTime = 2
    MaxCalls = 3
INVARIANTS TypeOK Capacity ByteLedger Conservation SnapshotConsistent
PROPERTIES LockReleased
