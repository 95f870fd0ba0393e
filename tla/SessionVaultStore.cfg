SPECIFICATION Spec
CONSTANTS
    t1 = t1
    t2 = t2
    p1 = p1
    p2 = p2
    small = small
    large = large
    email = email
    secret = secret
    NoThread = NoThread
    NoPrincipal = NoPrincipal
    Threads <- TwoThreads
    Principals <- MCPrincipals
    Documents <- MCDocuments
    Types <- MCTypes
    Size <- MCSize
    Entities <- MCEntities
    Operations = {"create", "restore"}
    Texts = {"fits", "oversize", "expands"}
    MaxSessions = 2
    MaxSessionsPerPrincipal = 1
    MaxBytes = 3
    TTL = 1
    ClockMayStepBack = FALSE
    MaxTime = 2
    MaxCalls = 3
SYMMETRY Symmetric
INVARIANTS RestoreIsolated RefusalJustified OutcomesCounted
PROPERTIES NoEviction StoreSpec
