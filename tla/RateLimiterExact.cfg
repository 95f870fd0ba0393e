SPECIFICATION Spec
CONSTANTS
    t1 = t1
    t2 = t2
    p1 = p1
    p2 = p2
    NoThread = NoThread
    Threads <- TwoThreads
    Principals <- TwoPrincipals
    MaxPerWindow = 2
    Window = 3
    MaxDelay = 1
    MaxTime = 6
    MaxChecks = 4
SYMMETRY Symmetric
INVARIANTS WindowCap
