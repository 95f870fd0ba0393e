SPECIFICATION Spec
CONSTANTS
    k1 = k1
    k2 = k2
    x = x
    y = y
    a = a
    b = b
    c1 = c1
    c2 = c2
    Tokens <- TwoTokens
    ClientIds <- TwoClients
    Projects <- TwoProjects
    Calls <- TwoCalls
    Quota = 1
    MaxSessions = 1
    MaxFreed = 1
    MaxRestarts = 1
SYMMETRY Symmetric
INVARIANTS TypeOK SearchesInScope SessionsStayWithToken CallsMetered
