SPECIFICATION Spec
CONSTANTS
    c1 = c1
    c2 = c2
    r1 = r1
    r2 = r2
    d1 = d1
    d2 = d2
    Clients <- MCOneClient
    Rates <- MCRates
    Depths <- MCDepths
    DefaultRate = r1
    DefaultDepth = d1
    None = None
    MaxChanges = 2
    MaxQueue = 0
INVARIANTS
    ServerDetailsCurrent
