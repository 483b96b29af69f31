SPECIFICATION Spec
CONSTANTS
    c1 = c1
    c2 = c2
    r1 = r1
    r2 = r2
    d1 = d1
    d2 = d2
    Clients <- MCClients
    Rates <- MCRates
    Depths <- MCDepths
    DefaultRate = r1
    DefaultDepth = d1
    None = None
    MaxChanges = 0
    MaxQueue = 2
INVARIANTS
    TypeOK
    RoomMatchesConnections
    RoomAgreesWithServer
    RoomNeedsSignal
    ClosedWithoutPeers
PROPERTIES
    UsesLink
    UsesMaps
