SPECIFICATION FairSpec
CONSTANTS
    c1 = c1
    c2 = c2
    c3 = c3
    none = none
    Clients <- MCClients
    NoClient = none
INVARIANTS
    TypeOK
    MapsAgree
    EveryOpenChannelServed
    SendsOnHeldChannel
PROPERTIES
    ImplementsMaps
    SendAudioReturns
CHECK_DEADLOCK FALSE
