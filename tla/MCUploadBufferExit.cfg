SPECIFICATION FairSpec
CONSTANTS
    out = out
    quality = quality
    v1 = v1
    v2 = v2
    none = none
    t1 = t1
    OutRate = out
    NoValue = none
    Settings <- MCSettings
    Values <- MCValues
    Setters <- MCSetters
    RingBlocks <- MCRingBlocks
PROPERTY
    WorkerExits
CHECK_DEADLOCK FALSE
