SPECIFICATION FairSpec
CONSTANTS
    e1 = e1
    e2 = e2
    e3 = e3
    none = none
    None = none
    Executors <- MCExecutors
    Delay <- MCDelay
INVARIANTS
    TypeOK
    OnlyLatestArmed
PROPERTIES
    DecidesAfterSilence
    SilentLinkCloses
