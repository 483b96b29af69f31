SPECIFICATION FairSpec
CONSTANTS
    sender = sender
    other = other
    timer = timer
    Senders <- MCTwoSenders
    Timers <- MCTimers
    Batches <- MCBatches
INVARIANTS
    TypeOK
    
PROPERTIES
    ImplementsLink
    
    
CHECK_DEADLOCK FALSE
