SPECIFICATION Spec
CONSTANTS
    sender = sender
    other = other
    timer = timer
    Senders <- MCSenders
    Timers <- MCTimers
    Batches <- MCFrames
INVARIANTS TriesPerpetually
CHECK_DEADLOCK FALSE
