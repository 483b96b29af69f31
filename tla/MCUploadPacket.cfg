SPECIFICATION Spec
CONSTANTS
    BUFFER_SIZE <- MCBufferSize
    SampleRates <- MCSampleRates
    ReadSizes <- MCReadSizes
    FullScale <- MCFullScale
    Levels <- MCLevels
    MaxConsumed <- MCMaxConsumed
    MaxSetBack <- MCMaxSetBack
INVARIANTS
    TypeOK
    TimelineKept
    PauseBounded
    NothingDroppedDownwards
CHECK_DEADLOCK FALSE
