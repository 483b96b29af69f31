SPECIFICATION Spec
CONSTANTS
    BUFFER_LENGTH <- MCBufferLength
    MaxFrames <- MCMaxFrames
    MaxSamples <- MCMaxSamples
INVARIANTS
    TypeOK
    FifoUnlessOverrun
    ReadsOnlyPublished
    ChannelsAligned
    SamplesInPlace
PROPERTIES
    ImplementsFifo
CHECK_DEADLOCK FALSE
