SPECIFICATION Spec
CONSTANTS
    BUFFER_LENGTH <- MCBufferLength
    MaxFrames <- MCMaxFrames
    MaxSamples <- MCMaxSamples
INVARIANTS
    SizeSeesUnread
CHECK_DEADLOCK FALSE
