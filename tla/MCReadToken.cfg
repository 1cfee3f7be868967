CONSTANTS
    a = a
    b = b
    Byte <- MCByte
    Line <- MCLine
    Boundary <- MCBoundary
    MaxChunk = 3
    MaxStream = 15
SPECIFICATION FairSpec
INVARIANTS Resumable FoundIffPresent FirstOccurrence Parsed
PROPERTY Reported
CHECK_DEADLOCK FALSE
