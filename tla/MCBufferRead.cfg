CONSTANTS
    a = a
    b = b
    Junk = Junk
    Bytes <- MCBytes
    Payloads <- MCPairs
    Nul = a
    IntWidth = 2
    RecvChunk = 1
    SizeMod = 8
    InitialReserve = 1
    ReserveLimit = 1
    MaxReserve = 3
SPECIFICATION FullSpec
PROPERTY ReadNeverGrows
CHECK_DEADLOCK FALSE
