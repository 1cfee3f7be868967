CONSTANTS
    a = a
    b = b
    Junk = Junk
    Bytes <- MCBytes
    Payloads <- MCPayloads
    Nul = a
    IntWidth = 2
    RecvChunk = 3
    SizeMod = 16
    InitialReserve = 2
    ReserveLimit = 2
    MaxReserve = 6
SPECIFICATION Spec
INVARIANTS Sound NoFault
PROPERTY QueueSpec
CHECK_DEADLOCK TRUE
