CONSTANTS
    d1 = d1
    d2 = d2
    Fds <- MCOne
    MaxFiles = 2
    MaxRequests = 2
    Window = 1
    PoolLimit = 0
    Handlers = {"flush"}
    Shapes <- MCShort
    Pipelining = FALSE
SPECIFICATION FairSpec
PROPERTY AnswersCome
CHECK_DEADLOCK FALSE
