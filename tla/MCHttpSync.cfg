CONSTANTS
    d1 = d1
    d2 = d2
    Fds <- MCOne
    MaxFiles = 2
    MaxRequests = 2
    Window = 1
    PoolLimit = 0
    Handlers = {"end"}
    Shapes <- MCShort
    Pipelining = TRUE
SPECIFICATION Spec
INVARIANTS TypeOK OwnAnswers
CHECK_DEADLOCK FALSE
