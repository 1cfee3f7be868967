CONSTANTS
    d1 = d1
    d2 = d2
    Fds <- MCFds
    MaxFiles = 2
    MaxRequests = 1
    Window = 1
    PoolLimit = 0
    Handlers = {"flush", "later"}
    Shapes <- MCShapes
    Pipelining = FALSE
SPECIFICATION Spec
INVARIANTS Attended ExclusiveBuffers OwnAnswers DiesAsKnown
CHECK_DEADLOCK FALSE
