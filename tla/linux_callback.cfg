CONSTANTS
    c1 = c1
    c2 = c2
    r1 = r1
    r2 = r2
    f1 = f1
    f2 = f2
    NoFd = NoFd
    NoThread = NoThread
    Callers <- OneCaller
    Receivers <- TwoReceiverSlots
    Fds <- OneFd
    BufLen = 1
    QueueCap = 2
    MaxByte = 3
    CallerCalls <- AllCalls
    CallbackCalls = {"close", "send"}
    Allowed <- Everything
SPECIFICATION Spec
SYMMETRY Interchangeable
INVARIANTS
    OwnsMutex
    ReadFits
    OneInside
    InOrder
CHECK_DEADLOCK FALSE
