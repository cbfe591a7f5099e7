CONSTANTS
    c1 = c1
    c2 = c2
    r1 = r1
    r2 = r2
    f1 = f1
    f2 = f2
    NoFd = NoFd
    NoThread = NoThread
    Callers <- OneCaller
    Receivers <- OneReceiverSlot
    Fds <- OneFd
    BufLen = 1
    QueueCap = 2
    MaxByte = 2
    CallerCalls <- AllCalls
    CallbackCalls <- NoCalls
    Allowed <- NullReceiver
SPECIFICATION Spec
INVARIANT JoinsCreatedThread
