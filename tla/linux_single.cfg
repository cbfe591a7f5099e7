CONSTANTS
    c1 = c1
    c2 = c2
    r1 = r1
    r2 = r2
    f1 = f1
    f2 = f2
    NoFd = NoFd
    NoThread = NoThread
    Callers <- OneCaller
    Receivers <- TwoReceiverSlots
    Fds <- OneFd
    BufLen = 2
    QueueCap = 3
    MaxByte = 3
    CallerCalls <- AllCalls
    CallbackCalls <- NoCalls
    Allowed <- Unplugged
SPECIFICATION FairSpec
INVARIANTS
    QuietWhenClosed
    JoinsCreatedThread
PROPERTIES
    IsSerialPort
    CloseReturns
    SendReturns
    InputIsRead
