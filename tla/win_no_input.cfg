CONSTANTS
    c1 = c1
    c2 = c2
    r1 = r1
    r2 = r2
    h1 = h1
    h2 = h2
    NoHandle = NoHandle
    NoThread = NoThread
    Callers <- OneCaller
    Receivers <- OneReceiverSlot
    Handles <- OneHandle
    QueueCap = 1
    PathCap = 1
    EventCap = 0
    CallerCalls <- AllCalls
    Modes <- Async
    Allowed <- Nothing
SPECIFICATION FairSpec
PROPERTY InputIsRead
