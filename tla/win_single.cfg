CONSTANTS
    c1 = c1
    c2 = c2
    r1 = r1
    r2 = r2
    h1 = h1
    h2 = h2
    NoHandle = NoHandle
    NoThread = NoThread
    Callers <- OneCaller
    Receivers <- TwoReceiverSlots
    Handles <- OneHandle
    QueueCap = 1
    PathCap = 2
    EventCap = 1
    CallerCalls <- AllCalls
    Modes <- Async
    Allowed <- Failures
SPECIFICATION FairSpec
INVARIANTS
    NothingHeldWhenClosed
    SleeperIsAwaited
PROPERTIES
    CloseReturns
    ReceiverEnds
