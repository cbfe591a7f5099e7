CONSTANTS
    a1 = a1
    w1 = w1
    w2 = w2
    Flusher = Flusher
    Main = Main
    Nobody = Nobody
    Apps <- OneApp
    Workers <- TwoWorkers
    Crews <- OneOrBoth
    NonBlocking <- TheFlusher
    Capacity = 2
    MaxId = 2
    MaxTicks = 1
SPECIFICATION FairSpec
INVARIANTS
    InOnePlace
    DrainedWhenGone
    InOrder
    FlusherSurvives
PROPERTIES
    ShutdownReturns
    PostReturns
    MessagesArrive
CHECK_DEADLOCK FALSE
