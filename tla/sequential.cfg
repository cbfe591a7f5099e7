CONSTANTS
    BaudRates <- OneRate
    KnownBaudRates <- Rates
    Marks <- MarksOfWindows
    AskedStops <- SomeStops
    AskedBits <- SomeBits
    Inherited <- Found
    InheritedDcb <- FoundDcb
    MaxDevices = 3
    MaxTerminals = 2
    Answers <- AllAnswers
    LoggerIds = {l1, l2}
    Names = {"", "lib_sp_log"}
    DefaultName = ""
    PortLogName = "lib_sp_log"
    Levels = {1, 2}
    Info = 2
    Kinds = {"flush_level"}
    Values = {0, 1}
    Ports = {p1}
    None = None
    MaxFiles = 2
    MaxSize = 2
    MsgSizes = {1, 2, 3}
    MaxMsgs = 5
    NoFile = NoFile
    Nothing = Nothing
    Payloads = {a, b}
    MsgLevels = {1, 2}
    InfoLevel = 2
    RingLevel = 2
    MaxTime = 1
    MaxSkip = 0
    RingSizes = {2}
    TraceSizes = {1}
    MaxAttached = 1
    MaxSkips = 1
    TicksPerDay = 2
    LastDay = 5
    MaxDelay = 2
    FileLimits = {1, 2, 3}
    Sinks = {1, 2}
    SinkKinds <- SomeKinds
    Systems = {"posix", "windows"}
    MsgLen = 2
    Addresses = 2
    AndroidRetries = 2
    NoHandle = 0
    Denied = 5
    Source = 9
    MaxMessages = 3
    MaxSockets = 3
SYMMETRY Loggers
SPECIFICATION SequentialSpec
INVARIANTS
    LineAsAsked
    OneFlowControl
    SteadyPortsListed
    DefaultIsRegistered
    GlobalsReachAll
    SizeBounded
    OldestFirst
    NothingSkipped
    NewestKept
    RetainsNewest
    WholeMessages
    NoSocketLost
CHECK_DEADLOCK FALSE
