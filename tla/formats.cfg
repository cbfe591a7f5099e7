CONSTANTS
    FieldLists <- SomeLists
    LaterLists <- LaterSome
    Custom = {"k"}
    MaxWidth = 8
    Times = {0, 2, 3, 6}
    Consoles <- SomeConsoles
    TicksPerSecond = 2
    Refresh = 2
    Offset <- OffsetFrom0
    ShortDays = {1}
    NameLens = {0}
    PayloadLens = {3}
    FileLens = {0, 5}
    Size <- SomeSizes
    IntBits = 6
    ShortBits = 4
    CharBits = 3
    Starts <- SomeStarts
    Alphabet = {"{", "}", ":", "<", "+", "#", "0", "2", ".", "x", "a"}
    MaxGrowth = 4
    ArgLists <- SomeArgs
    MaxPacked = 2
    MaxGiven = 3
    Texts = {"t", "u"}
    ArgNames = {"a", "b"}
    CallerVars = {"x"}
    NoName = ""
    Inline = 2
    LogTexts = {"short", "long"}
    NameLen <- NameLengths
    TextLen <- TextLengths
    QueueSize = 2
    MaxLogged = 4
    Junk0 = Junk0
    Flags <- SomeFlags
    Widths <- SomeWidths
    Precisions <- SomePrecisions
    Lengths <- SomeLengths
    Types = {"d", "u", "x", "X", "o", "s"}
    PrintfArgs <- SomePrintf
SPECIFICATION FormatsSpec
INVARIANTS MessageShown FormatsAgree NumbersReadBack ArgsFound MessagesReadable PrintfAgrees
CHECK_DEADLOCK FALSE
