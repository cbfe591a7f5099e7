CONSTANTS
    BaudRates <- OneRate
    KnownBaudRates <- Rates
    Marks <- MarksOfWindows
    AskedStops <- SomeStops
    AskedBits <- SomeBits
    Inherited <- Found
    InheritedDcb <- FoundDcb
    MaxDevices = 3
    MaxTerminals = 2
    Answers <- AllAnswers
SPECIFICATION SettingsSpec
INVARIANT HardwareIsRtsCts
CHECK_DEADLOCK FALSE
