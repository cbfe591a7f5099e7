CONSTANTS
    BaudRates <- Rates
    KnownBaudRates <- Rates
    Marks <- NoMarks
    AskedStops <- AllStops
    AskedBits <- AllBits
    Inherited <- Fresh
SPECIFICATION ConfigSpec
INVARIANT CharSizeAsAsked
