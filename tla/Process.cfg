SPECIFICATION FairProcessSpec
CONSTANTS
    FlagValues <- MCFlagValues
    Contents <- MCContents
    KeyPairs = {pair1, pair2}
    MaxDisturbances = 2
    Missing = Missing
    Broken = Broken
    NoEntry = NoEntry
    MaxAge = 1
INVARIANTS
    ProcessTypeOK
    NothingRunsAfterReturn
    AllErrorsReturned
    RunningIsValidated
    NoFlagIsIgnored
    OnlyATornReadMixes
PROPERTIES
    ReturnsWhenAnythingStops
    ComesUp
CHECK_DEADLOCK FALSE
