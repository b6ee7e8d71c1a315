SPECIFICATION FairSpec
CONSTANTS
    NotFound = NotFound
    Unset = Unset
    EmptyKey = EmptyKey
    NoEntry = NoEntry
    Unlocked = Unlocked
    Keys <- TwoKeys
    Projects = {"p"}
    UIDs = {"u"}
    ConfigMapValues <- SharedConfigMaps
    NamespaceStates <- OneNamespace
    ProjectStates <- OneProject
    ShootStates <- ShootOrNone
    MaxConcurrentReconciles = 2
    ResyncPeriod = 1
    MaxDisturbances = 2
INVARIANTS
    MappingAccessExclusive
    ServedIsTracked
PROPERTIES
    InvalidIsWithdrawn
    MappedIsServed
    Converges
CHECK_DEADLOCK FALSE
