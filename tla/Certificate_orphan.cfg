SPECIFICATION FairSpec
CONSTANTS
    NotFound = NotFound
    Unset = Unset
    EmptyKey = EmptyKey
    NoEntry = NoEntry
    Unlocked = Unlocked
    Keys <- OneKey
    Projects = {"p"}
    UIDs = {"u", "v"}
    ConfigMapValues <- RecreatedConfigMaps
    NamespaceStates <- OneNamespace
    ProjectStates <- OneProject
    ShootStates <- AllShoots
    MaxConcurrentReconciles = 1
    ResyncPeriod = 1
    MaxDisturbances = 3
PROPERTY
    InvalidIsWithdrawn
CHECK_DEADLOCK FALSE
