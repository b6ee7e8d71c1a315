SPECIFICATION HistorySpec
CONSTANTS
    NotFound = NotFound
    Unset = Unset
    EmptyKey = EmptyKey
    NoEntry = NoEntry
    Unlocked = Unlocked
    Keys <- OneKey
    Projects = {"p", "q"}
    UIDs = {"u", "v"}
    ConfigMapValues <- AllConfigMaps
    NamespaceStates <- AllNamespaces
    ProjectStates <- AllProjects
    ShootStates <- AllShoots
    MaxConcurrentReconciles = 1
    ResyncPeriod = 1
    MaxDisturbances = 2
INVARIANTS
    TypeOK
    PublishedWasValidated
    NoLostUpdate
PROPERTIES
    OrphanedOnlyByRemap
    FollowsTheCaches
CHECK_DEADLOCK FALSE
