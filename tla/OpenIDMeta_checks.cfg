SPECIFICATION Spec
CONSTANTS
    NotFound = NotFound
    Unset = Unset
    NoEntry = NoEntry
    Keys <- OneKey
    SecretValues <- AllSecrets
    ProjectStates <- AllProjects
    ShootStates <- AllShoots
    MaxConcurrentReconciles = 1
    ResyncPeriod = 1
    MaxDisturbances = 3
INVARIANTS
    TypeOK
    PublishedWasValidated
    NoLostUpdate
PROPERTY
    FollowsTheCaches
CHECK_DEADLOCK FALSE
