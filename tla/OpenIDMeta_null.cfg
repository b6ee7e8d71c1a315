SPECIFICATION FairSpec
CONSTANTS
    NotFound = NotFound
    Unset = Unset
    NoEntry = NoEntry
    Keys <- OneKey
    SecretValues <- NullSecrets
    ProjectStates <- OneProject
    ShootStates <- RecreatedShoots
    MaxConcurrentReconciles = 1
    ResyncPeriod = 1
    MaxDisturbances = 2
PROPERTY
    InvalidIsWithdrawn
CHECK_DEADLOCK FALSE
