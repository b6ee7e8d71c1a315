SPECIFICATION FairSpec
CONSTANTS
    NotFound = NotFound
    Unset = Unset
    NoEntry = NoEntry
    Keys <- TwoKeys
    SecretValues <- LabelledOrNot
    ProjectStates <- OneProject
    ShootStates <- RecreatedShoots
    MaxConcurrentReconciles = 2
    ResyncPeriod = 1
    MaxDisturbances = 2
PROPERTIES
    InvalidIsWithdrawn
    Converges
CHECK_DEADLOCK FALSE
