SPECIFICATION ServerSpec
CONSTANTS
    NotFound = NotFound
    Unset = Unset
    NoEntry = NoEntry
    NoCopy = NoCopy
    Keys <- OneKey
    SecretValues <- RotatedSecrets
    ProjectStates <- OneProject
    ShootStates <- ShootOrNone
    MaxConcurrentReconciles = 1
    ResyncPeriod = 2
    RetryDelay = 1
    InformerPeriod = 3
    MaxAge = 2
    Horizon = 7
    MaxDisturbances = 2
    UUIDs <- MCUUIDs
    CABundles <- OneBundle
INVARIANTS
    ServerTypeOK
    StaleIsBounded
    TrustIsBounded
    AbsenceIsBounded
    PairSettles
    MissMeansPassIsDue
    AnswersAreExact
