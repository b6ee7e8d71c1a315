SPECIFICATION FairSpec
CONSTANTS
    Chains <- MCChains
    PrivateKeys = {"ka", "kb"}
    KeyFor <- MCKeyFor
    MaxChanges = 3
    Broken = Broken
INVARIANTS
    TypeOK
    ServedPairMatches
PROPERTY
    ServesNewPair
