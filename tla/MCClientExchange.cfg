CONSTANTS
    NoUpgrade = NoUpgrade
    MaxInformational = 1
    Heads <- MCHeads
SPECIFICATION FairSpec
CHECK_DEADLOCK FALSE
INVARIANTS ReuseIsEarned OutcomeIsTrue
PROPERTY WaitsSettle
