CONSTANTS
    NoUpgrade = NoUpgrade
    Heads <- MCHeads
SPECIFICATION FairSpec
CHECK_DEADLOCK FALSE
INVARIANTS ReuseIsEarned  AbandonmentAnnounced
PROPERTY FailureSettles
