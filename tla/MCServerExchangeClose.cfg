CONSTANTS
    NoUpgrade = NoUpgrade
    Heads <- MCHeads
SPECIFICATION Spec
INVARIANT CloseHonoured
CHECK_DEADLOCK FALSE
