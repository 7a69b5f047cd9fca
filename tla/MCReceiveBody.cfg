CONSTANTS
    Scenarios <- MCScenarios
    DrainLimits = {0, 2}
    WireAllowance = 7
    MaxSize = 15
    MaxChunkLine = 5
    MaxExtensions = 3
    MaxTrailerBytes = 6
    MaxTrailers = 1
SPECIFICATION FairSpec
INVARIANTS
    ReceivedExactly
    WithinBounds
PROPERTY ReceiveSettles
CHECK_DEADLOCK FALSE
