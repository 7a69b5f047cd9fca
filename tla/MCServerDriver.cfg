CONSTANTS
    Horizon = 2
    Scripts <- MCScripts
    Preferred = 4
    MaxHead = 7
SPECIFICATION DriverSpec
INVARIANTS EarliestDeadlineKept  NobodyStranded TransportIsWhole
PROPERTIES RequestsEndDriver StopIsHeeded
CHECK_DEADLOCK FALSE
