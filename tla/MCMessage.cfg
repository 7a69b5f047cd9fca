CONSTANTS
    Families <- MCFamilies
    MaxLines = 5
    MaxSize = 15
    MaxChunkLine = 5
    MaxExtensions = 3
    MaxTrailerBytes = 6
    MaxTrailers = 1
SPECIFICATION MessageSpec
INVARIANTS HeadsAgree AcceptedHeadsAreClear MessageFaithful
CHECK_DEADLOCK FALSE
