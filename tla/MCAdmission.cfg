SPECIFICATION FairSpec
CONSTANTS
    c1 = c1  c2 = c2  c3 = c3
    Driver = Driver
    None = None
    Clients <- MCClients
    MaxSenders = 2
INVARIANTS OneOwner NobodyStranded
PROPERTIES NoOvertaking EveryoneAnswered
