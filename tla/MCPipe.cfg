SPECIFICATION FairSpec
CONSTANTS
    i1 = i1  i2 = i2  i3 = i3
    w1 = w1  w2 = w2
    None = None
    Items <- MCItems
    Wakers <- MCWakers
INVARIANTS NoUnreachable NobodyStranded OfferAnswersTruthfully
PROPERTIES ImplementsRendezvous WaitsEnd
