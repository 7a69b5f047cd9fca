CONSTANTS
    c1 = c1
    c2 = c2
    tcp = tcp
    tls = tls
    None = None
    Boxed = Boxed
    Actual = tcp
    Claims <- MCClaims
    Types <- MCTypes
    Stream = 4
    Widths <- MCWidths
SPECIFICATION TransportSpec
CHECK_DEADLOCK FALSE
INVARIANTS HandedOverOnce StreamIntact
PROPERTY ClaimsResolve
