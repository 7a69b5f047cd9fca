SPECIFICATION FairSpec
CONSTANTS
    MaxSends <- MCMaxSends
    MaxInformational <- MCMaxInformational
INVARIANT HeadsInOrder
PROPERTY WaitsResolve
