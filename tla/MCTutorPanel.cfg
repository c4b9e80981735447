SPECIFICATION Spec
CONSTANTS
    Convs = {c1, c2}
    Existing = {c1}
    Keys = {k0, k1, k2}
    Past <- MCPast
    Old = k0
    MaxReads = 2
    None = None
SYMMETRY Symmetry
INVARIANTS ShownUnlessEager LostOnlyOverOffer RepeatedOnlyIfEager NoOrphan OfferReachable
PROPERTY NeverRegresses
CHECK_DEADLOCK FALSE
