SPECIFICATION Spec
CONSTANTS
    Convs = {c1, c2}
    Existing = {c1}
    Keys = {k1, k2}
    Past <- MCPast
    Old = None
    MaxReads = 2
    None = None
SYMMETRY Symmetry
INVARIANT ShownIsSelected
CHECK_DEADLOCK FALSE
