SPECIFICATION FairSpec
CONSTANTS
    Convs = {c1}
    Existing = {}
    Keys = {k1, k2}
    Past <- MCPast
    Old = None
    MaxReads = 3
    None = None
PROPERTY PendingEndsOnScreen
CHECK_DEADLOCK FALSE
