SPECIFICATION Spec
CONSTANTS
    MaxMessages = 2
    Keys = {k1, k2}
    Topics = {t1}
    Phrases = {p1}
    Corpora = {c1, c2}
    ActionParents = {"factual"}
    MaxFaults = 1
    None = None
SYMMETRY Symmetry
INVARIANTS Grounded SingleCall ResolvedQueries LapsedGetsNothing
PROPERTIES ImplementsTurns
