SPECIFICATION Spec
CONSTANTS
    MaxMessages = 1
    Keys = {k1}
    Topics = {t1}
    Phrases = {p1}
    Corpora = {c1}
    ActionParents = {"factual"}
    MaxFaults = 0
    None = None
INVARIANT AmbiguityClarified
