SPECIFICATION Spec
CONSTANTS
    Jobs = {j1}
    Workers = {w1, w2}
    EntryIds = {e1, e2, e3}
    MaxAttempts = 2
    MaxFaults = 1
    MaxLosses = 1
    MaxStrays = 0
    None = None
SYMMETRY Symmetry
INVARIANTS StateAgreement FencedClaims AttemptAccounting DeliveryRoute
PROPERTY ImplementsIngestion
