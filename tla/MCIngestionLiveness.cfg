SPECIFICATION FairSpec
CONSTANTS
    Jobs = {j1}
    Workers = {w1}
    EntryIds = {e1, e2}
    MaxAttempts = 2
    MaxFaults = 2
    MaxLosses = 1
    MaxStrays = 1
    None = None
PROPERTIES ImplementsFairIngestion DeadLetterPublished StreamDrains
