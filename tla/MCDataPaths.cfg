SPECIFICATION MCSpec
CONSTANTS
    PageLength = 7
    ParsedDocuments <- Papers
    Sizes = {2, 4, 5}
    Overlaps = {0, 1, 2, 3, 4}
    Chunks = {"k1", "k2"}
    Replies <- MCReplies
    EvidenceSets <- EvidenceChoices
    MaxBlocks = 2
    MaxCitations = 2
    Files = {f1}
    MaxKeys = 2
    ReadIds = {1, 2}
    MaxFaults = 2
    MaxRivals = 1
    None = None
    Null = Null
INVARIANTS
    NothingDropped Quotable
    CleaningFaithful StoredCoherent AnswerGrounded ShownWhole
    OneDocumentPerFile
PROPERTIES Terminates TriesEnd WorkingEndsOnScreen
CHECK_DEADLOCK FALSE
