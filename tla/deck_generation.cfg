SPECIFICATION BuildFairSpec
CONSTANTS
    Concepts = {c1, c2, c3}
    Stranger = stranger
    MaxImages = 2
    MaxImageRetries = 1
    MaxInventions = 2
    NDecoys = 2
    NoCard = nobody
INVARIANTS
    ProgressMatchesRows
    NothingRunsAfterFailure
    ReadyDeckPlayable
PROPERTIES
    BuildSettles
CHECK_DEADLOCK FALSE
