SPECIFICATION FairSpec
CONSTANTS
    Calls = {c1, c2, c3}
    MaxConcurrency = 2
    Rpm = 1
    Window = 2
    MaxRetries = 1
    MaxCancels = 1
    ForImages = FALSE
    Nobody = nobody
INVARIANTS
    RpmRespected
    ChargedOnce
PROPERTIES
    CallsSettle
CHECK_DEADLOCK FALSE
