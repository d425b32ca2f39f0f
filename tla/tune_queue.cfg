SPECIFICATION FairSpec
CONSTANTS
    Handlers = {h1, h2}
    j1 = j1
    j2 = j2
    Jobs = {j1, j2}
    KindOf <- MCKindOf
    LockStale = 0
    HeartbeatStale = 0
    ProcessingStale = 1
    UploadTTL = 0
    MaxApiCrashes = 1
    MaxSupervisorCrashes = 1
INVARIANTS
    OneActiveJob
    NoJobRunsTwice
PROPERTIES
    FinalStatusStays
    JobsSettle
CHECK_DEADLOCK FALSE
