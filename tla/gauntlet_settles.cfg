SPECIFICATION FairSpec
CONSTANTS
    t1 = t1
    t2 = t2
    Turns = {t1}
    Garbage = garbage
    ShardLimit = 2
    Workers = {w1, w2}
    Nobody = nobody
    Alike <- MCNone
    SameHash <- MCNone
    MaxTries = 2
    MaxClaims <- MCClaimTwice
    WorkersDie = FALSE
    JobsMayFail = TRUE
    LateWorkers = FALSE
    TornWrites = TRUE
PROPERTIES
    EligibleRecordLinked
    JobsSettle
CHECK_DEADLOCK FALSE
