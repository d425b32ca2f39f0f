SPECIFICATION Spec
CONSTANTS
    t1 = t1
    t2 = t2
    Turns = {t1, t2}
    Garbage = garbage
    ShardLimit = 1
    Workers = {w1, w2}
    Nobody = nobody
    Alike <- MCAlikePair
    SameHash <- MCAlikePair
    MaxTries = 2
    MaxClaims <- MCFirstTwice
    WorkersDie = TRUE
    JobsMayFail = FALSE
    LateWorkers = TRUE
    TornWrites = FALSE
SYMMETRY WorkerSymmetry
INVARIANTS
    OneOriginal
    LinesMatchRecords
PROPERTIES
    KeepsPromise
CHECK_DEADLOCK FALSE
