SPECIFICATION FairSpec
CONSTANTS
    p1 = p1
    p2 = p2
    p3 = p3
    Players = {p1, p2, p3}
    NativeLang <- MCNativeThree
    CommonLangs <- MCCommonEnglish
    Reqs = {r1, r2}
    Ttl = 1
    MaxClock = 2
    MaxPairs = 2
    NotQueued = notqueued
    Nobody = nobody
    HandlersMayDie = TRUE
INVARIANTS
    ClaimsHold
PROPERTIES
    WaiterNotDropped
    RequestsAnswered
CHECK_DEADLOCK FALSE
