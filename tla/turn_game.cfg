SPECIFICATION FairSpec
CONSTANTS
    PlayerA = a
    PlayerB = b
    Reqs = {r1, r2}
    Clips = {good, bad}
    GoodClips = {good}
    NoFile = nofile
    PriorRounds <- MCPriorRounds
    RoundsCap = 3
    MaxGuessAttempts = 2
    MaxTurns = 4
    DeckMayBeEmpty = TRUE
    HandlersMayDie = TRUE
INVARIANTS
    OneOpenTurn
    PackageNotLost
PROPERTIES
    TurnLifecycle
    RoundAdvances
CHECK_DEADLOCK FALSE
