SPECIFICATION ClientFairSpec
CONSTANTS
    MaxTurns = 2
    MaxAttempts = 2
    Options = {card, decoy1, decoy2}
    Card = card
    Requests = {q1, q2}
    MaxJoins = 2
    MaxFailed = 1
    MaxPrompts = 2
INVARIANTS
    RightAnswerOpen
    DiscardedNotSent
PROPERTIES
    WaiterKeepsAsking
    ButtonsComeBack
    MicCloses
CHECK_DEADLOCK FALSE
