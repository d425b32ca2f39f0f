SPECIFICATION FairSpec
CONSTANTS
    Decks = {d1, d2}
    Chains = {c1, c2}
    MaxFailures = 1
    Jobs = {j1, j2}
    Samples = {s1, s2}
    Polls = {p1, p2}
    Fetches = {f1, f2}
    MaxStreams = 2
    MaxLost = 1
INVARIANTS
    NoMicLeftOpen
PROPERTIES
    ReviewSettles
    JobBadgeSettles
