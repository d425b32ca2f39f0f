SPECIFICATION ArtifactsFairSpec
CONSTANTS
    as = as
    bn = bn
    First = 2
    Last = 3
    Languages <- MCLanguages
    LangOf <- MCLangOf
    Order <- MCOrder
    LangOrder <- MCLangOrder
    HoldNum = 1
    HoldDen = 2
    Approved = {1, 2, 3}
    MaxPrepares = 2
    MaxTrainings = 2
INVARIANTS
    AdapterIsWhatItSays
    ComparedUnseen
PROPERTIES
    LeakSettles
