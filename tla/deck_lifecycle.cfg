SPECIFICATION Spec
CONSTANTS
    Decks = {operator_deck, prompt_deck}
    Prompted = {prompt_deck}
    Concepts = {c1, c2}
    Tasks = {t1, t2}
    Clis = {k1, k2}
    Admins = {a1, a2}
    CliFinal = "ready"
    None = none
SYMMETRY Symmetric
INVARIANTS
    AtMostOneLive
    DecksPlayable
PROPERTIES
    SomeDeckStaysLive
CHECK_DEADLOCK FALSE
