CONSTANTS
    c1 = c1
    c2 = c2
    c3 = c3
    c4 = c4
    Call = {c1, c2, c3, c4}
    Limit = 2
    Window = 3
    Margin = 1
    Second = 2
    Concurrency = 2
    MaxClock = 7
SYMMETRY Symmetry
CHECK_DEADLOCK FALSE
SPECIFICATION Spec
INVARIANTS
    LimiterInv
    AdmittedInWindow
    DenialJustified
PROPERTIES
    HintIsHonest
