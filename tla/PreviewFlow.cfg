CONSTANTS
    u1 = u1
    u2 = u2
    u3 = u3
    u4 = u4
    c1 = c1
    c2 = c2
    Key <- MCKey
    Lower <- MCLower
    Update = {u1, u2, u3, u4}
    Card = {c1, c2}
    OldCard = {c2}
    SideSeen = {0, 720, 900, 1080}
    Overlap = 3
    MaxBoots = 2
SYMMETRY Symmetry
CHECK_DEADLOCK FALSE
SPECIFICATION Spec
INVARIANTS
    FlowInv
    OneRequestPerCard
    CancelIsFinal
    DrawnButtonsAreAllowed
PROPERTIES
    OnlyPermittedRequests
