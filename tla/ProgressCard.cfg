CONSTANTS
    r1 = r1
    r2 = r2
    Request = {r1}
    Percent = {0, 4, 9}
    MinInterval = 2
    MinStep = 5
    Troubled = {r1}
    Lossy = TRUE
    MaxRuns = 2
    MaxBacklog = 3
    MaxBoots = 2
CHECK_DEADLOCK FALSE
SPECIFICATION Spec
INVARIANTS
    ProgressInv
PROPERTIES
    ListenerKeepsFinal
