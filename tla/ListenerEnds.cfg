CONSTANTS
    r1 = r1
    r2 = r2
    Request = {r1, r2}
    Percent = {0, 9}
    MinInterval = 2
    MinStep = 5
    Troubled = {r1}
    Lossy = FALSE
    MaxRuns = 1
    MaxBacklog = 2
    MaxBoots = 1
CHECK_DEADLOCK FALSE
SPECIFICATION FairSpec
PROPERTIES
    FinalReachesCard
