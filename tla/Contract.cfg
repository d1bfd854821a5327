CONSTANTS
    r1 = r1
    r2 = r2
    Request = {r1, r2}
    Unreadable = {r1}
    Orphan = {r1, r2}
    JobTimeout = 1
    Grace = 0
    Slack = 1
    CancelLag = 0
    MaxTries = 2
    BatchSize = 1
    EnqueueFaults = {"lost"}
    DiskGuard = TRUE
    MaxStops = 1
SPECIFICATION Spec
INVARIANTS
    EnqueueErrorIsFinal
PROPERTIES
    KeepsContract
