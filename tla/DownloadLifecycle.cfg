CONSTANTS
    r1 = r1
    r2 = r2
    Request = {r1}
    Unreadable = {}
    Orphan = {r1}
    JobTimeout = 2
    Grace = 1
    Slack = 2
    CancelLag = 1
    MaxTries = 2
    BatchSize = 1
    EnqueueFaults = {"lost", "unsure"}
    DiskGuard = TRUE
    MaxStops = 2
SPECIFICATION FairSpec
INVARIANTS
    Inv
    ClaimHolds
    OneAttemptAtATime
    ResentOnlyAfterStop
    ToldAtMostOnce
PROPERTIES
    TerminalIsFinal
    NoUploadAfterFailureText
    FinalPhaseIsLast
    EverythingSettles
