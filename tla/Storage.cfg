CONSTANTS
    r1 = r1
    Request = {r1}
    JobTimeout = 2
    CancelLag = 1
    Grace = 1
    MaxScan = 1
    MaxTries = 3
    MaxStops = 2
    MaxFailures = 1
SPECIFICATION FairSpec
CHECK_DEADLOCK FALSE
INVARIANTS
    StorageInv
    LiveFilesKept
PROPERTIES
    LeftoversGo
