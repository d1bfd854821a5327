CONSTANTS
    r1 = r1
    r2 = r2
    Request = {r1}
    Unreadable = {}
    Orphan = {}
    JobTimeout = 2
    Grace = 1
    Slack = 2
    CancelLag = 1
    MaxTries = 1
    BatchSize = 1
    EnqueueFaults = {}
    DiskGuard = TRUE
    MaxStops = 0
SPECIFICATION Spec
PROPERTIES
    PublishNeverCostsDelivery
