CONSTANTS
    Timeout = 2
    Grace = 1
    JobTimeout = 5
    PoolWait = 3
    MaxEvents = 2
SPECIFICATION Spec
CHECK_DEADLOCK FALSE
INVARIANTS
    DrainEndsByItself
