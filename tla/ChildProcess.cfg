CONSTANTS
    Timeout = 2
    Grace = 1
    JobTimeout = 5
    PoolWait = 3
    MaxEvents = 2
SPECIFICATION FairSpec
CHECK_DEADLOCK FALSE
INVARIANTS
    ChildInv
    TimeoutsHold
    OutcomeIsTheChilds
    ChildGone
PROPERTIES
    NoEventAfterReturn
    EveryCallReturns
