CONSTANTS
    Label       <- MCLabel
    Lowered     <- MCLowered
    Key         = {"youtube"}
    Lower       <- MCLower
    Link        <- MCLink
    Allowed     <- MCAllowed
    Blocked     <- MCBlocked
    Format      <- MCFormat
    MaxFormats  = 2
    Size        = {0, 1, 2, 3}
    Limit       = 2
    Length      = {1, 3, 4, 5}
    Title       <- MCTitle
    MaxFilename = 5
    SuffixBytes = 2
SPECIFICATION Spec
CHECK_DEADLOCK FALSE
INVARIANTS
    MediaInv
    AdmissionIsByDomain
    CardKeepsItsPromise
    DeliveredAsAsked
    TooLargeIsCertain
    ErrorFitsMessage
    NameIsSafe
