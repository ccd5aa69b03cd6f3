SPECIFICATION LiveSpec
CONSTANTS
    Ids = {1}
    ParentOf <- ComputerAndPhone
    NoId = 0
    None = None
    Sockets = {x}
    Chunk = 1
    FullVerifyMax = 1
    StaleChecks = 1
    TimedPulls = TRUE
    MaxAdmissions = 1
    MaxOutages = 0
    MaxBoots = 1
PROPERTIES
    RevokedIsClosed
    HintHeard
CHECK_DEADLOCK FALSE
