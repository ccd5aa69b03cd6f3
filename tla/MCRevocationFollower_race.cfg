SPECIFICATION Spec
CONSTANTS
    Ids = {1, 2}
    ParentOf <- ComputerAndPhone
    NoId = 0
    None = None
    Sockets = {x, y}
    Chunk = 1
    FullVerifyMax = 1
    StaleChecks = 1
    TimedPulls = FALSE
    MaxAdmissions = 2
    MaxOutages = 1
    MaxBoots = 0
SYMMETRY SocketSymmetry
INVARIANTS
    TypeOK
    ClosesOnlyRevoked
    NoRequestLost
CHECK_DEADLOCK FALSE
