SPECIFICATION LiveSpec
CONSTANTS
    Usage = {u1}
    Presence = {}
    Identity = {}
    Home = {}
    Bad = {b}
    Cursed = {c}
    MaxTries = 2
    BatchMax = 2
    MaxLines = 3
    MaxLate = 1
    MaxCrashes = 2
    MaxDirect = 0
    OutageBound = TRUE
INVARIANTS
    TypeOK
    OutageBurnsNoBudget
PROPERTIES
    MeteredOnce
    OwedLeavesTheQueue
CHECK_DEADLOCK FALSE
