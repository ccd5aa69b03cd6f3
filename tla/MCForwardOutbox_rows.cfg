SPECIFICATION Spec
CONSTANTS
    Usage = {}
    Presence = {p1}
    Identity = {i1}
    Home = {h1}
    Bad = {}
    Cursed = {}
    MaxTries = 1
    BatchMax = 2
    MaxLines = 2
    MaxLate = 1
    MaxCrashes = 1
    MaxDirect = 1
    OutageBound = TRUE
PROPERTIES
    RowsMoveForward
CHECK_DEADLOCK FALSE
