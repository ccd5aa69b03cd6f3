SPECIFICATION Spec
CONSTANTS
    Items = {1, 2}
    Capacity = 1
    TransientCap = 1
    Verdicts = {"busy", "terminal"}
    Routes = {"press"}
    WritesMayFail = FALSE
    ReadsMayFail = FALSE
    MayHold = FALSE
    MayAge = FALSE
    Prompt = TRUE
    MaxJobs = 2
    MaxFrames = 1
    MaxCrashes = 0
INVARIANTS
    TypeOK
    PressesFollowed
    DrainUnderWay
CHECK_DEADLOCK FALSE
