SPECIFICATION Spec
CONSTANTS
    Items = {1}
    Capacity = 1
    TransientCap = 1
    Verdicts = {"transient", "offline"}
    Routes = {"live", "press"}
    WritesMayFail = TRUE
    ReadsMayFail = FALSE
    MayHold = TRUE
    MayAge = TRUE
    Prompt = TRUE
    MaxJobs = 2
    MaxFrames = 1
    MaxCrashes = 1
INVARIANTS
    InflightGuarded
    SentIsStored
    EdgeSeesOwed
CHECK_DEADLOCK FALSE
