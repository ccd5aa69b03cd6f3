SPECIFICATION LiveSpec
CONSTANTS
    Items = {1}
    Capacity = 1
    TransientCap = 1
    Verdicts = {"ok", "later"}
    Routes = {"press"}
    WritesMayFail = FALSE
    ReadsMayFail = FALSE
    MayHold = FALSE
    MayAge = FALSE
    Prompt = FALSE
    MaxJobs = 2
    MaxFrames = 1
    MaxCrashes = 1
PROPERTIES
    OwedIsAnswered
CHECK_DEADLOCK FALSE
