SPECIFICATION LiveSpec
CONSTANTS
    Ids = {1}
    NoId = NoId
    Texts = {"a"}
    Threads = {lan, cloud}
    Frames <- Copies
    LruCap = 1
    UncertainCap = 1
    MaxAge = 2
    ElevatedMemory = 1
    ElevatedCap = 1
    Inj1Window = 1
    LegacyLedgers <- NoLegacy
    Unreadable = {}
    SavesMayFail = FALSE
    MaxClock = 0
    MaxArrivals = 3
    MaxCrashes = 1
    lan = lan
    cloud = cloud
PROPERTIES
    CallReturns
    WaitEnds
CHECK_DEADLOCK FALSE
