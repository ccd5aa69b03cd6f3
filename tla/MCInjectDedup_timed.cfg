SPECIFICATION Spec
CONSTANTS
    Ids = {1}
    NoId = NoId
    Texts = {"a", "b"}
    Threads = {lan, cloud}
    Frames <- Mixed
    LruCap = 1
    UncertainCap = 1
    MaxAge = 2
    ElevatedMemory = 1
    ElevatedCap = 1
    Inj1Window = 1
    LegacyLedgers <- NoLegacy
    Unreadable = {}
    SavesMayFail = FALSE
    MaxClock = 2
    MaxArrivals = 3
    MaxCrashes = 0
    lan = lan
    cloud = cloud
SYMMETRY ThreadSymmetry
INVARIANTS
    ElevatedRefusalHolds
    SuppressedIsRepeat
PROPERTIES
    QuarantineNotRefreshed
CHECK_DEADLOCK FALSE
