SPECIFICATION Spec
CONSTANTS
    Ids = {1, 2}
    NoId = NoId
    Texts = {"a"}
    Threads = {lan, cloud}
    Frames <- Copies
    LruCap = 1
    UncertainCap = 1
    MaxAge = 2
    ElevatedMemory = 1
    ElevatedCap = 1
    Inj1Window = 1
    LegacyLedgers <- OneRetired
    Unreadable = {"live"}
    SavesMayFail = TRUE
    MaxClock = 0
    MaxArrivals = 3
    MaxCrashes = 1
    lan = lan
    cloud = cloud
SYMMETRY ThreadSymmetry
INVARIANTS
    TypeOK
    OneRunPerId
    NeverTypedTwice
    NoLostWakeup
    NotInjectedIsTrue
    LedgerMatchesMemory
    OkIsTrue
PROPERTIES
    RetiredOnlyWhenAbsorbed
CHECK_DEADLOCK FALSE
