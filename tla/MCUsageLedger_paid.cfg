SPECIFICATION Spec
CONSTANTS
    Ops = {a}
    NoOp = NoOp
    NoRow = NoRow
    Ranges <- WholeAndTail
    Kinds = {"live", "auto_retry", "user_retranscribe"}
    Drifts <- EitherWay
    Drift = 1
    Stops = {19, 41}
    SamplesPerMs = 4
    Slack = 1
    FreeReplays = 1
    Credits = 1
    MaxStretches = 3
    RegistryDays = 0
    ClaimDays = 1
    MayCorrupt = TRUE
    Nodes = {"writer", "replica"}
    MaxSessions = 3
    MaxOpen = 2
    MaxDay = 2
INVARIANTS
    TypeOK
    RowBalances
    FreeIsBounded
    OperationPaysForLongest
    AudioPaidOnce
CHECK_DEADLOCK FALSE
