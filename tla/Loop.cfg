SPECIFICATION LSpec
CONSTANTS
    Offered <- SomeSettings
    Install <- Off
    MaxEdits = 3
    CycleMod = 2
    ar1 = ar1
    ar2 = ar2
    MaxLines = 3
    MaxRecords = 3
    MaxFileErrors = 1
    Unset = 0
    Arenas = {ar1, ar2}
    Drafts <- SomeDrafts
    Sights <- SomeSights
    MaxFaultDuration = 1
    DefaultDuration = 2
    MaxRetries = 1
    MaxPolls = 1
    MaxTurns = 2
    MaxStops = 1
    MaxReplicas = 2
    Built <- Pairs
CHECK_DEADLOCK FALSE
INVARIANTS
    WakeNotLost
    TurnsTold
    GateTells
PROPERTIES
    IntervalKept
    RotationFair
    TurnReturns
    GatePasses
