SPECIFICATION DSpec
CONSTANTS
    f1 = f1
    d1 = d1
    a1 = a1
    p1 = p1
    p2 = p2
    arena = arena
    Faults = {f1}
    ShapesOf <- EveryShape
    ReapGrace = 1
    StuckAfter = 1
    MaxTime = 4
    MaxErrors = 1
    MaxCrashes = 1
    EFaults <- EnvoyFaults
    Deployed <- EveryProbe
    EKind <- DelayAndAbort
    Pods = {p1, p2}
    MaxPodErrors = 1
    Conns = {p1}
    QueueCap = 1
    Replayed = 2
    Slack = 1
    Pages = {p1}
    Tools = {a1}
    TranslateRetries = 1
    Replies <- SomeReplies
    DefaultNS = arena
    Noise = f1
    MaxNoise = 3
INVARIANTS
    ReportsTrue
    Retractable
    SubmittedTrue
PROPERTIES
    KeepsContract
    EventuallyTold
