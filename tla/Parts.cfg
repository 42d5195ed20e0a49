SPECIFICATION MSpec
CONSTANTS
    n1 = n1
    n2 = n2
    w1 = w1
    w2 = w2
    u1 = u1
    NS = {n1, n2}
    Workload = {w1, w2}
    None = None
    Any = Any
    Submitted <- SomeManifests
    MaxAnnotations = 1
    OWorkload = {v1, v2}
    OPod = {p1, p2}
    Bare = Bare
    MaxMoves = 1
    MaxMarks = 1
    TPods = {q1, q2}
    Manifests <- EveryManifest
    RequestTimeout = 2
    Timeout = 3
    Interval = 1
    MaxChanges = 1
    MaxListErrors = 1
    Callers = {c1, c2}
    AFaults = {x1, x2}
    ACounted = {x1}
    MaxEdits = 1
    BSpaces = {g1, g2}
    BCalls = {k1, k2}
    Refs = {r1, r2}
    NoBaseline = NoBaseline
    StabilityWindow = 2
    ReadyTimeout = 3
    PollInterval = 1
    MaxRestarts = 1
    UID = {u1, u2}
    Enders = {e1, e2}
    Capacity = 2
    MaxApplies = 3
    cascade = cascade
    healthy = healthy
    backend = backend
    service = service
    chaos = chaos
    crashLoop = crashLoop
    crashLoopBackOff = crashLoopBackOff
    noEndpoints = noEndpoints
    oomKilled = oomKilled
    latency = latency
    Pack = {cascade, healthy}
    FaultCount <- Counts
    Gates = 2
    Expect <- Wanted
    AlsoTrue <- Also
    WantSeverity <- Worst
    oracleKinds <- Kinds
    Reasons <- Words
    Resembles <- Alike
    Family <- Families
    Generic = Generic
    Answers <- SomeAnswers
    NoReport = NoReport
    NoSeverity = NoSeverity
CHECK_DEADLOCK FALSE
INVARIANTS
    ReachJudged
    OutageAsPlanned
    GateSound
    ArenaSound
    BaselineSound
    
    ScoresTrue
PROPERTIES
    DwellKept
