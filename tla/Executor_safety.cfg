SPECIFICATION Spec
CONSTANTS
    f1 = f1
    f2 = f2
    ns1 = ns1
    ns2 = ns2
    Faults <- TwoFaults
    Namespaces <- TwoNS
    Targets <- SharedTargets
    Engine <- TwoEngines
    Duration <- UnderATick
    MaxConcurrentFaults = 0
    MinCooldown = 0
    ReapGrace = 0
    MaxTime = 1
INVARIANTS
    SlotsAccounted
    RunningIsLeased
    RowsTrue
