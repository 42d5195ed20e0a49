SPECIFICATION Spec
CONSTANTS
    f1 = f1
    f2 = f2
    ns1 = ns1
    ns2 = ns2
    Faults <- TwoFaults
    Namespaces <- TwoNS
    Targets <- SharedTargets
    Engine <- NoEngine
    Duration <- OneTick
    MaxConcurrentFaults = 1
    MinCooldown = 2
    ReapGrace = 1
    MaxTime = 2
INVARIANTS
    BudgetRespected
PROPERTIES
    CooldownRespected
