SPECIFICATION CFairSpec
CONSTANTS
    f1 = f1
    f2 = f2
    ns1 = ns1
    ns2 = ns2
    Faults <- OneFault
    Namespaces <- OneNS
    Targets <- SameTarget
    Engine <- NetworkPolicy
    Duration <- TwoTicks
    MaxConcurrentFaults = 0
    MinCooldown = 0
    ReapGrace = 1
    MaxTime = 3
    MaxCrashes = 2
INVARIANTS
    Recounted
PROPERTIES
    RefusalsGenuine
    NothingStays
