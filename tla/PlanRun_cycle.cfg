CHECK_DEADLOCK FALSE
SPECIFICATION PFairSpec
CONSTANTS
    Steps <- FourSteps
    Keys <- TwoKeys
    Plans <- SomePlans
    Key <- SharedKey
    Tier <- Mixed
    MaxSeverityPerCycle = "namespace"
    MaxFaultsPerCycle = 2
    MaxConcurrentFaults = 2
    RefusalLimit = 2
    MaxSeeded = 2
    MaxPlans = 2
INVARIANTS
    LayeringCorrect
    DependenciesFirst
    CycleBudget
PROPERTIES
    RefusalsBounded
    PlanTerminates
