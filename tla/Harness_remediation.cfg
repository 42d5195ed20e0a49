CHECK_DEADLOCK FALSE
SPECIFICATION HSpec
CONSTANTS
    s1 = s1
    s2 = s2
    s3 = s3
    Scenarios <- OneScenario
    Namespaces <- Only1
    Faults <- Only1
    By <- Owner
    Home <- Target
    Counted <- Only1
    HasSubstrate <- None
    Existing <- None
    KeepArenas = FALSE
    Concurrency = 1
INVARIANTS
    RemediationSeen
