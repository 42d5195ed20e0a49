CHECK_DEADLOCK FALSE
SPECIFICATION HFairSpec
CONSTANTS
    s1 = s1
    s2 = s2
    s3 = s3
    Scenarios <- ThreeScenarios
    Namespaces <- TwoNamespaces
    Faults <- ThreeFaults
    By <- Owner
    Home <- Target
    Counted <- AllButThird
    HasSubstrate <- OnlyS2
    Existing <- Only1
    KeepArenas = FALSE
    Concurrency = 2
INVARIANTS
    SubjectAlone
    Fenced
    BorrowedKept
    NoSilentLeak
PROPERTIES
    RunReturns
