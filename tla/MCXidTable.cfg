SPECIFICATION FairSpec
CONSTANTS
    Hosts <- MCHosts
    Ports <- MCPorts
    HASHSIZE = 2
    MAX_AGE = 1
    WORD = 8
    StartTime = 1
    MaxBack = 1
    Xids <- MCXids
    Procs = {p}
    MaxTime = 3
    MaxChain = 2
INVARIANTS
    CountExact
    CullAssert
PROPERTIES
    GarbageCollected
    FreshKept
    NextSurvives
    MatchingSpec
