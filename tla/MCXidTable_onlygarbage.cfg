SPECIFICATION Spec
CONSTANTS
    Hosts <- MCHosts
    Ports <- MCPorts
    HASHSIZE = 2
    MAX_AGE = 1
    WORD = 8
    StartTime = 1
    MaxBack = 0
    Xids <- MCXidsTwo
    Procs = {p}
    MaxTime = 3
    MaxChain = 2
PROPERTIES
    OnlyGarbageFreed
