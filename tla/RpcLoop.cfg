SPECIFICATION FairSpec
CONSTANTS
    WORD = 32
    HDR = 2
    MaxPayload = 6
    MAXRPC = 7
INVARIANTS
    BufferFreed
    AtMessageEnd
    FirstStatusOwn
PROPERTIES
    LoopTerminates
