SPECIFICATION Spec
CONSTANTS
    Variants <- Sent
    MEG = 4
    Garbage = {0, 5}
    MaxMessages = 2
INVARIANT Survives
CHECK_DEADLOCK FALSE
