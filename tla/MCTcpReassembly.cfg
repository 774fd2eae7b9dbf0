SPECIFICATION Spec
CONSTANTS
    MARK = 1
    ISN = 13
    WORD = 16
    HASHSIZE = 2
    MAX_AGE = 1
    Buffers = {b1, b2, b3}
    Conns = {0, 1}
    MarkAt <- MCMarkAt
    MAXRPC = 4
    MaxTime = 3
    MaxSegment = 3
    Networks <- MCNetworks
INVARIANTS
    CopyInBounds
    BuffersOwned
    FragmentExact
    DeliveredContiguous
    MessageDelivered
SYMMETRY Symmetry
CHECK_DEADLOCK FALSE
