SPECIFICATION Spec
CONSTANTS
    MARK = 1
    ISN = 13
    WORD = 16
    HASHSIZE = 2
    MAX_AGE = 1
    Buffers = {b1, b2, b3}
    Conns = {0, 1}
    MarkAt <- MCShortLong
    MAXRPC = 4
    MaxTime = 2
    MaxSegment = 6
    Networks <- MCPipelined
INVARIANTS
    FragmentExact
CHECK_DEADLOCK FALSE
