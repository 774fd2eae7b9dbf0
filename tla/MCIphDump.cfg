SPECIFICATION FairSpec
CONSTANTS
    Counts = {0, 3}
    Iterations <- FewIterations
    UintMax = 7
    PACKET_POLL_CNT = 2
    SavedPackets = {0, 3}
    OPEN_MAX = 8
    MaxLines = 2
INVARIANTS
    FilesAsUser
    OutFileOpens
    LinesKept
    NohupKept
PROPERTIES
    EndsInTime
CHECK_DEADLOCK FALSE
