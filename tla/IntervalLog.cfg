SPECIFICATION FairSpec
CONSTANTS
    Secs = 2
    Iters = 2
    Counts = {0, 2}
    LifeTimes = {0, 3}
    PACKET_POLL_CNT = 2
    OwnTmpName = TRUE
    Disturbed = {TRUE, FALSE}
    DSTEnd = 0
    Shift = 0
    MaxLag = 0
    MaxBack = 0
    MaxTime = 6
    MaxRecords = 3
    MaxRuns = 2
INVARIANTS
    NothingLost
    SummaryCounts
    LogsInOrder
    LastPushedOut
PROPERTIES
    LogFinal
    RecordPublished
CHECK_DEADLOCK FALSE
