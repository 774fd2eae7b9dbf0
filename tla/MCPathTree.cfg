SPECIFICATION PathTreeSpec
CONSTANTS
    Clients = {"c1", "c2"}
    Root = "r"
    Dirs = {"r", "d"}
    Files = {"f"}
    Worlds <- FewWorlds
    Mount <- Export
    Does <- Operations
    MaxOps = 2
    MaxFaults = 1
    MaxPause = 2
    callLifetime = 1
    Argv = "c1"
    MaxReplay = 6
    MaxReplayFaults = 0
INVARIANTS
    RelationsExact
    PathsTrue
    OperationsExact
PROPERTIES
    AllRead
CHECK_DEADLOCK FALSE
