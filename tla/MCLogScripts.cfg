SPECIFICATION Spec
CONSTANTS
    Logs = {1, 2}
    Ids = {0, 1, 2, 20}
    Unmapped = {0, 20}
    Content <- MCContent
    FirstCode = 10
    NoFile = NoFile
    Scripts = {"z", "a"}
    Program <- MCProgram
    MaxFaults = 1
    MaxEdits = 1
INVARIANTS LogsKept OneCode
PROPERTY OriginalsGo
