SPECIFICATION Spec
CONSTANTS
    Variants <- Sent
    MEG = 4
    Garbage = {0, 5}
    MaxMessages = 2
INVARIANTS
    FieldsRight
    WholePrinted
    CutMarked
    BytesExact
CHECK_DEADLOCK FALSE
