CONSTANTS
    Key = {k1}
    Route = {"rest"}
    Value = {v1}
    NoValue = NoValue
    MaxCalls = 3
    MaxNodes = 0
    InProcess = FALSE
    DbMayFail = TRUE
SPECIFICATION Spec
SYMMETRY MemorySymmetry
CHECK_DEADLOCK FALSE
INVARIANT MemoryTypeOK
INVARIANT HistoryIsFaithful
