CONSTANTS
    Key = {k1}
    Route = {"ws", "rest"}
    Value = {v1, v2}
    NoValue = NoValue
    MaxCalls = 4
    MaxNodes = 2
    InProcess = TRUE
    DbMayFail = FALSE
SPECIFICATION Spec
SYMMETRY MemorySymmetry
CHECK_DEADLOCK FALSE
INVARIANT AnnouncedIsCurrent
INVARIANT MirrorIsCurrent
INVARIANT DeletedIsUnmirrored
PROPERTY NoTtlNoExpiry
