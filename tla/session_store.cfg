CONSTANTS
    Session = {s1, s2}
    Agent = {a1, a2}
    NoRecord = NoRecord
    Score <- Scores
    PutCount = {5}
    Absent = Absent
    MaxCalls = 2
    MaxPosts = 2
    MaxRuns = 2
    MaxEvictions = 1
    DbMayFail = TRUE
SPECIFICATION Spec
SYMMETRY StoreSymmetry
CHECK_DEADLOCK FALSE
INVARIANTS
    SessionTypeOK
    
    EvictsWhatItSaw
 
