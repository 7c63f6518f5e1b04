CONSTANTS
    Agent = {a1, a2}
    Topic = {t1}
    Ttl <- OneTtl
    MaxInvites = 1
    MaxTime = 1
    Socket = {s1, s2, s3}
    NoSocket = NoSocket
    MaxMsgs = 2
    MaxJoins = 1
    HistoryLimit = 1
    MayFail = {"saveMessage"}
SPECIFICATION Spec
SYMMETRY SessionSymmetry
INVARIANTS
    NoGap
    PrivateSeenByAdmitted
