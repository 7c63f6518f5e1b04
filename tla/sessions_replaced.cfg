CONSTANTS
    Agent = {a1, a2}
    Topic = {t1}
    Ttl <- NoTtl
    MaxInvites = 0
    MaxTime = 1
    Socket = {s1, s2, s3}
    NoSocket = NoSocket
    MaxMsgs = 1
    MaxJoins = 1
    HistoryLimit = 1
    MayFail = {}
SPECIFICATION Spec
SYMMETRY SessionSymmetry
INVARIANT ReplacementStaysRegistered
