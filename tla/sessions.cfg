CONSTANTS
    Agent = {a1, a2}
    Topic = {t1}
    Ttl <- OneTtl
    MaxInvites = 1
    MaxTime = 1
    Socket = {s1, s2, s3}
    NoSocket = NoSocket
    MaxMsgs = 0
    MaxJoins = 3
    HistoryLimit = 1
    MayFail = {"getMessages"}
SPECIFICATION Spec
SYMMETRY SessionSymmetry
INVARIANTS
    SessionsTypeOK
    SessionIsAlive
    PublicMembersConnected
    JoinedIsMember
    RosterComplete
