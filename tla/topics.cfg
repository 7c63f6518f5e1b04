CONSTANTS
    Agent = {a1, a2}
    Topic = {t1, t2}
    Ttl <- ManyTtls
    MaxInvites = 3
    MaxTime = 3
SPECIFICATION TopicsSpec
SYMMETRY AgentTopicSymmetry
INVARIANTS
    TopicsTypeOK
    MembershipMirror
    PrivateMembersAdmitted
    TokenAdmitsOnce
    AdmittedBeforeExpiry
    AdmissionsBackedByInvites
PROPERTY PrivacyIsFixed
