---------------------------- MODULE TopicsProofs ----------------------------
(***************************************************************************)
(* Proofs about TopicsManager.  TopicsInv is inductive: beside the types   *)
(* and the mirror of the two maps it ties the single invite slot of each   *)
(* topic to the invite that filled it, and keeps the tokens of past        *)
(* admissions apart from the tokens that are still in a slot.              *)
(***************************************************************************)
EXTENDS Topics, FiniteSetTheorems, TLAPS

(* The token in a topic's slot was issued for that topic, with the ttl that  *)
(* gave the expiry in the slot.                                                     *)
SlotMatchesInvite ==
    \A t \in Topic :
        /\ inviteToken[t] \in 0..Len(issued)
        /\ inviteToken[t] # NoToken =>
             /\ issued[inviteToken[t]].topic = t
             /\ inviteExpiresAt[t]
                  = ExpiresAt(issued[inviteToken[t]].at, issued[inviteToken[t]].ttl)

(* A token that admitted somebody is in no slot any more. *)
SpentTokensGone ==
    \A i \in 1..Len(admissions), t \in Topic : admissions[i].token # inviteToken[t]

(* Only a topic that exists has members. *)
MembersOfCreated == \A t \in Topic : agents[t] # {} => t \in created

TopicsInv ==
    /\ TopicsTypeOK
    /\ MembershipMirror
    /\ MembersOfCreated
    /\ SlotMatchesInvite
    /\ SpentTokensGone
    /\ AdmittedBeforeExpiry
    /\ TokenAdmitsOnce
    /\ PrivateMembersAdmitted

-----------------------------------------------------------------------------
(* The empty registry of a hub that has just started has its types. *)
LEMMA TopicsInitTypes == TopicsInit => TopicsTypeOK
BY DEF TopicsInit, TopicsTypeOK, NoToken, Invite, Admission

(* Every action keeps the types. *)
LEMMA TopicsStepTypes == TopicsTypeOK /\ [TopicsNext]_topicVars => TopicsTypeOK'
<1> SUFFICES ASSUME TopicsTypeOK, [TopicsNext]_topicVars
             PROVE  TopicsTypeOK'
    OBVIOUS
<1> USE BoundsAssumption DEF TopicsTypeOK, roomVars, inviteVars, topicVars
<1>1. ASSUME NEW t \in Topic, NEW private \in BOOLEAN, CreateTopic(t, private)
      PROVE  TopicsTypeOK'
    BY <1>1 DEF CreateTopic
<1>2. ASSUME NEW a \in Agent, NEW t \in Topic, JoinTopic(a, t)
      PROVE  TopicsTypeOK'
    BY <1>2 DEF JoinTopic, AddMember
<1>3. ASSUME NEW a \in Agent, NEW t \in Topic, NEW token \in 1..Len(issued),
             JoinPrivateTopic(a, t, token)
      PROVE  TopicsTypeOK'
    <2>1. [topic |-> t, agent |-> a, token |-> token, at |-> now] \in Admission
        BY <1>3 DEF Admission
    <2>2. admissions' \in Seq(Admission)
        BY <1>3, <2>1 DEF JoinPrivateTopic
    <2> QED
        BY <1>3, <2>2 DEF JoinPrivateTopic, AddMember, ConsumeInvite, NoToken
<1>4. ASSUME NEW a \in Agent, NEW t \in Topic, NEW ttl \in Ttl, InviteToTopic(t, a, ttl)
      PROVE  TopicsTypeOK'
    <2>1. ExpiresAt(now, ttl) \in Int
        BY <1>4 DEF ExpiresAt, NotANumber, TtlValue
    <2>2. [topic |-> t, agent |-> a, ttl |-> ttl, at |-> now] \in Invite
        BY DEF Invite
    <2>3. issued' \in Seq(Invite)
        BY <1>4, <2>2 DEF InviteToTopic
    <2> QED
        BY <1>4, <2>1, <2>3 DEF InviteToTopic
<1>5. ASSUME NEW a \in Agent, NEW t \in Topic, LeaveTopic(a, t)
      PROVE  TopicsTypeOK'
    BY <1>5 DEF LeaveTopic
<1>6. ASSUME NEW a \in Agent, RemoveAgent(a)
      PROVE  TopicsTypeOK'
    BY <1>6 DEF RemoveAgent
<1>7. CASE Tick
    BY <1>7 DEF Tick
<1>8. CASE UNCHANGED topicVars
    BY <1>8
<1> QED
    BY <1>1, <1>2, <1>3, <1>4, <1>5, <1>6, <1>7, <1>8 DEF TopicsNext

(* Type correctness of TopicsManager. *)
THEOREM TopicsTyping == TopicsSpec => []TopicsTypeOK
<1>1. QED
    BY TopicsInitTypes, TopicsStepTypes, PTL DEF TopicsSpec

-----------------------------------------------------------------------------
(* The membership half: the maps agree and only existing topics have        *)
(* members.                                                                 *)
LEMMA StepMembership ==
    ASSUME TopicsTypeOK, MembershipMirror, MembersOfCreated, [TopicsNext]_topicVars
    PROVE  MembershipMirror' /\ MembersOfCreated'
<1> USE DEF TopicsTypeOK, roomVars, inviteVars, topicVars, MembershipMirror, MembersOfCreated
<1>1. ASSUME NEW t \in Topic, NEW private \in BOOLEAN, CreateTopic(t, private)
      PROVE  MembershipMirror' /\ MembersOfCreated'
    BY <1>1 DEF CreateTopic
<1>2. ASSUME NEW a \in Agent, NEW t \in Topic, JoinTopic(a, t)
      PROVE  MembershipMirror' /\ MembersOfCreated'
    BY <1>2 DEF JoinTopic, AddMember
<1>3. ASSUME NEW a \in Agent, NEW t \in Topic, NEW token \in 1..Len(issued),
             JoinPrivateTopic(a, t, token)
      PROVE  MembershipMirror' /\ MembersOfCreated'
    BY <1>3 DEF JoinPrivateTopic, AddMember
<1>4. ASSUME NEW a \in Agent, NEW t \in Topic, LeaveTopic(a, t)
      PROVE  MembershipMirror' /\ MembersOfCreated'
    BY <1>4 DEF LeaveTopic
<1>5. ASSUME NEW a \in Agent, RemoveAgent(a)
      PROVE  MembershipMirror' /\ MembersOfCreated'
    BY <1>5 DEF RemoveAgent
<1>6. CASE UNCHANGED roomVars
    BY <1>6
<1> QED
    BY <1>1, <1>2, <1>3, <1>4, <1>5, <1>6 DEF TopicsNext, InviteToTopic, Tick

-----------------------------------------------------------------------------
InviteInv ==
    /\ SlotMatchesInvite
    /\ SpentTokensGone
    /\ AdmittedBeforeExpiry
    /\ TokenAdmitsOnce

(* A step that leaves the slots, the invites and the admissions alone keeps  *)
(* all that is said of them.                                                *)
LEMMA SameInvites ==
    ASSUME InviteInv, UNCHANGED <<inviteToken, inviteExpiresAt, issued, admissions>>
    PROVE  InviteInv'
BY DEF InviteInv, SlotMatchesInvite, SpentTokensGone,
       AdmittedBeforeExpiry, TokenAdmitsOnce, NoToken

(* An admission spends the token in the topic's slot: it was never spent     *)
(* before, and no other topic's slot holds it.                              *)
LEMMA StepAdmission ==
    ASSUME TopicsTypeOK, InviteInv,
           NEW a \in Agent, NEW t \in Topic, NEW token \in 1..Len(issued),
           JoinPrivateTopic(a, t, token)
    PROVE  InviteInv'
<1> DEFINE adm == [topic |-> t, agent |-> a, token |-> token, at |-> now]
           n   == Len(admissions)
<1> USE DEF TopicsTypeOK, NoToken
<1>1. /\ admissions' = Append(admissions, adm)
      /\ issued' = issued
      /\ inviteToken' = [inviteToken EXCEPT ![t] = 0]
      /\ inviteExpiresAt' = [inviteExpiresAt EXCEPT ![t] = 0]
    BY DEF JoinPrivateTopic, ConsumeInvite
<1>2. inviteToken[t] = token /\ token > 0
    BY DEF JoinPrivateTopic, InviteIsValid
<1>3. /\ Len(admissions') = n + 1
      /\ admissions'[n + 1] = adm
      /\ \A i \in 1..n : admissions'[i] = admissions[i]
    BY <1>1
<1>4. adm.topic = t /\ adm.token = token /\ adm.at = now
    OBVIOUS
<1>5. issued[token].topic = t /\ InTime(issued[token], now)
    <2> DEFINE inv == issued[token]
    <2>1. inv.topic = t /\ inviteExpiresAt[t] = ExpiresAt(inv.at, inv.ttl)
        BY <1>2 DEF InviteInv, SlotMatchesInvite
    <2>2. /\ inv.ttl.text \in BOOLEAN /\ inv.ttl.ms \in Int
          /\ inv.at \in Nat /\ now \in Nat
        <3>1. inv \in Invite
            OBVIOUS
        <3>2. inv.ttl \in TtlValue /\ inv.at \in Nat
            BY <3>1 DEF Invite
        <3> HIDE DEF inv
        <3> QED
            BY <3>2 DEF TtlValue
    <2>3. \/ ExpiresAt(inv.at, inv.ttl) = 0
          \/ now < ExpiresAt(inv.at, inv.ttl)
        BY <2>1 DEF JoinPrivateTopic, InviteIsValid
    <2>4. InTime(inv, now)
        BY <2>2, <2>3 DEF ExpiresAt, NotANumber, InTime
    <2> QED
        BY <2>1, <2>4
<1>6. SlotMatchesInvite'
    BY <1>1 DEF InviteInv, SlotMatchesInvite
<1>7. AdmittedBeforeExpiry'
    BY <1>1, <1>3, <1>4, <1>5 DEF InviteInv, AdmittedBeforeExpiry
<1>8. TokenAdmitsOnce'
    <2>1. \A i \in 1..n : admissions'[i].token # admissions'[n + 1].token
        <3>1. \A i \in 1..n : admissions[i].token # token
            BY <1>2 DEF InviteInv, SpentTokensGone
        <3> QED
            BY <3>1, <1>3, <1>4
    <2> SUFFICES ASSUME NEW i \in 1..(n + 1), NEW j \in 1..(n + 1),
                        admissions'[i].token = admissions'[j].token
                 PROVE  i = j
        BY <1>3 DEF TokenAdmitsOnce
    <2>2. CASE i = n + 1 \/ j = n + 1
        <3>1. i = n + 1 \/ i \in 1..n
            OBVIOUS
        <3>2. j = n + 1 \/ j \in 1..n
            OBVIOUS
        <3> QED
            BY <2>1, <2>2, <3>1, <3>2
    <2>3. CASE i # n + 1 /\ j # n + 1
        <3>1. i \in 1..n /\ j \in 1..n
            BY <2>3
        <3>2. admissions[i].token = admissions[j].token
            BY <3>1, <1>3
        <3> QED
            BY <3>1, <3>2 DEF InviteInv, TokenAdmitsOnce
    <2> QED
        BY <2>2, <2>3
<1>9. SpentTokensGone'
    <2> SUFFICES ASSUME NEW i \in 1..(n + 1), NEW u \in Topic
                 PROVE  admissions'[i].token # inviteToken'[u]
        BY <1>3 DEF SpentTokensGone
    <2>1. CASE u = t
        BY <2>1, <1>1, <1>3, <1>4, <1>7 DEF AdmittedBeforeExpiry
    <2>2. CASE u # t /\ i = n + 1
        <3>1. inviteToken[u] # token
            BY <2>2, <1>5 DEF InviteInv, SlotMatchesInvite
        <3> QED
            BY <2>2, <3>1, <1>1, <1>3, <1>4
    <2>3. CASE u # t /\ i # n + 1
        BY <2>3, <1>1, <1>3 DEF InviteInv, SpentTokensGone
    <2> QED
        BY <2>1, <2>2, <2>3
<1> QED
    BY <1>6, <1>7, <1>8, <1>9 DEF InviteInv

(* A new invite fills the slot with a token that nobody has used.            *)
LEMMA StepInvite ==
    ASSUME TopicsTypeOK, InviteInv,
           NEW a \in Agent, NEW t \in Topic, NEW ttl \in Ttl,
           InviteToTopic(t, a, ttl)
    PROVE  InviteInv'
<1> DEFINE inv == [topic |-> t, agent |-> a, ttl |-> ttl, at |-> now]
           n   == Len(issued)
<1> USE BoundsAssumption DEF TopicsTypeOK, NoToken
<1>1. /\ issued' = Append(issued, inv)
      /\ admissions' = admissions
      /\ inviteToken' = [inviteToken EXCEPT ![t] = n + 1]
      /\ inviteExpiresAt' = [inviteExpiresAt EXCEPT ![t] = ExpiresAt(now, ttl)]
    BY DEF InviteToTopic
<1>2. /\ Len(issued') = n + 1
      /\ issued'[n + 1] = inv
      /\ \A k \in 1..n : issued'[k] = issued[k]
    BY <1>1
<1>3. inv.topic = t /\ inv.at = now /\ inv.ttl = ttl
    OBVIOUS
<1>4. SlotMatchesInvite'
    <2> SUFFICES ASSUME NEW u \in Topic
                 PROVE  /\ inviteToken'[u] \in 0..(n + 1)
                        /\ inviteToken'[u] # NoToken =>
                             /\ issued'[inviteToken'[u]].topic = u
                             /\ inviteExpiresAt'[u]
                                  = ExpiresAt(issued'[inviteToken'[u]].at,
                                              issued'[inviteToken'[u]].ttl)
        BY <1>2 DEF SlotMatchesInvite
    <2>1. CASE u = t
        BY <2>1, <1>1, <1>2, <1>3
    <2>2. CASE u # t
        BY <2>2, <1>1, <1>2 DEF InviteInv, SlotMatchesInvite
    <2> QED
        BY <2>1, <2>2
<1>5. AdmittedBeforeExpiry'
    BY <1>1, <1>2 DEF InviteInv, AdmittedBeforeExpiry
<1>6. TokenAdmitsOnce'
    BY <1>1 DEF InviteInv, TokenAdmitsOnce
<1>7. SpentTokensGone'
    BY <1>1 DEF InviteInv, SpentTokensGone, AdmittedBeforeExpiry
<1> QED
    BY <1>4, <1>5, <1>6, <1>7 DEF InviteInv

(* The members of a private topic were admitted to it: only an admission     *)
(* adds one, and a topic that becomes private has no members yet.           *)
LEMMA StepPrivateMembers ==
    ASSUME TopicsTypeOK, MembersOfCreated, PrivateMembersAdmitted, [TopicsNext]_topicVars
    PROVE  PrivateMembersAdmitted'
<1> USE DEF TopicsTypeOK, roomVars, inviteVars, topicVars, PrivateMembersAdmitted
<1>1. ASSUME NEW t \in Topic, NEW private \in BOOLEAN, CreateTopic(t, private)
      PROVE  PrivateMembersAdmitted'
    <2>1. agents' = agents /\ admissions' = admissions
        BY <1>1 DEF CreateTopic
    <2>2. \A u \in isPrivate' \ isPrivate : agents[u] = {}
        BY <1>1 DEF CreateTopic, MembersOfCreated
    <2>3. ASSUME NEW u \in isPrivate', NEW b \in agents[u]
          PROVE  \E i \in 1..Len(admissions) :
                     admissions[i].topic = u /\ admissions[i].agent = b
        <3>1. u \in isPrivate
            BY <2>2, <2>3
        <3> QED
            BY <3>1
    <2> QED
        BY <2>1, <2>3
<1>2. ASSUME NEW a \in Agent, NEW t \in Topic, JoinTopic(a, t)
      PROVE  PrivateMembersAdmitted'
    <2>1. isPrivate' = isPrivate /\ admissions' = admissions
        BY <1>2 DEF JoinTopic
    <2>2. \A u \in isPrivate : agents'[u] = agents[u]
        BY <1>2 DEF JoinTopic, AddMember
    <2> QED
        BY <2>1, <2>2
<1>3. ASSUME NEW a \in Agent, NEW t \in Topic, NEW token \in 1..Len(issued),
             JoinPrivateTopic(a, t, token)
      PROVE  PrivateMembersAdmitted'
    <2> DEFINE adm == [topic |-> t, agent |-> a, token |-> token, at |-> now]
               n   == Len(admissions)
    <2>1. isPrivate' = isPrivate /\ agents' = [agents EXCEPT ![t] = @ \cup {a}]
        BY <1>3 DEF JoinPrivateTopic, AddMember
    <2>2. /\ Len(admissions') = n + 1
          /\ admissions'[n + 1].topic = t /\ admissions'[n + 1].agent = a
          /\ \A i \in 1..n : admissions'[i] = admissions[i]
        BY <1>3 DEF JoinPrivateTopic
    <2>3. ASSUME NEW u \in isPrivate', NEW b \in agents'[u]
          PROVE  \E i \in 1..(n + 1) :
                     admissions'[i].topic = u /\ admissions'[i].agent = b
        <3>1. CASE u = t /\ b = a
            BY <3>1, <2>2
        <3>2. CASE ~(u = t /\ b = a)
            <4>1. b \in agents[u]
                BY <3>2, <2>1, <2>3
            <4>2. PICK i \in 1..n : admissions[i].topic = u /\ admissions[i].agent = b
                BY <4>1, <2>1
            <4> QED
                BY <4>2, <2>2
        <3> QED
            BY <3>1, <3>2
    <2> QED
        BY <2>2, <2>3
<1>4. ASSUME NEW a \in Agent, NEW t \in Topic, LeaveTopic(a, t)
      PROVE  PrivateMembersAdmitted'
    BY <1>4 DEF LeaveTopic
<1>5. ASSUME NEW a \in Agent, RemoveAgent(a)
      PROVE  PrivateMembersAdmitted'
    BY <1>5 DEF RemoveAgent
<1>6. CASE UNCHANGED <<isPrivate, agents, admissions>>
    BY <1>6
<1> QED
    BY <1>1, <1>2, <1>3, <1>4, <1>5, <1>6 DEF TopicsNext, InviteToTopic, Tick

-----------------------------------------------------------------------------
(* Every step of TopicsManager keeps the inductive invariant. *)
LEMMA StepTopicsInv == TopicsInv /\ [TopicsNext]_topicVars => TopicsInv'
<1> SUFFICES ASSUME TopicsInv, [TopicsNext]_topicVars
             PROVE  TopicsInv'
    OBVIOUS
<1>1. TopicsTypeOK /\ InviteInv
    BY DEF TopicsInv, InviteInv
<1>2. TopicsTypeOK' /\ MembershipMirror' /\ MembersOfCreated' /\ PrivateMembersAdmitted'
    BY TopicsStepTypes, StepMembership, StepPrivateMembers DEF TopicsInv
<1>3. InviteInv'
    <2>1. CASE UNCHANGED <<inviteToken, inviteExpiresAt, issued, admissions>>
        BY <1>1, <2>1, SameInvites
    <2>2. ASSUME NEW a \in Agent, NEW t \in Topic, NEW token \in 1..Len(issued),
                 JoinPrivateTopic(a, t, token)
          PROVE  InviteInv'
        BY <1>1, <2>2, StepAdmission
    <2>3. ASSUME NEW a \in Agent, NEW t \in Topic, NEW ttl \in Ttl, InviteToTopic(t, a, ttl)
          PROVE  InviteInv'
        BY <1>1, <2>3, StepInvite
    <2> QED
        BY <2>1, <2>2, <2>3
        DEF TopicsNext, CreateTopic, JoinTopic, LeaveTopic, RemoveAgent, Tick,
            topicVars, inviteVars
<1> QED
    BY <1>2, <1>3 DEF TopicsInv, InviteInv

(* The inductive invariant holds in every reachable state. *)
THEOREM TopicsInvariant == TopicsSpec => []TopicsInv
<1>1. TopicsInit => TopicsInv
    <2> SUFFICES ASSUME TopicsInit
                 PROVE  TopicsInv
        OBVIOUS
    <2>1. TopicsTypeOK
        BY TopicsInitTypes
    <2> QED
        BY <2>1 DEF TopicsInit, TopicsInv, MembershipMirror, MembersOfCreated,
           SlotMatchesInvite, SpentTokensGone,
           AdmittedBeforeExpiry, TokenAdmitsOnce, PrivateMembersAdmitted, NoToken
<1> QED
    BY <1>1, StepTopicsInv, PTL DEF TopicsSpec

(* topic.agents and agentTopics always describe one relation.                *)
THEOREM MembershipMirrorHolds == TopicsSpec => []MembershipMirror
<1>1. TopicsInv => MembershipMirror
    BY DEF TopicsInv
<1> QED
    BY <1>1, TopicsInvariant, PTL

(* joinPrivateTopic accepts no invite token twice, for any number of agents, *)
(* topics and invites and whatever else is called in between.               *)
THEOREM TokenAdmitsOnceHolds == TopicsSpec => []TokenAdmitsOnce
<1>1. TopicsInv => TokenAdmitsOnce
    BY DEF TopicsInv
<1> QED
    BY <1>1, TopicsInvariant, PTL

(* Every admission used a token of its topic before the ttl of that token's  *)
(* invite ran out, for whatever ttlMs the inviters pass.                    *)
THEOREM AdmittedBeforeExpiryHolds == TopicsSpec => []AdmittedBeforeExpiry
<1>1. TopicsInv => AdmittedBeforeExpiry
    BY DEF TopicsInv
<1> QED
    BY <1>1, TopicsInvariant, PTL

(* Every member of a private topic was admitted to it by joinPrivateTopic.   *)
THEOREM PrivateMembersAdmittedHolds == TopicsSpec => []PrivateMembersAdmitted
<1>1. TopicsInv => PrivateMembersAdmitted
    BY DEF TopicsInv
<1> QED
    BY <1>1, TopicsInvariant, PTL

(* No call changes the privacy of a topic that exists.                       *)
THEOREM PrivacyIsFixedHolds == TopicsSpec => PrivacyIsFixed
<1>1. ASSUME TopicsTypeOK, [TopicsNext]_topicVars
      PROVE  [\A t \in created : t \in isPrivate <=> t \in isPrivate']_topicVars
    BY <1>1 DEF TopicsTypeOK, TopicsNext, CreateTopic, JoinTopic, JoinPrivateTopic,
       InviteToTopic, LeaveTopic, RemoveAgent, Tick, roomVars, topicVars
<1> QED
    BY <1>1, TopicsTyping, PTL DEF TopicsSpec, PrivacyIsFixed

-----------------------------------------------------------------------------
(* The entries of a list that are about agent a and topic t. *)
About(s, a, t) == {i \in 1..Len(s) : s[i].agent = a /\ s[i].topic = t}

(* An agent on the invited list has an invitation that admitted nobody yet.   *)
(* The token it uses may have been issued to another agent, so that the      *)
(* tokens alone do not tell.                                                *)
InvitationsLeft ==
    \A a \in Agent, t \in Topic :
        LET left == IF a \in invitedAgents[t] THEN 1 ELSE 0
        IN  Cardinality(About(admissions, a, t)) + left <= Cardinality(About(issued, a, t))

(* These sets are finite, so their sizes can be added up. *)
LEMMA AboutIsFinite ==
    ASSUME NEW S, NEW s \in Seq(S), NEW a, NEW t
    PROVE  IsFiniteSet(About(s, a, t)) /\ Cardinality(About(s, a, t)) \in Nat
<1>1. Len(s) \in Int /\ 1 \in Int /\ About(s, a, t) \in SUBSET (1..Len(s))
    BY DEF About
<1>2. IsFiniteSet(1..Len(s))
    BY <1>1, FS_Interval
<1>3. IsFiniteSet(About(s, a, t))
    BY <1>1, <1>2, FS_Subset
<1> QED
    BY <1>3, FS_CardinalityType

(* An entry more is counted for its own agent and topic. *)
LEMMA AboutAppended ==
    ASSUME NEW S, NEW s \in Seq(S), NEW x \in S, NEW a, NEW t
    PROVE  Cardinality(About(Append(s, x), a, t)) =
             Cardinality(About(s, a, t)) + (IF x.agent = a /\ x.topic = t THEN 1 ELSE 0)
<1> DEFINE n == Len(s) + 1
<1>1. /\ Len(s) \in Nat /\ Len(Append(s, x)) = n
      /\ \A i \in 1..Len(s) : Append(s, x)[i] = s[i]
      /\ Append(s, x)[n] = x
    OBVIOUS
<1>2. n \notin About(s, a, t)
    BY <1>1 DEF About
<1>3. CASE x.agent = a /\ x.topic = t
    <2>1. About(Append(s, x), a, t) = About(s, a, t) \cup {n}
        BY <1>1, <1>3 DEF About
    <2>2. IsFiniteSet(About(s, a, t))
        BY AboutIsFinite
    <2> HIDE DEF n
    <2>3. Cardinality(About(s, a, t) \cup {n}) = Cardinality(About(s, a, t)) + 1
        BY <1>2, <2>2, FS_AddElement
    <2> QED
        BY <1>3, <2>1, <2>3
<1>4. CASE ~(x.agent = a /\ x.topic = t)
    <2>1. About(Append(s, x), a, t) = About(s, a, t)
        BY <1>1, <1>4 DEF About
    <2> QED
        BY <1>4, <2>1, AboutIsFinite
<1> QED
    BY <1>3, <1>4

(* An invite adds to both sides at most one, an admission moves one over. *)
LEMMA StepInvitations ==
    ASSUME TopicsTypeOK, InvitationsLeft, [TopicsNext]_topicVars
    PROVE  InvitationsLeft'
<1> USE BoundsAssumption
<1> DEFINE Left(a, t) == IF a \in invitedAgents[t] THEN 1 ELSE 0
           Admitted(a, t) == Cardinality(About(admissions, a, t))
           Invited(a, t) == Cardinality(About(issued, a, t))
<1>1. /\ admissions \in Seq(Admission) /\ issued \in Seq(Invite)
      /\ invitedAgents \in [Topic -> SUBSET Agent] /\ now \in Nat
      /\ Ttl \subseteq TtlValue
    BY DEF TopicsTypeOK
<1>2. \A a \in Agent, t \in Topic :
        /\ Admitted(a, t) \in Nat /\ Invited(a, t) \in Nat
        /\ Admitted(a, t) + Left(a, t) <= Invited(a, t)
    BY <1>1, AboutIsFinite DEF InvitationsLeft
<1>3. ASSUME NEW b \in Agent, NEW u \in Topic, NEW token \in 1..Len(issued),
             JoinPrivateTopic(b, u, token), NEW a \in Agent, NEW t \in Topic
      PROVE  Admitted(a, t)' + Left(a, t)' <= Invited(a, t)'
    <2> DEFINE adm == [topic |-> u, agent |-> b, token |-> token, at |-> now]
    <2>1. adm \in Admission /\ adm.agent = b /\ adm.topic = u
        BY <1>1 DEF Admission
    <2>2. admissions' = Append(admissions, adm) /\ issued' = issued
        BY <1>3 DEF JoinPrivateTopic
    <2> HIDE DEF adm
    <2>3. Admitted(a, t)' = Admitted(a, t) + (IF b = a /\ u = t THEN 1 ELSE 0)
        BY <1>1, <2>1, <2>2, AboutAppended
    <2>4. Invited(a, t)' = Invited(a, t)
        BY <2>2
    <2>5. Left(a, t)' + (IF b = a /\ u = t THEN 1 ELSE 0) = Left(a, t)
        BY <1>1, <1>3 DEF JoinPrivateTopic, InviteIsValid, ConsumeInvite
    <2>6. Left(a, t) \in Nat /\ Left(a, t)' \in Nat
        OBVIOUS
    <2> HIDE DEF Left, Admitted, Invited
    <2> QED
        BY <1>2, <2>3, <2>4, <2>5, <2>6
<1>4. ASSUME NEW b \in Agent, NEW u \in Topic, NEW ttl \in Ttl,
             InviteToTopic(u, b, ttl), NEW a \in Agent, NEW t \in Topic
      PROVE  Admitted(a, t)' + Left(a, t)' <= Invited(a, t)'
    <2> DEFINE inv == [topic |-> u, agent |-> b, ttl |-> ttl, at |-> now]
    <2>1. inv \in Invite /\ inv.agent = b /\ inv.topic = u
        BY <1>1 DEF Invite
    <2>2. issued' = Append(issued, inv) /\ admissions' = admissions
        BY <1>4 DEF InviteToTopic
    <2> HIDE DEF inv
    <2>3. Invited(a, t)' = Invited(a, t) + (IF b = a /\ u = t THEN 1 ELSE 0)
        BY <1>1, <2>1, <2>2, AboutAppended
    <2>4. Admitted(a, t)' = Admitted(a, t)
        BY <2>2
    <2>5. Left(a, t)' <= Left(a, t) + (IF b = a /\ u = t THEN 1 ELSE 0)
        BY <1>1, <1>4 DEF InviteToTopic
    <2>6. Left(a, t) \in Nat /\ Left(a, t)' \in Nat
        OBVIOUS
    <2> HIDE DEF Left, Admitted, Invited
    <2> QED
        BY <1>2, <2>3, <2>4, <2>5, <2>6
<1>5. CASE UNCHANGED <<invitedAgents, issued, admissions>>
    BY <1>5 DEF InvitationsLeft
<1> QED
    BY <1>3, <1>4, <1>5
    DEF InvitationsLeft, TopicsNext, CreateTopic, JoinTopic, LeaveTopic, RemoveAgent, Tick,
        inviteVars, topicVars

(* An agent is admitted to a topic no more often than it was invited to it,   *)
(* although it may have used the token of another agent's invite.           *)
THEOREM AdmissionsBackedByInvitesHolds == TopicsSpec => []AdmissionsBackedByInvites
<1>1. TopicsInit => InvitationsLeft
    <2> SUFFICES ASSUME TopicsInit, NEW a \in Agent, NEW t \in Topic
                 PROVE  Cardinality(About(admissions, a, t))
                          + (IF a \in invitedAgents[t] THEN 1 ELSE 0)
                          <= Cardinality(About(issued, a, t))
        BY DEF InvitationsLeft
    <2>1. About(admissions, a, t) = {} /\ About(issued, a, t) = {} /\ invitedAgents[t] = {}
        BY DEF TopicsInit, About
    <2> QED
        BY <2>1, FS_EmptySet
<1>2. TopicsTypeOK /\ InvitationsLeft => AdmissionsBackedByInvites
    <2> SUFFICES ASSUME TopicsTypeOK, InvitationsLeft, NEW a \in Agent, NEW t \in Topic
                 PROVE  Cardinality(About(admissions, a, t)) <= Cardinality(About(issued, a, t))
        BY DEF AdmissionsBackedByInvites, About
    <2>1. /\ Cardinality(About(admissions, a, t)) \in Nat
          /\ Cardinality(About(issued, a, t)) \in Nat
        BY AboutIsFinite DEF TopicsTypeOK
    <2>2. Cardinality(About(admissions, a, t)) + (IF a \in invitedAgents[t] THEN 1 ELSE 0)
            <= Cardinality(About(issued, a, t))
        BY DEF InvitationsLeft
    <2> QED
        BY <2>1, <2>2
<1> QED
    BY <1>1, <1>2, StepInvitations, TopicsTyping, PTL DEF TopicsSpec
=============================================================================
