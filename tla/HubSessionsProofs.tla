-------------------------- MODULE HubSessionsProofs --------------------------
(***************************************************************************)
(* Proofs about the sessions of the hub.  Every step of HubSessions is a    *)
(* step of TopicsManager or leaves it alone, so what TopicsProofs proves of *)
(* TopicsManager holds in the hub.  On that rest the invariants that tie    *)
(* sockets, the agents map and the memberships together.  The last theorem  *)
(* says which sockets can lose their registration.                          *)
(***************************************************************************)
EXTENDS HubSessions, TopicsProofs

(* The part of the type invariant that the connection handlers rely on. *)
ConnTypes ==
    /\ sock \in [Socket -> {"new", "open", "closing", "closed"}]
    /\ owner \in [Socket -> Agent]
    /\ session \in [Agent -> Socket \cup {NoSocket}]
    /\ joined \in [Agent -> SUBSET Topic]

(* Inductive relative to TopicsInv. *)
SessionInv ==
    /\ ConnTypes
    /\ SessionIsAlive
    /\ PublicMembersConnected
    /\ JoinedIsMember

-----------------------------------------------------------------------------
(* The connection half keeps its types. *)
LEMMA InitConnTypes == Init => ConnTypes
BY DEF Init, ConnTypes

(* Connects, closes, errors, joins and leaves keep sockets, owners, sessions  *)
(* and joined topics of their types.                                         *)
LEMMA StepConnTypes == ConnTypes /\ [Next]_vars => ConnTypes'
<1> SUFFICES ASSUME ConnTypes, [Next]_vars
             PROVE  ConnTypes'
    OBVIOUS
<1> USE DEF ConnTypes
<1>1. ASSUME NEW s \in Socket, Connect(s)
      PROVE  ConnTypes'
    BY <1>1 DEF Connect
<1>2. ASSUME NEW s \in Socket, SocketClosed(s) \/ SocketError(s)
      PROVE  ConnTypes'
    <2>1. owner[s] \in Agent
        OBVIOUS
    <2> QED
        BY <1>2, <2>1 DEF SocketClosed, SocketError, HandleDisconnect
<1>3. ASSUME NEW s \in Socket, NEW t \in Topic, HandleJoin(s, t)
      PROVE  ConnTypes'
    BY <1>3 DEF HandleJoin
<1>4. ASSUME NEW s \in Socket, NEW t \in Topic, HandleLeave(s, t)
      PROVE  ConnTypes'
    BY <1>4 DEF HandleLeave, DropFromRecord
<1>5. CASE UNCHANGED connVars
    BY <1>5 DEF connVars
<1> QED
    BY <1>1, <1>2, <1>3, <1>4, <1>5
    DEF Next, HandleChat, ReadHistory, AnswerJoin, JoinFails, SaveChat, ChatFails,
        BroadcastChat, RestTopics, vars

(* What a step of the sessions does to TopicsManager. *)
LEMMA StepTopics == ConnTypes /\ [Next]_vars => [TopicsNext]_topicVars
<1> SUFFICES ASSUME ConnTypes, [Next]_vars
             PROVE  TopicsNext \/ UNCHANGED topicVars
    OBVIOUS
<1>1. ASSUME NEW s \in Socket, SocketClosed(s) \/ SocketError(s)
      PROVE  TopicsNext \/ UNCHANGED topicVars
    <2>1. owner[s] \in Agent
        BY DEF ConnTypes
    <2> QED
        BY <1>1, <2>1 DEF SocketClosed, SocketError, HandleDisconnect, TopicsNext
<1>2. ASSUME NEW s \in Socket, NEW t \in Topic, HandleJoin(s, t) \/ HandleLeave(s, t)
      PROVE  TopicsNext \/ UNCHANGED topicVars
    <2>1. owner[s] \in Agent
        BY DEF ConnTypes
    <2> QED
        BY <1>2, <2>1 DEF HandleJoin, HandleLeave, TopicsNext
<1>3. ASSUME RestTopics
      PROVE  TopicsNext
    BY <1>3 DEF RestTopics, TopicsNext
<1>4. CASE UNCHANGED topicVars
    BY <1>4
<1> QED
    BY <1>1, <1>2, <1>3, <1>4
    DEF Next, Connect, HandleChat, ReadHistory, AnswerJoin, JoinFails, SaveChat,
        ChatFails, BroadcastChat, vars

(* So what is proved of TopicsManager alone carries over to the hub. *)
LEMMA TopicsInHub == Spec => TopicsSpec
<1>1. Init => TopicsInit
    BY DEF Init
<1> QED
    BY <1>1, InitConnTypes, StepConnTypes, StepTopics, PTL
    DEF Spec, TopicsSpec

(* Hence the invariant of TopicsManager holds in the hub. *)
LEMMA TopicsInvInHub == Spec => []TopicsInv
<1> QED
    BY TopicsInHub, TopicsInvariant, PTL

-----------------------------------------------------------------------------
(* handleDisconnect, whichever socket of the agent called it, keeps the      *)
(* invariant: it unregisters the agent and clears every membership.         *)
LEMMA StepDisconnect ==
    ASSUME TopicsInv, SessionInv, NEW s \in Socket, SocketClosed(s) \/ SocketError(s)
    PROVE  SessionIsAlive' /\ PublicMembersConnected' /\ JoinedIsMember'
<1> DEFINE a == owner[s]
<1> USE SessionsAssumption DEF SessionInv, ConnTypes
<1>1. a \in Agent /\ owner' = owner
    BY DEF SocketClosed, SocketError
<1>2. \A u \in Socket : u # s => sock'[u] = sock[u]
    BY DEF SocketClosed, SocketError
<1>3. CASE session[a] = NoSocket
    <2>1. UNCHANGED <<session, joined, topicVars>>
        BY <1>3 DEF SocketClosed, SocketError, HandleDisconnect
    <2>2. \A b \in Agent : session[b] # s
        BY <1>3 DEF SessionIsAlive
    <2>3. SessionIsAlive'
        BY <1>1, <1>2, <2>1, <2>2 DEF SessionIsAlive
    <2> QED
        BY <2>1, <2>3 DEF PublicMembersConnected, JoinedIsMember, topicVars, roomVars
<1>4. CASE session[a] # NoSocket
    <2>1. /\ RemoveAgent(a)
          /\ session' = [session EXCEPT ![a] = NoSocket]
          /\ joined' = [joined EXCEPT ![a] = {}]
        BY <1>4 DEF SocketClosed, SocketError, HandleDisconnect
    <2>2. \A b \in Agent \ {a} : session[b] # s
        BY DEF SessionIsAlive
    <2>3. SessionIsAlive'
        BY <1>1, <1>2, <2>1, <2>2 DEF SessionIsAlive
    <2>4. \A t \in Topic : agents'[t] = agents[t] \ {a}
        BY <1>1, <2>1 DEF RemoveAgent, TopicsInv, TopicsTypeOK, MembershipMirror
    <2>5. PublicMembersConnected'
        BY <1>1, <2>1, <2>4
        DEF PublicMembersConnected, RemoveAgent, TopicsInv, TopicsTypeOK
    <2>6. JoinedIsMember'
        BY <1>1, <2>1 DEF JoinedIsMember, RemoveAgent, TopicsInv, TopicsTypeOK
    <2> QED
        BY <2>3, <2>5, <2>6
<1> QED
    BY <1>3, <1>4

(* A new connection of an agent takes the record over, its old socket at     *)
(* most starts to close.                                                    *)
LEMMA StepConnect ==
    ASSUME TopicsInv, SessionInv, NEW s \in Socket, Connect(s)
    PROVE  SessionIsAlive' /\ PublicMembersConnected' /\ JoinedIsMember'
<1> USE SessionsAssumption DEF SessionInv, ConnTypes
<1>1. owner[s] \in Agent /\ owner' = owner /\ UNCHANGED topicVars
    BY DEF Connect
<1>2. /\ session' = [session EXCEPT ![owner[s]] = s]
      /\ joined' = [joined EXCEPT ![owner[s]] = {}]
      /\ sock'[s] = "open"
    BY DEF Connect
<1>3. \A u \in Socket \ {s} : sock[u] \in {"open", "closing"} => sock'[u] \in {"open", "closing"}
    BY DEF Connect
<1>4. SessionIsAlive'
    BY <1>1, <1>2, <1>3 DEF SessionIsAlive
<1>5. PublicMembersConnected'
    BY <1>1, <1>2 DEF PublicMembersConnected, topicVars, roomVars
<1>6. JoinedIsMember'
    BY <1>1, <1>2 DEF JoinedIsMember, topicVars, roomVars
<1> QED
    BY <1>4, <1>5, <1>6

(* join and leave change the record and the memberships together. *)
LEMMA StepJoinLeave ==
    ASSUME TopicsInv, SessionInv, NEW s \in Socket, NEW t \in Topic,
           HandleJoin(s, t) \/ HandleLeave(s, t)
    PROVE  SessionIsAlive' /\ PublicMembersConnected' /\ JoinedIsMember'
<1> DEFINE a == owner[s]
<1> USE SessionsAssumption DEF SessionInv, ConnTypes, TopicsInv, TopicsTypeOK
<1>1. a \in Agent /\ session[a] # NoSocket /\ UNCHANGED <<sock, owner, session>>
    BY DEF HandleJoin, HandleLeave, Receives
<1>2. SessionIsAlive'
    BY <1>1 DEF SessionIsAlive
<1>3. CASE HandleJoin(s, t)
    <2>1. /\ isPrivate' = isPrivate
          /\ agents' = [agents EXCEPT ![t] = @ \cup {a}]
          /\ agentTopics' = [agentTopics EXCEPT ![a] = @ \cup {t}]
          /\ joined' = [joined EXCEPT ![a] = @ \cup {t}]
        BY <1>3 DEF HandleJoin, JoinTopic, AddMember
    <2>2. PublicMembersConnected'
        BY <1>1, <2>1 DEF PublicMembersConnected
    <2>3. JoinedIsMember'
        BY <1>1, <2>1 DEF JoinedIsMember
    <2> QED
        BY <1>2, <2>2, <2>3
<1>4. CASE HandleLeave(s, t) /\ LeaveTopic(a, t)
    <2>1. /\ isPrivate' = isPrivate
          /\ agents' = [agents EXCEPT ![t] = @ \ {a}]
          /\ agentTopics' = [agentTopics EXCEPT ![a] = @ \ {t}]
          /\ joined' = [joined EXCEPT ![a] = @ \ {t}]
        BY <1>4 DEF HandleLeave, LeaveTopic, DropFromRecord
    <2>2. PublicMembersConnected'
        BY <1>1, <2>1 DEF PublicMembersConnected
    <2>3. JoinedIsMember'
        BY <1>1, <2>1 DEF JoinedIsMember
    <2> QED
        BY <1>2, <2>2, <2>3
<1>5. CASE HandleLeave(s, t) /\ UNCHANGED topicVars
    <2>1. UNCHANGED <<isPrivate, agents, agentTopics>>
          /\ joined' = [joined EXCEPT ![a] = @ \ {t}]
        BY <1>5 DEF HandleLeave, DropFromRecord, topicVars, roomVars
    <2> QED
        BY <1>1, <1>2, <2>1 DEF PublicMembersConnected, JoinedIsMember
<1> QED
    BY <1>3, <1>4, <1>5 DEF HandleLeave

(* REST adds members to private topics only and takes nobody out. *)
LEMMA StepRest ==
    ASSUME TopicsInv, SessionInv, RestTopics
    PROVE  SessionIsAlive' /\ PublicMembersConnected' /\ JoinedIsMember'
<1> USE DEF SessionInv, ConnTypes, TopicsInv, TopicsTypeOK
<1>1. UNCHANGED <<sock, owner, session, joined>>
    BY DEF RestTopics, connVars
<1>2. SessionIsAlive'
    BY <1>1 DEF SessionIsAlive
<1>3. ASSUME NEW t \in Topic, NEW private \in BOOLEAN, CreateTopic(t, private)
      PROVE  PublicMembersConnected' /\ JoinedIsMember'
    BY <1>1, <1>3 DEF CreateTopic, PublicMembersConnected, JoinedIsMember
<1>4. ASSUME NEW a \in Agent, NEW t \in Topic, NEW token \in 1..Len(issued),
             JoinPrivateTopic(a, t, token)
      PROVE  PublicMembersConnected' /\ JoinedIsMember'
    <2>1. /\ t \in isPrivate /\ isPrivate' = isPrivate
          /\ agents' = [agents EXCEPT ![t] = @ \cup {a}]
          /\ agentTopics' = [agentTopics EXCEPT ![a] = @ \cup {t}]
        BY <1>4 DEF JoinPrivateTopic, AddMember
    <2>2. PublicMembersConnected'
        BY <1>1, <2>1 DEF PublicMembersConnected
    <2>3. JoinedIsMember'
        BY <1>1, <2>1 DEF JoinedIsMember
    <2> QED
        BY <2>2, <2>3
<1>5. CASE UNCHANGED roomVars
    BY <1>1, <1>2, <1>5 DEF roomVars, PublicMembersConnected, JoinedIsMember
<1> QED
    <2>1. \/ \E t \in Topic, private \in BOOLEAN : CreateTopic(t, private)
          \/ \E a \in Agent, t \in Topic :
               \E token \in 1..Len(issued) : JoinPrivateTopic(a, t, token)
          \/ UNCHANGED roomVars
        BY DEF RestTopics, InviteToTopic, Tick
    <2> QED
        BY <1>2, <1>3, <1>4, <1>5, <2>1

(* Every handler of the hub keeps SessionInv, given that TopicsManager is in  *)
(* a state of its own invariant when the handler runs.                       *)
LEMMA StepSessionInv == TopicsInv /\ SessionInv /\ [Next]_vars => SessionInv'
<1> SUFFICES ASSUME TopicsInv, SessionInv, [Next]_vars
             PROVE  SessionInv'
    OBVIOUS
<1>1. ConnTypes'
    BY StepConnTypes DEF SessionInv
<1>2. CASE UNCHANGED <<topicVars, connVars>>
    BY <1>1, <1>2 DEF connVars, topicVars, roomVars, SessionInv, SessionIsAlive,
       PublicMembersConnected, JoinedIsMember
<1>3. ASSUME NEW s \in Socket, Connect(s) PROVE SessionInv'
    BY <1>1, <1>3, StepConnect DEF SessionInv
<1>4. ASSUME NEW s \in Socket, SocketClosed(s) \/ SocketError(s) PROVE SessionInv'
    BY <1>1, <1>4, StepDisconnect DEF SessionInv
<1>5. ASSUME NEW s \in Socket, NEW t \in Topic, HandleJoin(s, t) \/ HandleLeave(s, t)
      PROVE  SessionInv'
    BY <1>1, <1>5, StepJoinLeave DEF SessionInv
<1>6. CASE RestTopics
    BY <1>1, <1>6, StepRest DEF SessionInv
<1> QED
    BY <1>2, <1>3, <1>4, <1>5, <1>6
    DEF Next, HandleChat, ReadHistory, AnswerJoin, JoinFails, SaveChat, ChatFails,
        BroadcastChat, vars

(* SessionInv holds throughout, with TopicsInv brought in from TopicsProofs.  *)
LEMMA SessionInvariant == Spec => []SessionInv
<1>1. Init => SessionInv
    BY InitConnTypes DEF Init, TopicsInit, SessionInv, SessionIsAlive,
       PublicMembersConnected, JoinedIsMember
<1> QED
    BY <1>1, StepSessionInv, TopicsInvInHub, PTL DEF Spec

(* No agent stays registered on a closed socket or on one of another agent,  *)
(* for any number of agents and sockets and any order of their events.      *)
THEOREM SessionIsAliveHolds == Spec => []SessionIsAlive
<1>1. SessionInv => SessionIsAlive
    BY DEF SessionInv
<1> QED
    BY <1>1, SessionInvariant, PTL

(* The members of a public topic are connected. *)
THEOREM PublicMembersConnectedHolds == Spec => []PublicMembersConnected
<1>1. SessionInv => PublicMembersConnected
    BY DEF SessionInv
<1> QED
    BY <1>1, SessionInvariant, PTL

(* What a session joined it is a member of. *)
THEOREM JoinedIsMemberHolds == Spec => []JoinedIsMember
<1>1. SessionInv => JoinedIsMember
    BY DEF SessionInv
<1> QED
    BY <1>1, SessionInvariant, PTL

-----------------------------------------------------------------------------
(* What TopicsManager promises of private topics holds in the hub, where       *)
(* joins come over sockets and over REST: members were admitted by invite, a *)
(* token admits once and before its expiry, nobody more often than invited.  *)
THEOREM HubAdmitsByInvite ==
    Spec => [](/\ PrivateMembersAdmitted /\ TokenAdmitsOnce
               /\ AdmittedBeforeExpiry /\ AdmissionsBackedByInvites)
BY TopicsInHub, PrivateMembersAdmittedHolds, TokenAdmitsOnceHolds,
   AdmittedBeforeExpiryHolds, AdmissionsBackedByInvitesHolds, PTL

(* What remains of ReplacementStaysRegistered: a session is unregistered      *)
(* while its socket is open only after another socket of the same agent      *)
(* closed or began to.  An agent that reconnects can lose its new session to *)
(* its old socket; one that connects once keeps it as long as its socket is  *)
(* open.                                                                     *)
RegisteredUnlessReplaced ==
    \A s \in Socket : sock[s] = "open" /\ session[owner[s]] # s =>
        \E u \in Socket \ {s} : owner[u] = owner[s] /\ sock[u] \in {"closing", "closed"}

LEMMA StepRegistered ==
    ASSUME SessionInv, RegisteredUnlessReplaced, [Next]_vars
    PROVE  RegisteredUnlessReplaced'
<1> USE SessionsAssumption
<1>0. /\ sock \in [Socket -> {"new", "open", "closing", "closed"}]
      /\ owner \in [Socket -> Agent] /\ session \in [Agent -> Socket \cup {NoSocket}]
    BY DEF SessionInv, ConnTypes
<1>1. ASSUME NEW s \in Socket, SocketClosed(s) \/ SocketError(s)
      PROVE  RegisteredUnlessReplaced'
    <2>1. /\ owner' = owner /\ sock'[s] \in {"closing", "closed"}
          /\ \A u \in Socket \ {s} : sock'[u] = sock[u]
          /\ \A a \in Agent \ {owner[s]} : session'[a] = session[a]
        BY <1>0, <1>1 DEF SocketClosed, SocketError, HandleDisconnect
    <2> SUFFICES ASSUME NEW u \in Socket, sock'[u] = "open", session'[owner[u]] # u
                 PROVE  \E v \in Socket \ {u} : owner[v] = owner[u] /\ sock'[v] \in {"closing", "closed"}
        BY <2>1 DEF RegisteredUnlessReplaced
    <2>2. u # s /\ sock[u] = "open"
        BY <2>1
    <2>3. CASE owner[u] = owner[s]
        BY <2>1, <2>2, <2>3
    <2>4. CASE owner[u] # owner[s]
        <3>1. session[owner[u]] # u
            BY <1>0, <2>1, <2>4
        <3>2. PICK v \in Socket \ {u} : owner[v] = owner[u] /\ sock[v] \in {"closing", "closed"}
            BY <2>2, <3>1 DEF RegisteredUnlessReplaced
        <3> QED
            BY <2>1, <2>4, <3>2
    <2> QED
        BY <2>3, <2>4
<1>2. ASSUME NEW s \in Socket, Connect(s)
      PROVE  RegisteredUnlessReplaced'
    <2>1. /\ owner' = owner /\ sock[s] = "new" /\ session' = [session EXCEPT ![owner[s]] = s]
          /\ \A u \in Socket : sock[u] \in {"closing", "closed"} => sock'[u] = sock[u]
          /\ \A u \in Socket \ {s} : sock'[u] = "open" => sock[u] = "open" /\ u # session[owner[s]]
        BY <1>0, <1>2 DEF Connect
    <2> SUFFICES ASSUME NEW u \in Socket, sock'[u] = "open", session'[owner[u]] # u
                 PROVE  \E v \in Socket \ {u} : owner[v] = owner[u] /\ sock'[v] \in {"closing", "closed"}
        BY <2>1 DEF RegisteredUnlessReplaced
    <2>2. u # s /\ sock[u] = "open" /\ session[owner[u]] # u
        BY <1>0, <2>1
    <2>3. PICK v \in Socket \ {u} : owner[v] = owner[u] /\ sock[v] \in {"closing", "closed"}
        BY <2>2 DEF RegisteredUnlessReplaced
    <2> QED
        BY <2>1, <2>3
<1>3. CASE UNCHANGED <<sock, owner, session>>
    BY <1>3 DEF RegisteredUnlessReplaced
<1> QED
    BY <1>1, <1>2, <1>3
    DEF Next, HandleJoin, HandleLeave, HandleChat, ReadHistory, AnswerJoin, JoinFails, SaveChat,
        ChatFails, BroadcastChat, RestTopics, vars, connVars

(* For any number of agents, sockets and reconnects: an open socket is its    *)
(* agent's session unless another socket of the agent closed or failed.      *)
THEOREM RegisteredUnlessReplacedHolds == Spec => []RegisteredUnlessReplaced
<1>1. Init => RegisteredUnlessReplaced
    BY DEF Init, RegisteredUnlessReplaced
<1>2. SessionInv /\ RegisteredUnlessReplaced /\ [Next]_vars => RegisteredUnlessReplaced'
    BY StepRegistered
<1> QED
    BY <1>1, <1>2, SessionInvariant, PTL DEF Spec

=============================================================================
