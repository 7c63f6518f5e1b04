------------------------- MODULE HubDeliveryProofs -------------------------
(***************************************************************************)
(* Proofs about what the agents are sent: that no message is missed         *)
(* between history and live delivery (NoGap), and that the member lists     *)
(* miss nobody (RosterComplete), for any number of agents, sockets,         *)
(* messages and joins in flight, and whichever database calls fail.         *)
(*                                                                         *)
(* Both rest on one observation.  A session that waits for the answer to    *)
(* its latest join of a topic, or has got it, is a member: so it is there   *)
(* when a message is broadcast or an arrival announced, and what came       *)
(* before is in the rows it waits for or in the list it will be given.      *)
(*                                                                         *)
(* The last section is about who is sent what: of a private topic only     *)
(* those that were admitted to it (PrivateSeenByAdmitted).                  *)
(***************************************************************************)
EXTENDS HubSessionsProofs, FiniteSetTheorems

ChatRecord == [stage : {"saving", "saved", "sent", "lost", "unsent"},
               from : Agent, topic : Topic]
JoinRecord == [stage : {"reading", "read"}, agent : Agent, socket : Socket,
               topic : Topic, rows : SUBSET Msg, current : BOOLEAN]

DeliveryTypes ==
    /\ chat \in [Msg -> {NoChat} \cup ChatRecord]
    /\ join \in [Ticket -> {NoJoin} \cup JoinRecord]
    /\ synced \in [Agent -> SUBSET Topic]
    /\ seen \in [Agent -> SUBSET (Msg \X {"history", "live", "echo"})]
    /\ roster \in [Agent -> [Topic -> SUBSET Agent]]
    /\ unheard \in SUBSET (Agent \X Topic)

(* What the steps are taken in. *)
HubInv == TopicsInv /\ SessionInv /\ DeliveryTypes

-----------------------------------------------------------------------------
(* Types. *)

LEMMA NoRecords ==
    /\ \A c \in {NoChat} \cup ChatRecord : c.stage # "none" => c \in ChatRecord
    /\ \A j \in {NoJoin} \cup JoinRecord : j # NoJoin => j \in JoinRecord
    /\ \A j \in {NoJoin} \cup JoinRecord : j.stage # "idle" => j # NoJoin /\ j \in JoinRecord
BY DEF NoChat, NoJoin, ChatRecord, JoinRecord

LEMMA OutdatedType ==
    ASSUME DeliveryTypes, NEW a \in Agent, NEW t \in Topic
    PROVE  Outdated(a, t) \in [Ticket -> {NoJoin} \cup JoinRecord]
<1>1. ASSUME NEW k \in Ticket, join[k] # NoJoin
      PROVE  [join[k] EXCEPT !.current = FALSE] \in JoinRecord
    <2>1. join[k] \in JoinRecord
        BY <1>1, NoRecords DEF DeliveryTypes
    <2> QED
        BY <2>1 DEF JoinRecord
<1> QED
    BY <1>1 DEF Outdated, DeliveryTypes

LEMMA ToldGoneType ==
    ASSUME DeliveryTypes, NEW A, NEW b, NEW T
    PROVE  ToldGone(A, b, T) \in [Agent -> [Topic -> SUBSET Agent]]
BY DEF ToldGone, DeliveryTypes

LEMMA ConnectionTypes ==
    ASSUME HubInv, NEW s \in Socket, Connect(s) \/ SocketClosed(s) \/ SocketError(s)
    PROVE  DeliveryTypes'
<1> DEFINE a == owner[s]
           none == [t \in Topic |-> {}]
<1>1. a \in Agent /\ none \in [Topic -> SUBSET Agent]
    BY DEF HubInv, SessionInv, ConnTypes
<1>2. UNCHANGED <<chat, join>> /\ unheard' \subseteq unheard
    BY DEF Connect, SocketClosed, SocketError, HandleDisconnect, viewVars
<1>3. \/ UNCHANGED viewVars
      \/ /\ synced' = [synced EXCEPT ![a] = {}] /\ seen' = [seen EXCEPT ![a] = {}]
         /\ \/ roster' = [roster EXCEPT ![a] = none]
            \/ roster' = [ToldGone(Reached(Agent \ {a}), a, agentTopics[a]) EXCEPT ![a] = none]
    BY DEF Connect, SocketClosed, SocketError, HandleDisconnect, NewView
<1>4. roster' \in [Agent -> [Topic -> SUBSET Agent]]
    <2>1. roster \in [Agent -> [Topic -> SUBSET Agent]]
        BY DEF HubInv, DeliveryTypes
    <2>2. ToldGone(Reached(Agent \ {a}), a, agentTopics[a]) \in [Agent -> [Topic -> SUBSET Agent]]
        BY ToldGoneType DEF HubInv
    <2> HIDE DEF none
    <2> QED
        BY <1>1, <1>3, <2>1, <2>2 DEF viewVars
<1> QED
    BY <1>1, <1>2, <1>3, <1>4 DEF DeliveryTypes, viewVars, HubInv

LEMMA JoinTypes ==
    ASSUME HubInv, NEW s \in Socket, NEW t \in Topic, HandleJoin(s, t) \/ HandleLeave(s, t)
    PROVE  DeliveryTypes'
<1> DEFINE a == owner[s]
<1>1. a \in Agent /\ session[a] \in Socket
    BY DEF HubInv, SessionInv, ConnTypes, HandleJoin, HandleLeave, Receives
<1>2. Outdated(a, t) \in [Ticket -> {NoJoin} \cup JoinRecord]
    BY <1>1, OutdatedType DEF HubInv
<1>3. [stage |-> "reading", agent |-> a, socket |-> session[a],
       topic |-> t, rows |-> {}, current |-> TRUE] \in JoinRecord
    BY <1>1 DEF JoinRecord
<1>4. join' \in [Ticket -> {NoJoin} \cup JoinRecord]
    BY <1>2, <1>3 DEF HandleJoin, HandleLeave
<1>5. synced' \in [Agent -> SUBSET Topic] /\ UNCHANGED <<chat, seen>> /\ unheard' \subseteq unheard
    BY <1>1 DEF HandleJoin, HandleLeave, HubInv, DeliveryTypes
<1>6. roster' \in [Agent -> [Topic -> SUBSET Agent]]
    BY ToldGoneType DEF HandleJoin, HandleLeave, HubInv, DeliveryTypes
<1> QED
    BY <1>4, <1>5, <1>6 DEF HubInv, DeliveryTypes

LEMMA ReplyTypes ==
    ASSUME HubInv, NEW k \in Ticket, ReadHistory(k) \/ AnswerJoin(k) \/ JoinFails(k)
    PROVE  DeliveryTypes'
<1> USE DEF HubInv, DeliveryTypes
<1>1. join[k] \in JoinRecord
    BY NoRecords DEF ReadHistory, AnswerJoin, JoinFails
<1>2. /\ join[k].agent \in Agent /\ join[k].topic \in Topic /\ join[k].rows \in SUBSET Msg
    BY <1>1 DEF JoinRecord
<1>3. CASE ReadHistory(k)
    <2>1. Newest(join[k].topic) \in SUBSET Msg
        BY DEF Newest, Saved
    <2>2. [join[k] EXCEPT !.stage = "read", !.rows = Newest(join[k].topic)] \in JoinRecord
        BY <1>1, <2>1 DEF JoinRecord
    <2> QED
        BY <1>3, <2>2 DEF ReadHistory, viewVars
<1>4. CASE AnswerJoin(k)
    <2> DEFINE b == join[k].agent
               t == join[k].topic
    <2>1. join' \in [Ticket -> {NoJoin} \cup JoinRecord] /\ UNCHANGED chat
        BY <1>4 DEF AnswerJoin
    <2>2. seen' \in [Agent -> SUBSET (Msg \X {"history", "live", "echo"})]
        BY <1>2, <1>4 DEF AnswerJoin
    <2>3. synced' \in [Agent -> SUBSET Topic]
        BY <1>2, <1>4 DEF AnswerJoin
    <2>4. agents[t] \in SUBSET Agent
        BY <1>2 DEF TopicsInv, TopicsTypeOK
    <2>5. ASSUME NEW a \in Agent
          PROVE  /\ [roster[a] EXCEPT ![t] = agents[t]] \in [Topic -> SUBSET Agent]
                 /\ [roster[a] EXCEPT ![t] = @ \cup {b}] \in [Topic -> SUBSET Agent]
        BY <1>2, <2>4
    <2>6. roster' \in [Agent -> [Topic -> SUBSET Agent]]
        BY <1>4, <2>5 DEF AnswerJoin
    <2> QED
        BY <1>4, <2>1, <2>2, <2>3, <2>6 DEF AnswerJoin
<1>5. CASE JoinFails(k)
    BY <1>2, <1>5 DEF JoinFails
<1> QED
    BY <1>3, <1>4, <1>5

LEMMA ChatTypes ==
    ASSUME HubInv, \/ \E s \in Socket, t \in Topic : HandleChat(s, t)
                   \/ \E m \in Msg : SaveChat(m) \/ ChatFails(m) \/ BroadcastChat(m)
    PROVE  DeliveryTypes'
<1> USE DEF HubInv, DeliveryTypes
<1>1. ASSUME NEW s \in Socket, NEW t \in Topic, HandleChat(s, t)
      PROVE  DeliveryTypes'
    <2>1. [stage |-> "saving", from |-> owner[s], topic |-> t] \in ChatRecord
        BY DEF ChatRecord, SessionInv, ConnTypes
    <2> QED
        BY <1>1, <2>1 DEF HandleChat, viewVars
<1>2. ASSUME NEW m \in Msg, chat[m].stage \in {"saving", "saved"},
             NEW st \in {"saved", "sent", "lost", "unsent"}
      PROVE  [chat[m] EXCEPT !.stage = st] \in ChatRecord
    <2>1. chat[m] \in ChatRecord
        BY <1>2, NoRecords
    <2> QED
        BY <2>1 DEF ChatRecord
<1>3. ASSUME NEW m \in Msg, SaveChat(m) \/ ChatFails(m)
      PROVE  DeliveryTypes'
    BY <1>2, <1>3 DEF SaveChat, ChatFails, viewVars
<1>4. ASSUME NEW m \in Msg, BroadcastChat(m)
      PROVE  DeliveryTypes'
    <2>1. chat' \in [Msg -> {NoChat} \cup ChatRecord]
        BY <1>2, <1>4 DEF BroadcastChat
    <2>2. seen' \in [Agent -> SUBSET (Msg \X {"history", "live", "echo"})]
        BY <1>4 DEF BroadcastChat
    <2> QED
        BY <1>4, <2>1, <2>2 DEF BroadcastChat
<1> QED
    BY <1>1, <1>3, <1>4

(* Every step keeps the types of messages, joins and what agents were sent. *)
LEMMA StepDeliveryTypes == HubInv /\ [Next]_vars => DeliveryTypes'
<1>1. ASSUME UNCHANGED <<chat, join, viewVars>>, DeliveryTypes
      PROVE  DeliveryTypes'
    BY <1>1 DEF DeliveryTypes, viewVars
<1> QED
    BY <1>1, ConnectionTypes, JoinTypes, ReplyTypes, ChatTypes
    DEF Next, RestTopics, vars, HubInv

-----------------------------------------------------------------------------
(* Who expects what is said on a topic is a member of it. *)

(* Handler k is the latest join of t by a, and its answer will reach a. *)
Awaits(k, a, t) ==
    /\ join[k] # NoJoin /\ join[k].current
    /\ join[k].agent = a /\ join[k].topic = t /\ join[k].socket = session[a]

Expects(a, t) == t \in synced[a] \/ \E k \in Ticket : Awaits(k, a, t)

ExpectedIsJoined == \A a \in Agent, t \in Topic : Expects(a, t) => t \in joined[a]

(* A join holds a socket that was accepted, so no later session has it. *)
JoinsAreOld == \A k \in Ticket : join[k] # NoJoin => sock[join[k].socket] # "new"

MemberInv == HubInv /\ ExpectedIsJoined /\ JoinsAreOld

LEMMA ExpectingIsMember ==
    ASSUME MemberInv, NEW a \in Agent, NEW t \in Topic, Expects(a, t)
    PROVE  a \in agents[t]
BY DEF MemberInv, ExpectedIsJoined, HubInv, SessionInv, JoinedIsMember, TopicsInv,
       MembershipMirror

LEMMA OutdatedFacts ==
    ASSUME HubInv, NEW a, NEW t, NEW k \in Ticket
    PROVE  /\ Outdated(a, t)[k] = NoJoin <=> join[k] = NoJoin
           /\ join[k] # NoJoin =>
                /\ Outdated(a, t)[k].stage = join[k].stage
                /\ Outdated(a, t)[k].agent = join[k].agent
                /\ Outdated(a, t)[k].topic = join[k].topic
                /\ Outdated(a, t)[k].socket = join[k].socket
                /\ Outdated(a, t)[k].rows = join[k].rows
                /\ Outdated(a, t)[k].current =>
                     join[k].current /\ ~(join[k].agent = a /\ join[k].topic = t)
<1>1. CASE join[k] = NoJoin
    BY <1>1 DEF Outdated
<1>2. CASE join[k] # NoJoin
    <2>1. join[k] \in JoinRecord
        BY <1>2, NoRecords DEF HubInv, DeliveryTypes
    <2>2. [join[k] EXCEPT !.current = FALSE] \in JoinRecord
        BY <2>1 DEF JoinRecord
    <2>3. NoJoin \notin JoinRecord
        BY DEF NoJoin, JoinRecord
    <2> QED
        BY <2>1, <2>2, <2>3 DEF Outdated, JoinRecord
<1> QED
    BY <1>1, <1>2

LEMMA StepHubInv == HubInv /\ [Next]_vars => HubInv'
<1> SUFFICES ASSUME HubInv, [Next]_vars PROVE HubInv'
    OBVIOUS
<1>1. TopicsInv /\ SessionInv /\ ConnTypes
    BY DEF HubInv, SessionInv
<1>2. TopicsInv'
    BY <1>1, StepTopics, StepTopicsInv
<1> QED
    BY <1>1, <1>2, StepSessionInv, StepDeliveryTypes DEF HubInv

(* A session ends, or begins on a socket no join can hold: nothing is        *)
(* expected of it.                                                          *)
LEMMA ConnectionMembers ==
    ASSUME MemberInv, NEW s \in Socket, Connect(s) \/ SocketClosed(s) \/ SocketError(s)
    PROVE  ExpectedIsJoined' /\ JoinsAreOld'
<1> DEFINE a == owner[s]
<1> USE SessionsAssumption
<1>0. /\ a \in Agent /\ sock \in [Socket -> {"new", "open", "closing", "closed"}]
      /\ session \in [Agent -> Socket \cup {NoSocket}] /\ joined \in [Agent -> SUBSET Topic]
      /\ synced \in [Agent -> SUBSET Topic]
    BY DEF MemberInv, HubInv, SessionInv, ConnTypes, DeliveryTypes
<1>1. \A k \in Ticket : join[k] # NoJoin => join[k] \in JoinRecord
    BY NoRecords DEF MemberInv, HubInv, DeliveryTypes
<1>2. UNCHANGED join
    BY DEF Connect, SocketClosed, SocketError
<1>3. \A u \in Socket : sock[u] # "new" => sock'[u] # "new"
    BY <1>0 DEF Connect, SocketClosed, SocketError
<1>4. JoinsAreOld'
    BY <1>1, <1>2, <1>3 DEF MemberInv, JoinsAreOld, JoinRecord
<1>5. \/ UNCHANGED <<session, joined, synced>>
      \/ /\ session' = [session EXCEPT ![a] = NoSocket]
         /\ joined' = [joined EXCEPT ![a] = {}] /\ synced' = [synced EXCEPT ![a] = {}]
      \/ /\ session' = [session EXCEPT ![a] = s] /\ sock[s] = "new"
         /\ joined' = [joined EXCEPT ![a] = {}] /\ synced' = [synced EXCEPT ![a] = {}]
    BY DEF Connect, SocketClosed, SocketError, HandleDisconnect, NewView, viewVars
<1>6. ASSUME NEW b \in Agent, NEW t \in Topic, Expects(b, t)', ~(UNCHANGED <<session, joined, synced>>)
      PROVE  b # a /\ Expects(b, t) /\ joined'[b] = joined[b]
    <2>1. CASE t \in synced'[b]
        BY <1>0, <1>5, <1>6, <2>1 DEF Expects
    <2>2. ASSUME NEW k \in Ticket, Awaits(k, b, t)'
          PROVE  b # a /\ Awaits(k, b, t)
        <3>1. join[k] # NoJoin /\ join[k].socket \in Socket /\ sock[join[k].socket] # "new"
            BY <1>1, <1>2, <2>2 DEF Awaits, MemberInv, JoinsAreOld, JoinRecord
        <3>2. join[k].socket = session'[b]
            BY <1>2, <2>2 DEF Awaits
        <3>3. b # a
            BY <1>0, <1>5, <1>6, <3>1, <3>2
        <3> QED
            BY <1>0, <1>2, <1>5, <1>6, <2>2, <3>3 DEF Awaits
    <2> QED
        BY <1>0, <1>5, <1>6, <2>1, <2>2 DEF Expects
<1>7. ExpectedIsJoined'
    <2>1. CASE UNCHANGED <<session, joined, synced>>
        BY <1>2, <2>1 DEF MemberInv, ExpectedIsJoined, Expects, Awaits
    <2>2. CASE ~(UNCHANGED <<session, joined, synced>>)
        BY <1>6, <2>2 DEF MemberInv, ExpectedIsJoined
    <2> QED
        BY <2>1, <2>2
<1> QED
    BY <1>4, <1>7

(* A join puts the topic on the record it is expected for; a leave takes it   *)
(* off and outdates the joins that wait.                                     *)
LEMMA JoinMembers ==
    ASSUME MemberInv, NEW s \in Socket, NEW t \in Topic, HandleJoin(s, t) \/ HandleLeave(s, t)
    PROVE  ExpectedIsJoined' /\ JoinsAreOld'
<1> DEFINE a == owner[s]
           new == [stage |-> "reading", agent |-> a, socket |-> session[a],
                   topic |-> t, rows |-> {}, current |-> TRUE]
<1> USE SessionsAssumption
<1>0. /\ a \in Agent /\ session[a] \in Socket /\ sock[session[a]] # "new"
      /\ joined \in [Agent -> SUBSET Topic] /\ synced \in [Agent -> SUBSET Topic]
      /\ UNCHANGED <<sock, session>>
    BY DEF MemberInv, HubInv, SessionInv, SessionIsAlive, ConnTypes, DeliveryTypes,
           HandleJoin, HandleLeave, Receives
<1>1. /\ synced' = [synced EXCEPT ![a] = @ \ {t}]
      /\ \/ joined' = [joined EXCEPT ![a] = @ \cup {t}]
         \/ joined' = [joined EXCEPT ![a] = @ \ {t}]
    BY DEF HandleJoin, HandleLeave, DropFromRecord
<1>2. \A k \in Ticket :
        join'[k] = Outdated(a, t)[k] \/ (HandleJoin(s, t) /\ join'[k] = new)
    BY DEF HandleJoin, HandleLeave, Outdated
<1>3. ASSUME NEW k \in Ticket, join'[k] # NoJoin
      PROVE  sock'[join'[k].socket] # "new"
    BY <1>0, <1>2, <1>3, OutdatedFacts DEF MemberInv, JoinsAreOld
<1>4. ASSUME NEW b \in Agent, NEW u \in Topic, Expects(b, u)'
      PROVE  u \in joined'[b]
    <2>1. CASE b = a /\ u = t /\ HandleJoin(s, t)
        BY <1>0, <2>1 DEF HandleJoin
    <2>2. CASE u \in synced'[b]
        BY <1>0, <1>1, <2>2 DEF MemberInv, ExpectedIsJoined, Expects
    <2>3. ASSUME NEW k \in Ticket, Awaits(k, b, u)', ~(b = a /\ u = t /\ HandleJoin(s, t))
          PROVE  ~(b = a /\ u = t) /\ Awaits(k, b, u)
        <3>1. join'[k] = Outdated(a, t)[k]
            BY <1>2, <2>3 DEF Awaits
        <3> QED
            BY <1>0, <2>3, <3>1, OutdatedFacts DEF Awaits, MemberInv
    <2>4. CASE \E k \in Ticket : Awaits(k, b, u)'
        BY <1>0, <1>1, <2>1, <2>3, <2>4 DEF MemberInv, ExpectedIsJoined, Expects
    <2> QED
        BY <1>4, <2>2, <2>4 DEF Expects
<1> QED
    BY <1>3, <1>4 DEF ExpectedIsJoined, JoinsAreOld

(* An answer that reaches the session makes it synced where it was awaited.  *)
LEMMA ReplyMembers ==
    ASSUME MemberInv, NEW k \in Ticket, ReadHistory(k) \/ AnswerJoin(k) \/ JoinFails(k)
    PROVE  ExpectedIsJoined' /\ JoinsAreOld'
<1> USE DEF MemberInv
<1>0. /\ join[k] # NoJoin /\ join[k] \in JoinRecord /\ join \in [Ticket -> {NoJoin} \cup JoinRecord]
      /\ synced \in [Agent -> SUBSET Topic]
      /\ UNCHANGED connVars
    BY NoRecords DEF HubInv, DeliveryTypes, ReadHistory, AnswerJoin, JoinFails
<1>1. \A i \in Ticket : join'[i] # NoJoin =>
        /\ join[i] # NoJoin
        /\ join'[i].agent = join[i].agent /\ join'[i].topic = join[i].topic
        /\ join'[i].socket = join[i].socket /\ join'[i].current = join[i].current
    BY <1>0 DEF ReadHistory, AnswerJoin, JoinFails, JoinRecord
<1>2. \A b \in Agent, t \in Topic : t \in synced'[b] =>
        t \in synced[b] \/ (\E i \in Ticket : Awaits(i, b, t))
    BY <1>0 DEF ReadHistory, AnswerJoin, JoinFails, Awaits, JoinRecord, viewVars
<1>3. \A b \in Agent, t \in Topic : Expects(b, t)' => Expects(b, t)
    BY <1>0, <1>1, <1>2 DEF Expects, Awaits, connVars
<1> QED
    BY <1>0, <1>1, <1>3 DEF ExpectedIsJoined, JoinsAreOld, connVars

LEMMA StepMembers == MemberInv /\ [Next]_vars => MemberInv'
<1> SUFFICES ASSUME MemberInv, [Next]_vars PROVE MemberInv'
    OBVIOUS
<1>1. HubInv'
    BY StepHubInv DEF MemberInv
<1>2. CASE UNCHANGED <<connVars, join, synced>>
    BY <1>1, <1>2 DEF MemberInv, ExpectedIsJoined, JoinsAreOld, Expects, Awaits, connVars
<1> QED
    BY <1>1, <1>2, ConnectionMembers, JoinMembers, ReplyMembers
    DEF MemberInv, Next, HandleChat, SaveChat, ChatFails, BroadcastChat, RestTopics, vars, viewVars

-----------------------------------------------------------------------------
(* No gap. *)

Old(t, m) == Cardinality({n \in Saved(t) : n > m}) >= HistoryLimit
Got(a, m) == seen[a] \cap {<<m, "history">>, <<m, "live">>} # {}

(* Message m of topic t was broadcast, a has not got it, and it is not too    *)
(* old for a history.                                                       *)
Missed(a, t, m) == chat[m].stage = "sent" /\ chat[m].topic = t /\ ~Got(a, m) /\ ~Old(t, m)

(* What a session that waits for its answer has missed is in the rows that    *)
(* were read for it.                                                        *)
MissedIsRead ==
    \A a \in Reached(Agent), t \in Topic, k \in Ticket, m \in Msg :
        Awaits(k, a, t) /\ join[k].stage = "read" /\ Missed(a, t, m) => m \in join[k].rows

NothingMissed == \A a \in Reached(Agent) : \A t \in synced[a], m \in Msg : ~Missed(a, t, m)

GapInv == MemberInv /\ MissedIsRead /\ NothingMissed

LEMMA NewerIsFinite ==
    ASSUME NEW S \in SUBSET Msg, NEW m
    PROVE  IsFiniteSet({n \in S : n > m}) /\ Cardinality({n \in S : n > m}) \in Nat
<1>1. IsFiniteSet(Msg)
    BY FS_Interval, SessionsAssumption DEF Msg
<1>2. {n \in S : n > m} \in SUBSET Msg
    OBVIOUS
<1>3. IsFiniteSet({n \in S : n > m})
    BY <1>1, <1>2, FS_Subset
<1> QED
    BY <1>3, FS_CardinalityType

(* More rows leave more of them too old. *)
LEMMA MoreIsOlder ==
    ASSUME NEW T \in SUBSET Msg, NEW S \in SUBSET T, NEW m,
           Cardinality({n \in S : n > m}) >= HistoryLimit
    PROVE  Cardinality({n \in T : n > m}) >= HistoryLimit
<1>1. {n \in S : n > m} \in SUBSET {n \in T : n > m}
    OBVIOUS
<1>2. Cardinality({n \in S : n > m}) <= Cardinality({n \in T : n > m})
    BY <1>1, NewerIsFinite, FS_Subset
<1>3. Cardinality({n \in S : n > m}) \in Nat /\ Cardinality({n \in T : n > m}) \in Nat
    BY NewerIsFinite
<1> QED
    BY <1>2, <1>3, SessionsAssumption

(* The rows read for a join hold each message that is not too old. *)
LEMMA NewestHoldsMissed ==
    ASSUME NEW a, NEW t, NEW m \in Msg, Missed(a, t, m)
    PROVE  m \in Newest(t)
<1>1. m \in Saved(t) /\ Saved(t) \in SUBSET Msg
    BY DEF Missed, Saved
<1>2. Cardinality({n \in Saved(t) : n > m}) \in Nat
    BY <1>1, NewerIsFinite
<1> QED
    BY <1>1, <1>2, SessionsAssumption DEF Missed, Old, Newest

(* Where nothing is broadcast and an agent keeps what it got, it misses       *)
(* nothing new.                                                             *)
LEMMA MissesNoMore ==
    ASSUME NEW a \in Agent, NEW t \in Topic, NEW m \in Msg, Missed(a, t, m)',
           UNCHANGED chat, seen[a] \subseteq seen'[a]
    PROVE  Missed(a, t, m)
BY DEF Missed, Got, Old, Saved

(* What a connect, close or error does to an agent: all that is expected of   *)
(* its session is over, or it goes on as before.                            *)
LEMMA ConnectionFacts ==
    ASSUME MemberInv, NEW s \in Socket, Connect(s) \/ SocketClosed(s) \/ SocketError(s),
           NEW b \in Agent
    PROVE  \/ synced'[b] = {} /\ \A k \in Ticket, t \in Topic : ~Awaits(k, b, t)'
           \/ /\ session'[b] = session[b] /\ synced'[b] = synced[b] /\ seen'[b] = seen[b]
              /\ b \in Reached(Agent)' => b \in Reached(Agent)
<1> DEFINE a == owner[s]
<1> USE SessionsAssumption
<1>0. /\ a \in Agent /\ sock \in [Socket -> {"new", "open", "closing", "closed"}]
      /\ session \in [Agent -> Socket \cup {NoSocket}]
      /\ synced \in [Agent -> SUBSET Topic]
      /\ seen \in [Agent -> SUBSET (Msg \X {"history", "live", "echo"})]
      /\ \A u \in Agent : session[u] # NoSocket => owner[session[u]] = u /\ sock[session[u]] # "new"
    BY DEF MemberInv, HubInv, SessionInv, ConnTypes, SessionIsAlive, DeliveryTypes
<1>1. \A k \in Ticket : join[k] # NoJoin =>
        join[k].socket \in Socket /\ sock[join[k].socket] # "new"
    BY NoRecords DEF MemberInv, HubInv, DeliveryTypes, JoinsAreOld, JoinRecord
<1>2. UNCHANGED join
    BY DEF Connect, SocketClosed, SocketError
<1>3. \/ UNCHANGED <<session, synced, seen>> /\ \A u \in Socket : sock'[u] = "open" => sock[u] = "open"
      \/ /\ session' = [session EXCEPT ![a] = NoSocket] /\ synced' = [synced EXCEPT ![a] = {}]
         /\ seen' = [seen EXCEPT ![a] = {}] /\ \A u \in Socket : sock'[u] = "open" => sock[u] = "open"
      \/ /\ session' = [session EXCEPT ![a] = s] /\ synced' = [synced EXCEPT ![a] = {}]
         /\ seen' = [seen EXCEPT ![a] = {}] /\ sock[s] = "new"
         /\ \A u \in Socket \ {s} : sock'[u] = "open" => sock[u] = "open"
    BY <1>0 DEF Connect, SocketClosed, SocketError, HandleDisconnect, NewView, viewVars
<1>4. CASE UNCHANGED <<session, synced, seen>> /\ \A u \in Socket : sock'[u] = "open" => sock[u] = "open"
    BY <1>0, <1>4 DEF Reached
<1>5. CASE /\ session' = [session EXCEPT ![a] = NoSocket] /\ synced' = [synced EXCEPT ![a] = {}]
           /\ seen' = [seen EXCEPT ![a] = {}]
           /\ \A u \in Socket : sock'[u] = "open" => sock[u] = "open"
    BY <1>0, <1>1, <1>2, <1>5 DEF Reached, Awaits
<1>6. CASE /\ session' = [session EXCEPT ![a] = s] /\ synced' = [synced EXCEPT ![a] = {}]
           /\ seen' = [seen EXCEPT ![a] = {}] /\ sock[s] = "new"
           /\ \A u \in Socket \ {s} : sock'[u] = "open" => sock[u] = "open"
    BY <1>0, <1>1, <1>2, <1>6 DEF Reached, Awaits
<1> QED
    BY <1>3, <1>4, <1>5, <1>6

LEMMA ConnectionGap ==
    ASSUME GapInv, NEW s \in Socket, Connect(s) \/ SocketClosed(s) \/ SocketError(s)
    PROVE  MissedIsRead' /\ NothingMissed'
<1>1. UNCHANGED <<chat, join>>
    BY DEF Connect, SocketClosed, SocketError
<1>2. Reached(Agent)' \subseteq Agent
    BY DEF Reached
<1>3. ASSUME NEW b \in Reached(Agent)', NEW t \in synced'[b], NEW m \in Msg, Missed(b, t, m)'
      PROVE  FALSE
    <2>1. b \in Agent /\ b \in Reached(Agent) /\ synced'[b] = synced[b] /\ seen'[b] = seen[b]
        BY <1>2, <1>3, ConnectionFacts DEF GapInv
    <2>2. t \in Topic
        BY <1>3, <2>1 DEF GapInv, MemberInv, HubInv, DeliveryTypes
    <2>3. Missed(b, t, m)
        BY <1>1, <1>3, <2>1, <2>2, MissesNoMore
    <2> QED
        BY <1>3, <2>1, <2>3 DEF GapInv, NothingMissed
<1>4. ASSUME NEW b \in Reached(Agent)', NEW t \in Topic, NEW k \in Ticket, NEW m \in Msg,
             Awaits(k, b, t)', join'[k].stage = "read", Missed(b, t, m)'
      PROVE  m \in join'[k].rows
    <2>1. b \in Agent /\ b \in Reached(Agent) /\ session'[b] = session[b] /\ seen'[b] = seen[b]
        BY <1>2, <1>4, ConnectionFacts DEF GapInv
    <2>2. Awaits(k, b, t) /\ Missed(b, t, m)
        BY <1>1, <1>4, <2>1, MissesNoMore DEF Awaits
    <2> QED
        BY <1>1, <1>4, <2>1, <2>2 DEF GapInv, MissedIsRead
<1> QED
    BY <1>3, <1>4 DEF MissedIsRead, NothingMissed

(* A join or leave only makes less be expected. *)
LEMMA JoinGap ==
    ASSUME GapInv, NEW s \in Socket, NEW u \in Topic, HandleJoin(s, u) \/ HandleLeave(s, u)
    PROVE  MissedIsRead' /\ NothingMissed'
<1> DEFINE a == owner[s]
<1>0. /\ a \in Agent /\ synced \in [Agent -> SUBSET Topic]
      /\ UNCHANGED <<chat, seen, sock, session>> /\ Reached(Agent)' = Reached(Agent)
      /\ Reached(Agent) \subseteq Agent
    BY DEF GapInv, MemberInv, HubInv, SessionInv, ConnTypes, DeliveryTypes,
           HandleJoin, HandleLeave, Reached
<1>1. \A b \in Agent : synced'[b] \subseteq synced[b]
    BY <1>0 DEF HandleJoin, HandleLeave
<1>2. \A b \in Agent, t \in Topic, m \in Msg : Missed(b, t, m)' => Missed(b, t, m)
    BY <1>0, MissesNoMore
<1>3. NothingMissed'
    BY <1>0, <1>1, <1>2 DEF GapInv, NothingMissed
<1>4. ASSUME NEW b \in Reached(Agent), NEW t \in Topic, NEW k \in Ticket,
             Awaits(k, b, t)', join'[k].stage = "read"
      PROVE  Awaits(k, b, t) /\ join[k].stage = "read" /\ join'[k].rows = join[k].rows
    <2>1. join'[k] = Outdated(a, u)[k]
        <3> DEFINE new == [stage |-> "reading", agent |-> a, socket |-> session[a],
                           topic |-> u, rows |-> {}, current |-> TRUE]
        <3>1. join'[k] = Outdated(a, u)[k] \/ join'[k] = new
            BY DEF HandleJoin, HandleLeave, Outdated
        <3>2. new.stage = "reading"
            OBVIOUS
        <3> HIDE DEF new
        <3> QED
            BY <1>4, <3>1, <3>2
    <2>2. join[k] # NoJoin
        BY <1>4, <2>1, OutdatedFacts DEF Awaits, GapInv, MemberInv
    <2> QED
        BY <1>0, <1>4, <2>1, <2>2, OutdatedFacts DEF Awaits, GapInv, MemberInv
<1>5. MissedIsRead'
    BY <1>0, <1>2, <1>4 DEF GapInv, MissedIsRead
<1> QED
    BY <1>3, <1>5

(* What is read for a join holds all its agent has missed, and so does what   *)
(* the agent is then sent.                                                  *)
LEMMA ReplyGap ==
    ASSUME GapInv, NEW k \in Ticket, ReadHistory(k) \/ AnswerJoin(k) \/ JoinFails(k)
    PROVE  MissedIsRead' /\ NothingMissed'
<1> USE DEF GapInv, MemberInv
<1>0. /\ join[k] \in JoinRecord /\ join \in [Ticket -> {NoJoin} \cup JoinRecord]
      /\ synced \in [Agent -> SUBSET Topic]
      /\ seen \in [Agent -> SUBSET (Msg \X {"history", "live", "echo"})]
      /\ UNCHANGED <<chat, sock, session>> /\ Reached(Agent)' = Reached(Agent)
      /\ Reached(Agent) \subseteq Agent
    BY NoRecords DEF HubInv, DeliveryTypes, ReadHistory, AnswerJoin, JoinFails, Reached, connVars
<1>1. \A b \in Agent : seen[b] \subseteq seen'[b]
    BY <1>0 DEF ReadHistory, AnswerJoin, JoinFails, viewVars
<1>2. \A b \in Agent, t \in Topic, m \in Msg : Missed(b, t, m)' => Missed(b, t, m)
    BY <1>0, <1>1, MissesNoMore
<1>3. \A i \in Ticket \ {k} : join'[i] = join[i]
    BY <1>0 DEF ReadHistory, AnswerJoin, JoinFails
<1>4. CASE ReadHistory(k)
    <2>1. /\ join'[k].rows = Newest(join[k].topic) /\ join'[k].topic = join[k].topic
          /\ UNCHANGED synced
        BY <1>0, <1>4 DEF ReadHistory, JoinRecord, viewVars
    <2>2. ASSUME NEW b \in Agent, NEW t \in Topic, NEW m \in Msg, Missed(b, t, m), Awaits(k, b, t)'
          PROVE  m \in join'[k].rows
        BY <2>1, <2>2, NewestHoldsMissed DEF Awaits
    <2> QED
        BY <1>0, <1>2, <1>3, <2>1, <2>2 DEF MissedIsRead, NothingMissed, Awaits
<1>5. CASE AnswerJoin(k)
    <2> DEFINE b == join[k].agent
               t == join[k].topic
    <2>1. join'[k] = NoJoin /\ b \in Agent /\ t \in Topic /\ join[k] # NoJoin
        BY <1>0, <1>5, NoRecords DEF AnswerJoin, JoinRecord
    <2>2. MissedIsRead'
        BY <1>0, <1>2, <1>3, <2>1 DEF MissedIsRead, Awaits
    <2>3. \A c \in Agent : \A u \in synced'[c] \ synced[c] :
            c = b /\ u = t /\ Awaits(k, b, t) /\ b \in Reached(Agent)
              /\ seen'[b] = seen[b] \cup (join[k].rows \X {"history"})
        BY <1>0, <1>5, <2>1 DEF AnswerJoin, Awaits, Reached
    <2>4. ASSUME NEW c \in Reached(Agent), NEW u \in synced'[c], NEW m \in Msg, Missed(c, u, m)'
          PROVE  FALSE
        <3>1. c \in Agent /\ u \in Topic
            BY <1>0, <2>1, <2>3, <2>4
        <3>2. Missed(c, u, m)
            BY <1>2, <2>4, <3>1
        <3>3. CASE u \in synced[c]
            BY <2>4, <3>2, <3>3 DEF NothingMissed
        <3>4. CASE u \notin synced[c]
            <4>1. m \in join[k].rows
                <5>1. c = b /\ u = t /\ Awaits(k, b, t) /\ b \in Reached(Agent)
                    BY <2>3, <2>4, <3>1, <3>4
                <5>2. join[k].stage = "read" /\ Missed(b, t, m)
                    BY <1>5, <3>2, <5>1 DEF AnswerJoin
                <5> QED
                    BY <2>1, <5>1, <5>2 DEF MissedIsRead
            <4>2. <<m, "history">> \in seen'[c]
                BY <2>3, <2>4, <3>1, <3>4, <4>1
            <4> QED
                BY <2>4, <4>2 DEF Missed, Got
        <3> QED
            BY <3>3, <3>4
    <2> QED
        BY <1>0, <2>2, <2>4 DEF NothingMissed
<1>6. CASE JoinFails(k)
    <2>1. join'[k] = NoJoin /\ UNCHANGED synced
        BY <1>0, <1>6 DEF JoinFails
    <2> QED
        BY <1>0, <1>2, <1>3, <2>1 DEF MissedIsRead, NothingMissed, Awaits
<1> QED
    BY <1>4, <1>5, <1>6

(* How the steps of a message move it. *)
LEMMA ChatMoves ==
    ASSUME HubInv, NEW m \in Msg,
           \/ \E s \in Socket, t \in Topic : HandleChat(s, t)
           \/ \E n \in Msg : SaveChat(n) \/ ChatFails(n) \/ BroadcastChat(n)
    PROVE  \/ chat[m].stage = "none" /\ chat'[m].stage \in {"none", "saving"}
           \/ /\ chat[m].stage # "none" /\ chat'[m].topic = chat[m].topic
              /\ \/ chat'[m].stage = chat[m].stage
                 \/ chat[m].stage = "saving" /\ chat'[m].stage \in {"saved", "lost", "unsent"}
                 \/ BroadcastChat(m) /\ chat'[m].stage = "sent"
<1> DEFINE Goal ==
      \/ chat[m].stage = "none" /\ chat'[m].stage \in {"none", "saving"}
      \/ /\ chat[m].stage # "none" /\ chat'[m].topic = chat[m].topic
         /\ \/ chat'[m].stage = chat[m].stage
            \/ chat[m].stage = "saving" /\ chat'[m].stage \in {"saved", "lost", "unsent"}
            \/ BroadcastChat(m) /\ chat'[m].stage = "sent"
<1>1. chat \in [Msg -> {NoChat} \cup ChatRecord]
    BY DEF HubInv, DeliveryTypes
<1>2. NoChat.stage = "none" /\ (chat[m] = NoChat <=> chat[m].stage = "none")
    BY <1>1 DEF NoChat, ChatRecord
<1>3. CASE chat'[m] = chat[m]
    BY <1>2, <1>3
<1>4. ASSUME NEW s \in Socket, NEW t \in Topic, HandleChat(s, t), chat'[m] # chat[m]
      PROVE  Goal
    <2>1. chat[m] = NoChat
        BY <1>1, <1>4 DEF HandleChat
    <2>2. chat'[m].stage = "saving"
        BY <1>1, <1>4 DEF HandleChat
    <2> QED
        BY <1>2, <2>1, <2>2
<1>5. ASSUME NEW n \in Msg, SaveChat(n) \/ ChatFails(n) \/ BroadcastChat(n), chat'[m] # chat[m]
      PROVE  Goal
    <2>1. n = m
        BY <1>1, <1>5 DEF SaveChat, ChatFails, BroadcastChat
    <2>2. chat[m].stage \in {"saving", "saved"} /\ chat[m] \in ChatRecord
        BY <1>1, <1>5, <2>1, NoRecords DEF SaveChat, ChatFails, BroadcastChat
    <2>3. PICK st \in {"saved", "lost", "unsent", "sent"} :
            /\ chat' = [chat EXCEPT ![m].stage = st]
            /\ \/ chat[m].stage = "saving" /\ st # "sent"
               \/ BroadcastChat(m) /\ st = "sent"
        <3>1. CASE SaveChat(m)
            BY <3>1 DEF SaveChat
        <3>2. CASE ChatFails(m)
            BY <3>2 DEF ChatFails
        <3>3. CASE BroadcastChat(m)
            <4>1. chat' = [chat EXCEPT ![m].stage = "sent"]
                BY <3>3 DEF BroadcastChat
            <4> QED
                BY <3>3, <4>1
        <3> QED
            BY <1>5, <2>1, <3>1, <3>2, <3>3
    <2>4. chat'[m] = [chat[m] EXCEPT !.stage = st]
        BY <1>1, <2>3
    <2>5. chat'[m].stage = st /\ chat'[m].topic = chat[m].topic
        BY <2>2, <2>4 DEF ChatRecord
    <2> QED
        BY <2>2, <2>3, <2>5
<1> QED
    BY <1>3, <1>4, <1>5

(* A broadcast reaches whoever expects the topic, being a member; the other   *)
(* steps of a message broadcast nothing and unsave nothing.                  *)
LEMMA ChatGap ==
    ASSUME GapInv, \/ \E s \in Socket, t \in Topic : HandleChat(s, t)
                   \/ \E m \in Msg : SaveChat(m) \/ ChatFails(m) \/ BroadcastChat(m)
    PROVE  MissedIsRead' /\ NothingMissed'
<1> USE DEF GapInv, MemberInv
<1>0. /\ chat \in [Msg -> {NoChat} \cup ChatRecord]
      /\ synced \in [Agent -> SUBSET Topic]
      /\ seen \in [Agent -> SUBSET (Msg \X {"history", "live", "echo"})]
      /\ UNCHANGED <<sock, session, join, synced>> /\ Reached(Agent)' = Reached(Agent)
      /\ Reached(Agent) \subseteq Agent
    BY DEF HubInv, DeliveryTypes, HandleChat, SaveChat, ChatFails, BroadcastChat,
           Reached, connVars, viewVars
<1>1. \A t \in Topic : Saved(t) \subseteq Saved(t)' /\ Saved(t)' \in SUBSET Msg
    <2>1. ASSUME NEW m \in Msg, chat[m].stage \in {"saved", "sent", "unsent"}
          PROVE  /\ chat'[m].stage \in {"saved", "sent", "unsent"}
                 /\ chat'[m].topic = chat[m].topic
        BY <2>1, ChatMoves
    <2> QED
        BY <2>1 DEF Saved
<1>2. ASSUME NEW t \in Topic, NEW m \in Msg, Old(t, m)
      PROVE  Old(t, m)'
    BY <1>1, <1>2, MoreIsOlder DEF Old
<1>3. \A b \in Agent : seen[b] \subseteq seen'[b]
    BY <1>0 DEF HandleChat, SaveChat, ChatFails, BroadcastChat, viewVars
<1>4. ASSUME NEW b \in Reached(Agent), NEW t \in Topic, NEW m \in Msg, Missed(b, t, m)', Expects(b, t)
      PROVE  Missed(b, t, m)
    <2>1. ~Old(t, m) /\ ~Got(b, m)
        BY <1>0, <1>2, <1>3, <1>4 DEF Missed, Got
    <2>2. CASE chat[m].stage = "sent"
        <3>1. chat'[m].topic = chat[m].topic
            BY <2>2, ChatMoves
        <3> QED
            BY <1>4, <2>1, <2>2, <3>1 DEF Missed
    <2>3. CASE chat[m].stage # "sent"
        <3>1. BroadcastChat(m) /\ chat[m].topic = t
            BY <1>4, <2>3, ChatMoves DEF Missed
        <3>3. b \in agents[t]
            BY <1>0, <1>4, ExpectingIsMember
        <3>4. b \in Reached(agents[t])
            BY <3>3 DEF Reached
        <3>5. <<m, "live">> \in seen'[b]
            BY <1>0, <3>1, <3>4 DEF BroadcastChat
        <3> QED
            BY <1>4, <3>5 DEF Missed, Got
    <2> QED
        BY <2>2, <2>3
<1>5. \A b \in Agent, t \in Topic, k \in Ticket : Awaits(k, b, t)' <=> Awaits(k, b, t)
    BY <1>0 DEF Awaits
<1>6. MissedIsRead'
    BY <1>0, <1>4, <1>5 DEF MissedIsRead, Expects
<1>7. NothingMissed'
    BY <1>0, <1>4 DEF NothingMissed, Expects
<1> QED
    BY <1>6, <1>7

LEMMA StepGap == GapInv /\ [Next]_vars => GapInv'
<1> SUFFICES ASSUME GapInv, [Next]_vars PROVE GapInv'
    OBVIOUS
<1>1. MemberInv'
    BY StepMembers DEF GapInv
<1>2. CASE UNCHANGED <<connVars, chat, join, viewVars>>
    BY <1>1, <1>2 DEF GapInv, MissedIsRead, NothingMissed, Missed, Got, Old, Saved, Newest,
                      Awaits, Reached, connVars, viewVars
<1> QED
    BY <1>1, <1>2, ConnectionGap, JoinGap, ReplyGap, ChatGap
    DEF GapInv, Next, RestTopics, vars

LEMMA GapInitially == Init /\ TopicsInv /\ SessionInv => GapInv
<1> SUFFICES ASSUME Init, TopicsInv, SessionInv PROVE GapInv
    OBVIOUS
<1>1. DeliveryTypes
    BY DEF Init, DeliveryTypes
<1>2. \A k \in Ticket : join[k] = NoJoin
    BY DEF Init
<1>3. \A a \in Agent : synced[a] = {}
    BY DEF Init
<1> QED
    BY <1>1, <1>2, <1>3 DEF GapInv, MemberInv, HubInv, ExpectedIsJoined, JoinsAreOld, Expects,
                            Awaits, MissedIsRead, NothingMissed, Reached

(* A session whose join was answered has been sent each message broadcast on  *)
(* the topic, or it was too old for the history: whatever number of agents,  *)
(* sockets, messages and joins, and whichever calls of the database fail.    *)
THEOREM NoGapHolds == Spec => []NoGap
<1>1. GapInv => NoGap
    BY DEF GapInv, NothingMissed, NoGap, Missed, Got, Old
<1>2. Spec => []GapInv
    BY GapInitially, StepGap, TopicsInvInHub, SessionInvariant, PTL DEF Spec
<1> QED
    BY <1>1, <1>2, PTL

-----------------------------------------------------------------------------
(* The member lists. *)

(* A join of t by b has not been answered, or was given up. *)
Unanswered(b, t) ==
    \/ \E k \in Ticket : join[k] # NoJoin /\ join[k].agent = b /\ join[k].topic = t
    \/ <<b, t>> \in unheard

SelfListed == \A a \in Agent : \A t \in synced[a] : a \in roster[a][t]

NobodyUnlisted ==
    \A a \in Reached(Agent) : \A t \in synced[a] \ isPrivate :
        \A b \in agents[t] \ roster[a][t] : Unanswered(b, t)

RosterInv == MemberInv /\ SelfListed /\ NobodyUnlisted

(* The variables and bounds that the steps below refer to. *)
LEMMA RosterTypes ==
    ASSUME MemberInv
    PROVE  /\ synced \in [Agent -> SUBSET Topic]
           /\ roster \in [Agent -> [Topic -> SUBSET Agent]]
           /\ agents \in [Topic -> SUBSET Agent]
           /\ owner \in [Socket -> Agent]
           /\ Reached(Agent) \subseteq Agent
BY DEF MemberInv, HubInv, DeliveryTypes, TopicsInv, TopicsTypeOK, SessionInv, ConnTypes, Reached

(* Who is disconnected is taken from the topics and from the lists alike. *)
LEMMA ConnectionRoster ==
    ASSUME RosterInv, NEW s \in Socket, Connect(s) \/ SocketClosed(s) \/ SocketError(s)
    PROVE  SelfListed' /\ NobodyUnlisted'
<1> DEFINE a == owner[s]
<1>0. /\ MemberInv /\ a \in Agent
      /\ synced \in [Agent -> SUBSET Topic]
      /\ roster \in [Agent -> [Topic -> SUBSET Agent]]
      /\ agents \in [Topic -> SUBSET Agent]
    BY RosterTypes DEF RosterInv
<1>1. UNCHANGED <<join, isPrivate>> /\ Reached(Agent)' \subseteq Agent
    BY DEF Connect, SocketClosed, SocketError, HandleDisconnect, RemoveAgent, topicVars,
           roomVars, Reached
<1>2. ASSUME NEW b \in Agent, synced'[b] # {}
      PROVE  /\ synced'[b] = synced[b]
             /\ \/ /\ UNCHANGED <<agents, unheard>> /\ roster'[b] = roster[b]
                \/ /\ b # a
                   /\ \A t \in Topic : agents'[t] = agents[t] \ {a}
                   /\ \A t \in Topic : roster[b][t] \ {a} \subseteq roster'[b][t]
                   /\ \A c, t : c # a /\ <<c, t>> \in unheard => <<c, t>> \in unheard'
    <2>1. CASE Connect(s)
        BY <1>0, <1>2, <2>1 DEF Connect, NewView, topicVars, roomVars
    <2>2. CASE HandleDisconnect(a) /\ session[a] = NoSocket
        BY <2>2 DEF HandleDisconnect, viewVars, topicVars, roomVars
    <2>3. CASE HandleDisconnect(a) /\ session[a] # NoSocket
        <3>1. b # a /\ synced'[b] = synced[b]
            BY <1>0, <1>2, <2>3 DEF HandleDisconnect, NewView
        <3>2. \A t \in Topic : agents'[t] = agents[t] \ {a}
            <4>1. agents' = [t \in Topic |-> IF t \in agentTopics[a]
                                            THEN agents[t] \ {a} ELSE agents[t]]
                BY <2>3 DEF HandleDisconnect, RemoveAgent
            <4>2. \A t \in Topic : a \in agents[t] <=> t \in agentTopics[a]
                BY <1>0 DEF MemberInv, HubInv, TopicsInv, MembershipMirror
            <4> QED
                BY <1>0, <4>1, <4>2
        <3>3. roster'[b] = ToldGone(Reached(Agent \ {a}), a, agentTopics[a])[b]
            BY <2>3, <3>1 DEF HandleDisconnect, ToldGone
        <3>4. \A t \in Topic : roster[b][t] \ {a} \subseteq roster'[b][t]
            BY <1>0, <3>3 DEF ToldGone
        <3>5. unheard' = {p \in unheard : p[1] # a}
            BY <2>3 DEF HandleDisconnect
        <3> QED
            BY <3>1, <3>2, <3>4, <3>5
    <2> QED
        BY <2>1, <2>2, <2>3 DEF SocketClosed, SocketError
<1>3. SelfListed'
    BY <1>0, <1>2 DEF RosterInv, SelfListed
<1>4. ASSUME NEW b \in Reached(Agent)', NEW t \in synced'[b] \ isPrivate',
             NEW c \in agents'[t] \ roster'[b][t]
      PROVE  Unanswered(c, t)'
    <2>1. b \in Agent /\ b \in Reached(Agent) /\ t \in synced[b] \ isPrivate /\ t \in Topic
        BY <1>0, <1>1, <1>2, <1>4, ConnectionFacts
    <2>2. c \in agents[t] \ roster[b][t]
        BY <1>0, <1>2, <1>4, <2>1
    <2>3. Unanswered(c, t)
        BY <2>1, <2>2 DEF RosterInv, NobodyUnlisted
    <2>4. <<c, t>> \in unheard => <<c, t>> \in unheard'
        BY <1>0, <1>2, <1>4, <2>1
    <2> QED
        BY <1>1, <2>3, <2>4 DEF Unanswered
<1> QED
    BY <1>3, <1>4 DEF NobodyUnlisted

(* Who joins has a join to be answered; who leaves is taken off the lists of  *)
(* those that stay.                                                         *)
LEMMA JoinRoster ==
    ASSUME RosterInv, NEW s \in Socket, NEW t \in Topic, HandleJoin(s, t) \/ HandleLeave(s, t)
    PROVE  SelfListed' /\ NobodyUnlisted'
<1> DEFINE a == owner[s]
<1>0. /\ MemberInv /\ a \in Agent
      /\ synced \in [Agent -> SUBSET Topic]
      /\ roster \in [Agent -> [Topic -> SUBSET Agent]]
      /\ agents \in [Topic -> SUBSET Agent]
      /\ Reached(Agent) \subseteq Agent /\ Reached(Agent)' = Reached(Agent)
    BY RosterTypes DEF RosterInv, HandleJoin, HandleLeave, Reached
<1>1. synced' = [synced EXCEPT ![a] = @ \ {t}] /\ UNCHANGED isPrivate
    BY DEF HandleJoin, HandleLeave, JoinTopic, LeaveTopic, topicVars, roomVars
<1>2. \A k \in Ticket : join[k] # NoJoin =>
        join'[k] # NoJoin /\ join'[k].agent = join[k].agent /\ join'[k].topic = join[k].topic
    <2>1. \A k \in Ticket : join[k] # NoJoin => join'[k] = Outdated(a, t)[k]
        BY DEF HandleJoin, HandleLeave, Outdated
    <2> QED
        BY <1>0, <2>1, OutdatedFacts DEF MemberInv
<1>3. CASE HandleJoin(s, t)
    <2>1. UNCHANGED <<roster, unheard>> /\ agents' = [agents EXCEPT ![t] = @ \cup {a}]
        BY <1>3 DEF HandleJoin, JoinTopic, AddMember
    <2>2. Unanswered(a, t)'
        <3> DEFINE new == [stage |-> "reading", agent |-> a, socket |-> session[a],
                           topic |-> t, rows |-> {}, current |-> TRUE]
        <3>1. PICK k \in Ticket : join' = [Outdated(a, t) EXCEPT ![k] = new]
            BY <1>3 DEF HandleJoin
        <3>2. join'[k] = new
            BY <3>1 DEF Outdated
        <3>3. new # NoJoin /\ new.agent = a /\ new.topic = t
            <4>1. new.stage = "reading" /\ NoJoin.stage = "idle"
                BY DEF NoJoin
            <4> QED
                BY <4>1
        <3>4. owner' = owner
            BY <1>3 DEF HandleJoin
        <3> HIDE DEF new
        <3> QED
            BY <3>2, <3>3, <3>4 DEF Unanswered
    <2>3. \A c, u : Unanswered(c, u) => Unanswered(c, u)'
        BY <1>2, <2>1 DEF Unanswered
    <2>4. SelfListed'
        BY <1>0, <1>1, <2>1 DEF RosterInv, SelfListed
    <2>5. ASSUME NEW b \in Reached(Agent), NEW u \in synced'[b] \ isPrivate,
                 NEW c \in agents'[u] \ roster[b][u], ~(c = a /\ u = t)
          PROVE  Unanswered(c, u)
        BY <1>0, <1>1, <2>1, <2>5 DEF RosterInv, NobodyUnlisted
    <2>6. owner' = owner
        BY <1>3 DEF HandleJoin
    <2> QED
        BY <1>0, <1>1, <2>1, <2>2, <2>3, <2>4, <2>5, <2>6 DEF NobodyUnlisted
<1>4. CASE HandleLeave(s, t)
    <2>1. \A u \in Topic : agents'[u] = IF u = t THEN agents[u] \ {a} ELSE agents[u]
        <3>1. CASE LeaveTopic(a, t)
            BY <1>0, <3>1 DEF LeaveTopic
        <3>2. CASE t \notin created /\ UNCHANGED topicVars
            <4>1. agents[t] = {}
                BY <3>2 DEF MemberInv, HubInv, TopicsInv, MembersOfCreated, RosterInv
            <4> QED
                BY <3>2, <4>1 DEF topicVars, roomVars
        <3> QED
            BY <1>4, <3>1, <3>2 DEF HandleLeave
    <2>2. \A b \in Agent : \A u \in Topic :
            /\ u # t => roster'[b][u] = roster[b][u]
            /\ roster[b][u] \ {a} \subseteq roster'[b][u]
            /\ roster'[b][u] \subseteq roster[b][u]
        BY <1>0, <1>4 DEF HandleLeave, ToldGone
    <2>3. unheard' = unheard \ {<<a, t>>}
        BY <1>4 DEF HandleLeave
    <2>4. \A c, u : Unanswered(c, u) /\ ~(c = a /\ u = t) => Unanswered(c, u)'
        BY <1>2, <2>3 DEF Unanswered
    <2>5. SelfListed'
        BY <1>0, <1>1, <2>2 DEF RosterInv, SelfListed
    <2>6. ASSUME NEW b \in Reached(Agent), NEW u \in synced'[b] \ isPrivate,
                 NEW c \in agents'[u] \ roster'[b][u]
          PROVE  Unanswered(c, u) /\ ~(c = a /\ u = t)
        <3>1. b \in Agent /\ u \in Topic /\ u \in synced[b] \ isPrivate
            BY <1>0, <1>1, <2>6
        <3>2. c \in agents[u] \ roster[b][u] /\ ~(c = a /\ u = t)
            <4>1. c \in agents[u] /\ ~(c = a /\ u = t)
                BY <2>1, <2>6, <3>1
            <4>2. u # t => roster'[b][u] = roster[b][u]
                BY <2>2, <3>1
            <4>3. roster[b][u] \ {a} \subseteq roster'[b][u]
                BY <2>2, <3>1
            <4> QED
                BY <2>6, <4>1, <4>2, <4>3
        <3> QED
            BY <3>1, <3>2 DEF RosterInv, NobodyUnlisted
    <2> QED
        BY <1>0, <1>1, <2>4, <2>5, <2>6 DEF NobodyUnlisted
<1> QED
    BY <1>3, <1>4

(* An answer lists the members there are, its own agent among them, and every *)
(* other present member lists the agent that has come.                       *)
LEMMA AnswerRoster ==
    ASSUME RosterInv, NEW k \in Ticket, AnswerJoin(k)
    PROVE  SelfListed' /\ NobodyUnlisted'
<1> DEFINE b == join[k].agent
           t == join[k].topic
           replied == session[b] = join[k].socket /\ b \in Reached({b})
<1>0. /\ MemberInv /\ join[k] \in JoinRecord /\ b \in Agent /\ t \in Topic
      /\ join \in [Ticket -> {NoJoin} \cup JoinRecord]
      /\ synced \in [Agent -> SUBSET Topic]
      /\ roster \in [Agent -> [Topic -> SUBSET Agent]]
      /\ agents \in [Topic -> SUBSET Agent]
      /\ Reached(Agent) \subseteq Agent /\ Reached(Agent)' = Reached(Agent)
      /\ UNCHANGED <<agents, isPrivate>>
    <2>1. join[k] \in JoinRecord /\ join \in [Ticket -> {NoJoin} \cup JoinRecord]
        BY NoRecords DEF AnswerJoin, RosterInv, MemberInv, HubInv, DeliveryTypes
    <2>2. UNCHANGED <<agents, isPrivate, sock, session>>
        BY DEF AnswerJoin, topicVars, roomVars, connVars
    <2> QED
        BY <2>1, <2>2, RosterTypes DEF RosterInv, JoinRecord, Reached
<1>1. \A c \in Agent : \A u \in synced'[c] \ synced[c] :
        c = b /\ u = t /\ replied /\ Awaits(k, b, t)
    BY <1>0, NoRecords DEF AnswerJoin, Awaits
<1>2. \A c \in Agent, u \in Topic :
        /\ c = b /\ u = t /\ replied => roster'[c][u] = agents[t]
        /\ ~(c = b /\ u = t /\ replied) => roster[c][u] \subseteq roster'[c][u]
        /\ c \in Reached(agents[t] \ {b}) /\ u = t => b \in roster'[c][u]
    BY <1>0 DEF AnswerJoin, Reached
<1>3. ASSUME NEW c, NEW u, Unanswered(c, u), ~(c = b /\ u = t)
      PROVE  Unanswered(c, u)'
    <2>1. \A i \in Ticket \ {k} : join'[i] = join[i]
        BY <1>0 DEF AnswerJoin
    <2>2. unheard' = unheard \ {<<b, t>>}
        BY DEF AnswerJoin
    <2> QED
        BY <1>3, <2>1, <2>2 DEF Unanswered
<1>4. ASSUME NEW c \in Agent, NEW u \in synced'[c]
      PROVE  u \in Topic /\ c \in roster'[c][u]
             /\ (u \in synced[c] \/ (c = b /\ u = t /\ replied))
    <2>1. u \in synced[c] \/ (c = b /\ u = t /\ replied /\ Awaits(k, b, t))
        BY <1>1, <1>4
    <2>2. u \in Topic /\ Expects(c, u)
        BY <1>0, <2>1 DEF Expects
    <2>3. CASE c = b /\ u = t /\ replied
        BY <1>0, <1>2, <2>2, <2>3, ExpectingIsMember
    <2>4. CASE ~(c = b /\ u = t /\ replied)
        BY <1>2, <2>1, <2>2, <2>4 DEF RosterInv, SelfListed
    <2> QED
        BY <2>1, <2>2, <2>3, <2>4
<1>5. ASSUME NEW c \in Reached(Agent), NEW u \in synced'[c] \ isPrivate,
             NEW d \in agents[u] \ roster'[c][u]
      PROVE  Unanswered(d, u)'
    <2>1. c \in Agent /\ u \in Topic /\ c # d /\ d \in Agent
        BY <1>0, <1>4, <1>5
    <2>2. ~(c = b /\ u = t /\ replied)
        BY <1>2, <1>5, <2>1
    <2>3. u \in synced[c] /\ d \in agents[u] \ roster[c][u]
        BY <1>2, <1>4, <1>5, <2>1, <2>2
    <2>4. Unanswered(d, u)
        BY <1>5, <2>3 DEF RosterInv, NobodyUnlisted
    <2>5. ~(d = b /\ u = t)
        <3>1. c \in agents[u]
            BY <1>0, <2>1, <2>3, ExpectingIsMember DEF Expects
        <3>2. d = b /\ u = t => c \in Reached(agents[t] \ {b})
            BY <1>5, <2>1, <3>1 DEF Reached
        <3> QED
            BY <1>2, <1>5, <2>1, <3>2
    <2> QED
        BY <1>3, <2>4, <2>5
<1> QED
    BY <1>0, <1>4, <1>5 DEF SelfListed, NobodyUnlisted

LEMMA StepRoster == RosterInv /\ [Next]_vars => RosterInv'
<1> SUFFICES ASSUME RosterInv, [Next]_vars PROVE RosterInv'
    OBVIOUS
<1>1. MemberInv'
    BY StepMembers DEF RosterInv
<1>2. ASSUME NEW k \in Ticket, ReadHistory(k) \/ JoinFails(k)
      PROVE  SelfListed' /\ NobodyUnlisted'
    <2>0. /\ join[k] \in JoinRecord /\ join \in [Ticket -> {NoJoin} \cup JoinRecord]
          /\ UNCHANGED <<synced, roster, agents, isPrivate, sock, session>>
        BY <1>2, NoRecords
        DEF ReadHistory, JoinFails, RosterInv, MemberInv, HubInv, DeliveryTypes,
            topicVars, roomVars, connVars, viewVars
    <2>1. ASSUME NEW b, NEW t, Unanswered(b, t) PROVE Unanswered(b, t)'
        <3>1. CASE ReadHistory(k)
            <4>1. \A i \in Ticket \ {k} : join'[i] = join[i]
                BY <2>0, <3>1 DEF ReadHistory
            <4>2. join'[k] = [join[k] EXCEPT !.stage = "read", !.rows = Newest(join[k].topic)]
                BY <2>0, <3>1 DEF ReadHistory
            <4>3. /\ join'[k].agent = join[k].agent /\ join'[k].topic = join[k].topic
                  /\ join'[k].stage = "read"
                BY <2>0, <4>2 DEF JoinRecord
            <4>4. join'[k] # NoJoin
                BY <4>3 DEF NoJoin
            <4> QED
                BY <2>1, <3>1, <4>1, <4>3, <4>4 DEF Unanswered, ReadHistory, viewVars
        <3>2. CASE JoinFails(k)
            BY <2>0, <2>1, <3>2 DEF Unanswered, JoinFails
        <3> QED
            BY <1>2, <3>1, <3>2
    <2> QED
        BY <2>0, <2>1 DEF RosterInv, SelfListed, NobodyUnlisted, Reached
<1>3. CASE RestTopics
    <2>1. UNCHANGED <<connVars, chat, join, viewVars>>
        BY <1>3 DEF RestTopics
    <2>2. \A t \in Topic : isPrivate \subseteq isPrivate' /\ (t \notin isPrivate' => agents'[t] = agents[t])
        BY <1>3, RosterTypes
        DEF RestTopics, CreateTopic, JoinPrivateTopic, AddMember, InviteToTopic, Tick, roomVars,
            RosterInv
    <2>3. ASSUME NEW a \in Reached(Agent), NEW t \in synced[a] \ isPrivate'
          PROVE  t \in synced[a] \ isPrivate /\ agents'[t] = agents[t]
        BY <2>2, <2>3, RosterTypes DEF RosterInv
    <2>4. Reached(Agent)' = Reached(Agent) /\ \A b, t : Unanswered(b, t) => Unanswered(b, t)'
        BY <2>1 DEF Reached, Unanswered, connVars, viewVars
    <2>5. synced' = synced /\ roster' = roster
        BY <2>1 DEF viewVars
    <2>6. SelfListed'
        BY <2>5 DEF RosterInv, SelfListed
    <2>7. NobodyUnlisted'
        BY <2>3, <2>4, <2>5 DEF RosterInv, NobodyUnlisted
    <2> QED
        BY <1>1, <2>6, <2>7 DEF RosterInv
<1>4. CASE UNCHANGED <<topicVars, connVars, join, synced, roster, unheard>>
    <2>1. Reached(Agent)' = Reached(Agent) /\ \A b, t : Unanswered(b, t) => Unanswered(b, t)'
        BY <1>4 DEF Reached, Unanswered, connVars
    <2>2. UNCHANGED <<agents, isPrivate, synced, roster>>
        BY <1>4 DEF topicVars, roomVars
    <2>3. SelfListed' /\ NobodyUnlisted'
        BY <2>1, <2>2 DEF RosterInv, SelfListed, NobodyUnlisted
    <2> QED
        BY <1>1, <2>3 DEF RosterInv
<1> QED
    BY <1>1, <1>2, <1>3, <1>4, ConnectionRoster, JoinRoster, AnswerRoster
    DEF RosterInv, Next, HandleChat, SaveChat, ChatFails, BroadcastChat, vars, viewVars

(* The member list of an answered join misses no member of a public topic     *)
(* but those whose own join is unanswered or was given up.                   *)
THEOREM RosterCompleteHolds == Spec => []RosterComplete
<1>1. RosterInv => RosterComplete
    BY DEF RosterInv, NobodyUnlisted, Unanswered, RosterComplete
<1>2. Init /\ TopicsInv /\ SessionInv => RosterInv
    <2>1. Init => \A a \in Agent : synced[a] = {}
        BY DEF Init
    <2> QED
        BY <2>1, GapInitially DEF GapInv, RosterInv, SelfListed, NobodyUnlisted, Reached
<1>3. Spec => []RosterInv
    BY <1>2, StepRoster, TopicsInvInHub, SessionInvariant, PTL DEF Spec
<1> QED
    BY <1>1, <1>3, PTL

(* The whole type invariant, with messages, joins and views. *)
THEOREM SessionsTyping == Spec => []SessionsTypeOK
<1>1. HubInv => SessionsTypeOK
    BY DEF HubInv, SessionsTypeOK, TopicsInv, SessionInv, ConnTypes, DeliveryTypes, ChatRecord,
           JoinRecord
<1>2. Init /\ TopicsInv /\ SessionInv => HubInv
    BY GapInitially DEF GapInv, MemberInv
<1>3. Spec => []HubInv
    BY <1>2, StepHubInv, TopicsInvInHub, SessionInvariant, PTL DEF Spec
<1> QED
    BY <1>1, <1>3, PTL

-----------------------------------------------------------------------------
(* Private topics. *)

(* Who may see what is said on t, now and ever after. *)
Entitled(a, t) == t \in created /\ (t \in isPrivate => Admitted(a, t))

(* Messages are seen by the entitled; joins under way are those of entitled   *)
(* agents and hold rows of their topic.                                      *)
SeenByEntitled ==
    \A a \in Agent : \A p \in seen[a] :
        chat[p[1]] # NoChat /\ (p[2] # "echo" => Entitled(a, chat[p[1]].topic))

JoinsEntitled ==
    \A k \in Ticket : join[k] # NoJoin =>
        /\ Entitled(join[k].agent, join[k].topic)
        /\ join[k].rows \subseteq {m \in Msg : chat[m] # NoChat /\ chat[m].topic = join[k].topic}

EntitledInv == HubInv /\ SeenByEntitled /\ JoinsEntitled

LEMMA StillEntitled ==
    ASSUME TopicsInv, [TopicsNext]_topicVars, NEW a, NEW t, Entitled(a, t)
    PROVE  Entitled(a, t)'
<1>1. t \in created' /\ (t \in isPrivate' => t \in isPrivate)
    BY DEF TopicsNext, CreateTopic, JoinTopic, JoinPrivateTopic, InviteToTopic, LeaveTopic,
           RemoveAgent, Tick, roomVars, topicVars, inviteVars, Entitled
<1>2. admissions' = admissions \/ \E x \in Admission : admissions' = Append(admissions, x)
    <2>1. ASSUME NEW b \in Agent, NEW u \in Topic, NEW token \in 1..Len(issued),
                 JoinPrivateTopic(b, u, token)
          PROVE  \E x \in Admission : admissions' = Append(admissions, x)
        <3>1. [topic |-> u, agent |-> b, token |-> token, at |-> now] \in Admission
            BY DEF Admission, TopicsInv, TopicsTypeOK
        <3> QED
            BY <2>1, <3>1 DEF JoinPrivateTopic
    <2> QED
        BY <2>1 DEF TopicsNext, CreateTopic, JoinTopic, InviteToTopic, LeaveTopic, RemoveAgent,
                    Tick, topicVars, inviteVars
<1>3. admissions \in Seq(Admission)
    BY DEF TopicsInv, TopicsTypeOK
<1>4. Admitted(a, t) => Admitted(a, t)'
    BY <1>2, <1>3 DEF Admitted
<1> QED
    BY <1>1, <1>4 DEF Entitled

LEMMA MemberEntitled ==
    ASSUME TopicsInv, NEW t \in Topic, NEW a \in agents[t]
    PROVE  Entitled(a, t)
BY DEF TopicsInv, MembersOfCreated, PrivateMembersAdmitted, Entitled, Admitted

(* A message keeps its topic. *)
LEMMA ChatKeepsTopic ==
    ASSUME HubInv, [Next]_vars, NEW m \in Msg, chat[m] # NoChat
    PROVE  chat'[m] # NoChat /\ chat'[m].topic = chat[m].topic
<1>1. chat[m] \in ChatRecord /\ chat \in [Msg -> {NoChat} \cup ChatRecord]
    BY DEF HubInv, DeliveryTypes
<1>2. \A st \in {"saved", "sent", "lost", "unsent"} :
        /\ [chat[m] EXCEPT !.stage = st].topic = chat[m].topic
        /\ [chat[m] EXCEPT !.stage = st] \in ChatRecord
    BY <1>1 DEF ChatRecord
<1>3. NoChat \notin ChatRecord
    BY DEF NoChat, ChatRecord
<1>4. \/ chat'[m] = chat[m]
      \/ \E st \in {"saved", "sent", "lost", "unsent"} : chat'[m] = [chat[m] EXCEPT !.stage = st]
    BY <1>1 DEF Next, Connect, SocketClosed, SocketError, HandleJoin, HandleLeave, HandleChat,
           ReadHistory, AnswerJoin, JoinFails, SaveChat, ChatFails, BroadcastChat, RestTopics, vars
<1> QED
    BY <1>1, <1>2, <1>3, <1>4

LEMMA StepSeen ==
    ASSUME EntitledInv, [Next]_vars
    PROVE  SeenByEntitled'
<1>0. /\ HubInv /\ TopicsInv /\ ConnTypes /\ [TopicsNext]_topicVars
      /\ seen \in [Agent -> SUBSET (Msg \X {"history", "live", "echo"})]
      /\ join \in [Ticket -> {NoJoin} \cup JoinRecord]
      /\ chat \in [Msg -> {NoChat} \cup ChatRecord]
    BY StepTopics DEF EntitledInv, HubInv, SessionInv, DeliveryTypes
(* Who was entitled to a message is entitled to it after the step. *)
<1>1. ASSUME NEW a, NEW m \in Msg, chat[m] # NoChat, NEW t, t = chat[m].topic
      PROVE  /\ chat'[m] # NoChat
             /\ Entitled(a, t) => (Entitled(a, chat[m].topic))'
    <2>1. chat'[m] # NoChat /\ chat'[m].topic = t
        BY <1>0, <1>1, ChatKeepsTopic
    <2>2. Entitled(a, t) => Entitled(a, t)'
        BY <1>0, StillEntitled
    <2> QED
        BY <2>1, <2>2 DEF Entitled, Admitted
<1>2. ASSUME NEW a \in Agent, NEW p \in seen'[a]
      PROVE  chat'[p[1]] # NoChat /\ (p[2] # "echo" => (Entitled(a, chat[p[1]].topic))')
    <2>1. CASE p \in seen[a]
        <3>1. p[1] \in Msg /\ chat[p[1]] # NoChat /\ (p[2] # "echo" => Entitled(a, chat[p[1]].topic))
            BY <1>0, <2>1 DEF EntitledInv, SeenByEntitled
        <3> QED
            BY <1>1, <3>1
    <2>2. ASSUME NEW k \in Ticket, AnswerJoin(k), p \notin seen[a]
          PROVE  chat'[p[1]] # NoChat /\ (Entitled(a, chat[p[1]].topic))'
        <3>1. join[k] # NoJoin /\ join[k] \in JoinRecord
            BY <1>0, <2>2, NoRecords DEF AnswerJoin
        <3>2. a = join[k].agent /\ p[1] \in join[k].rows
            BY <1>0, <1>2, <2>2 DEF AnswerJoin
        <3>3. /\ p[1] \in Msg /\ chat[p[1]] # NoChat
              /\ chat[p[1]].topic = join[k].topic /\ Entitled(a, join[k].topic)
            BY <3>1, <3>2 DEF EntitledInv, JoinsEntitled
        <3> QED
            BY <1>1, <3>3
    <2>3. ASSUME NEW m \in Msg, BroadcastChat(m), p \notin seen[a]
          PROVE  chat'[p[1]] # NoChat /\ (p[2] # "echo" => (Entitled(a, chat[p[1]].topic))')
        <3>1. chat[m] # NoChat /\ chat[m].topic \in Topic
            BY <1>0, <2>3, NoRecords DEF BroadcastChat, NoChat, ChatRecord
        <3>2. p[1] = m /\ (p[2] # "echo" => a \in agents[chat[m].topic])
            BY <1>0, <1>2, <2>3 DEF BroadcastChat, Reached
        <3>3. p[2] # "echo" => Entitled(a, chat[m].topic)
            BY <1>0, <3>1, <3>2, MemberEntitled
        <3> QED
            BY <1>1, <3>1, <3>2, <3>3
    <2>4. seen'[a] \subseteq seen[a] \/ (\E k \in Ticket : AnswerJoin(k)) \/ \E m \in Msg : BroadcastChat(m)
        BY <1>0 DEF Next, Connect, SocketClosed, SocketError, HandleDisconnect, NewView, HandleJoin,
               HandleLeave, HandleChat, ReadHistory, JoinFails, SaveChat, ChatFails, RestTopics, vars,
               viewVars
    <2> QED
        BY <1>2, <2>1, <2>2, <2>3, <2>4
<1> QED
    BY <1>2 DEF SeenByEntitled

LEMMA StepJoins ==
    ASSUME EntitledInv, [Next]_vars
    PROVE  JoinsEntitled'
<1>0. /\ HubInv /\ TopicsInv /\ ConnTypes /\ [TopicsNext]_topicVars /\ HubInv'
      /\ join \in [Ticket -> {NoJoin} \cup JoinRecord]
    BY StepTopics, StepHubInv DEF EntitledInv, HubInv, SessionInv, DeliveryTypes
<1> SUFFICES ASSUME NEW k \in Ticket, join'[k] # NoJoin
             PROVE  /\ (Entitled(join[k].agent, join[k].topic))'
                    /\ \A m \in join'[k].rows :
                         m \in Msg /\ chat'[m] # NoChat /\ chat'[m].topic = join'[k].topic
    BY DEF JoinsEntitled
<1>1. ASSUME join[k] # NoJoin, join'[k].agent = join[k].agent, join'[k].topic = join[k].topic,
             \A m \in join'[k].rows : m \in join[k].rows \/ m \in Saved(join[k].topic)
      PROVE  /\ (Entitled(join[k].agent, join[k].topic))'
             /\ \A m \in join'[k].rows :
                  m \in Msg /\ chat'[m] # NoChat /\ chat'[m].topic = join'[k].topic
    <2>1. ASSUME NEW b, NEW t, b = join[k].agent, t = join[k].topic
          PROVE  (Entitled(join[k].agent, join[k].topic))'
        <3>1. Entitled(b, t)
            BY <1>1, <2>1 DEF EntitledInv, JoinsEntitled
        <3>2. Entitled(b, t)'
            BY <1>0, <3>1, StillEntitled
        <3> QED
            BY <1>1, <2>1, <3>2 DEF Entitled, Admitted
    <2>2. \A m \in Saved(join[k].topic) : chat[m] # NoChat /\ chat[m].topic = join[k].topic /\ m \in Msg
        BY DEF Saved, NoChat
    <2>3. \A m \in join'[k].rows : m \in Msg /\ chat[m] # NoChat /\ chat[m].topic = join[k].topic
        BY <1>1, <2>2 DEF EntitledInv, JoinsEntitled
    <2>4. \A m \in join'[k].rows : chat'[m] # NoChat /\ chat'[m].topic = join[k].topic
        BY <1>0, <2>3, ChatKeepsTopic
    <2> QED
        BY <1>1, <2>1, <2>3, <2>4
<1>2. CASE \E i \in Ticket : ReadHistory(i)
    <2>1. PICK i \in Ticket : ReadHistory(i)
        BY <1>2
    <2>2. join[i] \in JoinRecord /\ join[i] # NoJoin
        BY <1>0, <2>1, NoRecords DEF ReadHistory
    <2>3. join'[k] = join[k] \/ (k = i /\ join'[k].agent = join[k].agent
            /\ join'[k].topic = join[k].topic /\ join'[k].rows = Newest(join[k].topic))
        BY <1>0, <2>1, <2>2 DEF ReadHistory, JoinRecord
    <2>4. join[k] # NoJoin
        BY <2>2, <2>3
    <2> QED
        BY <1>1, <2>3, <2>4 DEF Newest
<1>3. CASE \E i \in Ticket : AnswerJoin(i) \/ JoinFails(i)
    <2>1. join'[k] = join[k]
        BY <1>0, <1>3 DEF AnswerJoin, JoinFails
    <2> QED
        BY <1>1, <2>1
<1>4. CASE \E s \in Socket, t \in Topic : HandleJoin(s, t) \/ HandleLeave(s, t)
    <2>1. PICK s \in Socket, t \in Topic : HandleJoin(s, t) \/ HandleLeave(s, t)
        BY <1>4
    <2> DEFINE a == owner[s]
               new == [stage |-> "reading", agent |-> a, socket |-> session[a],
                       topic |-> t, rows |-> {}, current |-> TRUE]
    <2>2. join'[k] = Outdated(a, t)[k] \/ (HandleJoin(s, t) /\ join'[k] = new)
        BY <2>1 DEF HandleJoin, HandleLeave, Outdated
    <2>3. CASE join'[k] = Outdated(a, t)[k]
        <3>1. /\ join[k] # NoJoin /\ join'[k].agent = join[k].agent
              /\ join'[k].topic = join[k].topic /\ join'[k].rows = join[k].rows
            BY <1>0, <2>3, OutdatedFacts
        <3> QED
            BY <1>1, <3>1
    <2>4. CASE HandleJoin(s, t) /\ join'[k] = new
        <3>1. a \in Agent
            BY <1>0 DEF ConnTypes
        <3>2. t \in created' /\ t \notin isPrivate'
            BY <2>4 DEF HandleJoin, JoinTopic
        <3>3. join'[k].agent = a /\ join'[k].topic = t /\ join'[k].rows = {}
            BY <2>4
        <3> QED
            BY <3>2, <3>3 DEF Entitled
    <2> QED
        BY <2>2, <2>3, <2>4
<1>5. CASE UNCHANGED join
    BY <1>1, <1>5
<1> QED
    BY <1>2, <1>3, <1>4, <1>5
    DEF Next, Connect, SocketClosed, SocketError, HandleChat, SaveChat, ChatFails, BroadcastChat,
        RestTopics, vars

(* Messages of private topics reach the admitted only, for any number of      *)
(* agents, sockets, topics, messages and joins in flight.                    *)
THEOREM PrivateSeenByAdmittedHolds == Spec => []PrivateSeenByAdmitted
<1>1. EntitledInv => PrivateSeenByAdmitted
    BY DEF EntitledInv, SeenByEntitled, Entitled, PrivateSeenByAdmitted
<1>2. Init /\ TopicsInv /\ SessionInv => EntitledInv
    <2>1. Init => /\ \A a \in Agent : seen[a] = {}
                  /\ \A k \in Ticket : join[k] = NoJoin
        BY DEF Init
    <2> QED
        BY <2>1, GapInitially DEF GapInv, MemberInv, EntitledInv, SeenByEntitled, JoinsEntitled
<1>3. EntitledInv /\ [Next]_vars => EntitledInv'
    BY StepHubInv, StepSeen, StepJoins DEF EntitledInv
<1>4. Spec => []EntitledInv
    BY <1>2, <1>3, TopicsInvInHub, SessionInvariant, PTL DEF Spec
<1> QED
    BY <1>1, <1>4, PTL

=============================================================================
