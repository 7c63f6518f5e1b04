----------------------------- MODULE HubSessions -----------------------------
(***************************************************************************)
(* WSServer (hub/src/ws_server.ts), the session half: connections, the     *)
(* agents map, joins with their history reply, chat, leave and disconnect, *)
(* composed with TopicsManager (module Topics).                            *)
(*                                                                         *)
(* The hub is one Node.js event loop.  A handler runs to its first await   *)
(* in one step; each database call and each continuation after an await    *)
(* is a step of its own, so other handlers run in between.  Handlers look  *)
(* agents up by id, and the close and error callbacks of a socket carry    *)
(* only the agent id: after a reconnect they act on whatever session the   *)
(* id has at that time.                                                    *)
(*                                                                         *)
(* synced, seen and roster are what the frames written to the socket of a  *)
(* session amount to for the agent behind it: the observer the properties  *)
(* speak of.  They start afresh with every session.                        *)
(*                                                                         *)
(* agentByWs is left out: the code writes it and never reads it.           *)
(***************************************************************************)
EXTENDS Topics

CONSTANTS
    Socket,         \* WebSocket objects, each accepted once
    NoSocket,       \* not a socket: agents.get(id) is undefined
    MaxMsgs,        \* bound: chat messages sent in one behaviour
    MaxJoins,       \* bound: join handlers awaiting the database at once
    HistoryLimit,   \* the limit handleJoin passes to db.getMessages (50)
    MayFail         \* the database calls that may reject

ASSUME SessionsAssumption ==
    /\ NoSocket \notin Socket
    /\ MaxMsgs \in Nat
    /\ MaxJoins \in Nat
    /\ HistoryLimit \in Nat \ {0}
    /\ MayFail \subseteq {"getMessages", "saveMessage"}

VARIABLES
    sock,       \* ws.readyState as the hub sees it
    owner,      \* the agentId captured by a socket's callbacks
    session,    \* agents.get(agentId).ws
    joined,     \* agents.get(agentId).topics, {} when there is no record
    chat,       \* the chat messages, numbered in the order of their timestamp
    join,       \* the handleJoin calls that wait for their history
    synced,     \* history: topics whose latest join by this session was answered
    seen,       \* history: the message frames written to the session
    roster,     \* history: the members of a topic as told to the session
    unheard     \* history: memberships whose join failed, so nobody heard of them

connVars == <<sock, owner, session, joined>>
viewVars == <<synced, seen, roster, unheard>>
vars     == <<topicVars, connVars, chat, join, viewVars>>

Msg    == 1..MaxMsgs
Ticket == 1..MaxJoins

NoChat == [stage |-> "none"]
NoJoin == [stage |-> "idle"]

SessionsTypeOK ==
    /\ TopicsTypeOK
    /\ sock \in [Socket -> {"new", "open", "closing", "closed"}]
    /\ owner \in [Socket -> Agent]
    /\ session \in [Agent -> Socket \cup {NoSocket}]
    /\ joined \in [Agent -> SUBSET Topic]
    /\ chat \in [Msg -> {NoChat} \cup
                 [stage : {"saving", "saved", "sent", "lost", "unsent"},
                  from : Agent, topic : Topic]]
    /\ join \in [Ticket -> {NoJoin} \cup
                 [stage : {"reading", "read"}, agent : Agent, socket : Socket,
                  topic : Topic, rows : SUBSET Msg, current : BOOLEAN]]
    /\ synced \in [Agent -> SUBSET Topic]
    /\ seen \in [Agent -> SUBSET (Msg \X {"history", "live", "echo"})]
    /\ roster \in [Agent -> [Topic -> SUBSET Agent]]
    /\ unheard \in SUBSET (Agent \X Topic)

Init ==
    /\ TopicsInit
    /\ sock = [s \in Socket |-> "new"]
    /\ owner \in [Socket -> Agent]
    /\ session = [a \in Agent |-> NoSocket]
    /\ joined = [a \in Agent |-> {}]
    /\ chat = [m \in Msg |-> NoChat]
    /\ join = [k \in Ticket |-> NoJoin]
    /\ synced = [a \in Agent |-> {}]
    /\ seen = [a \in Agent |-> {}]
    /\ roster = [a \in Agent |-> [t \in Topic |-> {}]]
    /\ unheard = {}

-----------------------------------------------------------------------------
(* The agents that a send reaches: registered, with an OPEN socket. *)
Reached(A) == {a \in A : session[a] # NoSocket /\ sock[session[a]] = "open"}

(* The observer of a's session starts afresh. *)
NewView(a) ==
    /\ synced' = [synced EXCEPT ![a] = {}]
    /\ seen' = [seen EXCEPT ![a] = {}]

(* handleConnection for an authorised request.  The previous socket of the  *)
(* agent is asked to close; its record is replaced by one with no topics,   *)
(* while TopicsManager keeps the agent's memberships.                       *)
Connect(s) ==
    LET a == owner[s]
        old == session[a]
    IN  /\ sock[s] = "new"
        /\ sock' = [u \in Socket |->
                      CASE u = s -> "open"
                        [] u = old /\ sock[u] = "open" -> "closing"
                        [] OTHER -> sock[u]]
        /\ session' = [session EXCEPT ![a] = s]
        /\ joined' = [joined EXCEPT ![a] = {}]
        /\ NewView(a)
        /\ roster' = [roster EXCEPT ![a] = [t \in Topic |-> {}]]
        /\ UNCHANGED <<topicVars, owner, chat, join, unheard>>

(* Mutant: the notice names the agent it is sent to. *)
ToldGoneMixedUp(A, b, T) ==
    [a \in Agent |-> IF a \in A
                     THEN [t \in Topic |-> IF t \in T THEN roster[a][t] \ {a}
                                                       ELSE roster[a][t]]
                     ELSE roster[a]]

(* What the agents A are told: b is gone from the topics T. *)
ToldGone(A, b, T) ==
    [a \in Agent |-> IF a \in A
                     THEN [t \in Topic |-> IF t \in T THEN roster[a][t] \ {b}
                                                       ELSE roster[a][t]]
                     ELSE roster[a]]

(* Mutant: only the topics listed in the session's own record are left. *)
HandleDisconnectByRecord(a) ==
    IF session[a] = NoSocket
    THEN UNCHANGED <<topicVars, session, joined, viewVars>>
    ELSE /\ agents' = [t \in Topic |-> IF t \in joined[a] THEN agents[t] \ {a} ELSE agents[t]]
         /\ agentTopics' = [agentTopics EXCEPT ![a] = {}]
         /\ UNCHANGED <<created, isPrivate, inviteVars>>
         /\ session' = [session EXCEPT ![a] = NoSocket]
         /\ joined' = [joined EXCEPT ![a] = {}]
         /\ NewView(a)
         /\ roster' = [roster EXCEPT ![a] = [t \in Topic |-> {}]]
         /\ unheard' = {p \in unheard : p[1] # a}

(* handleDisconnect, called with the id a socket's callback captured.  Every *)
(* other connected agent is told of each topic left, member or not.         *)
HandleDisconnect(a) ==
    IF session[a] = NoSocket
    THEN UNCHANGED <<topicVars, session, joined, viewVars>>
    ELSE /\ RemoveAgent(a)
         /\ session' = [session EXCEPT ![a] = NoSocket]
         /\ joined' = [joined EXCEPT ![a] = {}]
         /\ NewView(a)
         /\ roster' = [ToldGone(Reached(Agent \ {a}), a, agentTopics[a])
                          EXCEPT ![a] = [t \in Topic |-> {}]]
         /\ unheard' = {p \in unheard : p[1] # a}

(* Mutant: no 'close' callback is installed. *)
SocketClosedUnhandled(s) ==
    /\ sock[s] \in {"open", "closing"}
    /\ sock' = [sock EXCEPT ![s] = "closed"]
    /\ UNCHANGED <<topicVars, owner, session, joined, chat, join, viewVars>>

(* The 'close' callback, whoever started the closing. *)
SocketClosed(s) ==
    /\ sock[s] \in {"open", "closing"}
    /\ sock' = [sock EXCEPT ![s] = "closed"]
    /\ HandleDisconnect(owner[s])
    /\ UNCHANGED <<owner, chat, join>>

(* The 'error' callback: the library also starts closing the socket. *)
SocketError(s) ==
    /\ sock[s] \in {"open", "closing"}
    /\ sock' = [sock EXCEPT ![s] = "closing"]
    /\ HandleDisconnect(owner[s])
    /\ UNCHANGED <<owner, chat, join>>

(* A frame of s reaches handleMessage(owner[s]) and finds a session; a      *)
(* socket that is closing still delivers what the agent had sent.           *)
Receives(s) == sock[s] \in {"open", "closing"} /\ session[owner[s]] # NoSocket

(* A join or leave outdates the replies still awaited for earlier joins. *)
Outdated(a, t) ==
    [k \in Ticket |-> IF join[k] # NoJoin /\ join[k].agent = a /\ join[k].topic = t
                      THEN [join[k] EXCEPT !.current = FALSE] ELSE join[k]]

(* handleJoin up to its await: membership first, then the history query.    *)
(* The record, hence its socket, is captured now.                           *)
HandleJoin(s, t) ==
    LET a == owner[s]
    IN  /\ Receives(s)
        /\ JoinTopic(a, t)
        /\ joined' = [joined EXCEPT ![a] = @ \cup {t}]
        /\ synced' = [synced EXCEPT ![a] = @ \ {t}]
        /\ \E k \in Ticket :
             /\ join[k] = NoJoin
             /\ \A i \in Ticket : i < k => join[i] # NoJoin
             /\ join' = [Outdated(a, t) EXCEPT ![k] =
                           [stage |-> "reading", agent |-> a, socket |-> session[a],
                            topic |-> t, rows |-> {}, current |-> TRUE]]
        /\ UNCHANGED <<sock, owner, session, chat, seen, roster, unheard>>

(* db.getMessages(topic, limit): the newest saved rows by timestamp. *)
Saved(t) == {m \in Msg : chat[m].stage \in {"saved", "sent", "unsent"} /\ chat[m].topic = t}
(* Mutant: the oldest rows. *)
Oldest(t) == {m \in Saved(t) : Cardinality({n \in Saved(t) : n < m}) < HistoryLimit}
Newest(t) == {m \in Saved(t) : Cardinality({n \in Saved(t) : n > m}) < HistoryLimit}

ReadHistory(k) ==
    /\ join[k].stage = "reading"
    /\ join' = [join EXCEPT ![k].stage = "read", ![k].rows = Newest(join[k].topic)]
    /\ UNCHANGED <<topicVars, connVars, chat, viewVars>>

(* handleJoin after its await: history and the present members go to the    *)
(* captured socket, the arrival to every other present member.  Whether     *)
(* the agent is still there is not asked again.                             *)
AnswerJoin(k) ==
    LET b == join[k].agent
        t == join[k].topic
        replied == session[b] = join[k].socket /\ b \in Reached({b})
    IN  /\ join[k].stage = "read"
        /\ join' = [join EXCEPT ![k] = NoJoin]
        /\ seen' = IF replied
                   THEN [seen EXCEPT ![b] = @ \cup (join[k].rows \X {"history"})]
                   ELSE seen
        /\ synced' = IF replied /\ join[k].current
                     THEN [synced EXCEPT ![b] = @ \cup {t}] ELSE synced
        /\ roster' = [a \in Agent |->
             CASE a = b /\ replied -> [roster[a] EXCEPT ![t] = agents[t]]
               [] a \in Reached(agents[t] \ {b}) -> [roster[a] EXCEPT ![t] = @ \cup {b}]
               [] OTHER -> roster[a]]
        /\ unheard' = unheard \ {<<b, t>>}
        /\ UNCHANGED <<topicVars, connVars, chat>>

(* db.getMessages rejects: the sender gets internal_error, the membership    *)
(* stays and nobody is told of it.                                          *)
JoinFails(k) ==
    /\ "getMessages" \in MayFail
    /\ join[k].stage = "reading"
    /\ join' = [join EXCEPT ![k] = NoJoin]
    /\ unheard' = unheard \cup {<<join[k].agent, join[k].topic>>}
    /\ UNCHANGED <<topicVars, connVars, chat, synced, seen, roster>>

(* Mutant: the record keeps the topic. *)
KeepOnRecord(a, t) == UNCHANGED joined

(* agent.topics.delete(topic) *)
DropFromRecord(a, t) == joined' = [joined EXCEPT ![a] = @ \ {t}]

(* handleLeave: synchronous; the remaining members are told. *)
HandleLeave(s, t) ==
    LET a == owner[s]
    IN  /\ Receives(s)
        /\ \/ LeaveTopic(a, t)
           \/ t \notin created /\ UNCHANGED topicVars
        /\ DropFromRecord(a, t)
        /\ synced' = [synced EXCEPT ![a] = @ \ {t}]
        /\ roster' = ToldGone(Reached(agents[t] \ {a}), a, {t})
        /\ join' = Outdated(a, t)
        /\ unheard' = unheard \ {<<a, t>>}
        /\ UNCHANGED <<sock, owner, session, chat, seen>>

(* handleChatMessage up to db.saveMessage.  Membership is not required. *)
HandleChat(s, t) ==
    /\ Receives(s)
    /\ \E m \in Msg :
         /\ chat[m] = NoChat
         /\ \A n \in Msg : n < m => chat[n] # NoChat
         /\ chat' = [chat EXCEPT ![m] =
                       [stage |-> "saving", from |-> owner[s], topic |-> t]]
    /\ UNCHANGED <<topicVars, connVars, join, viewVars>>

SaveChat(m) ==
    /\ chat[m].stage = "saving"
    /\ chat' = [chat EXCEPT ![m].stage = "saved"]
    /\ UNCHANGED <<topicVars, connVars, join, viewVars>>

(* db.saveMessage rejects: the insert failed (lost), or the insert is done   *)
(* and the trim after it failed (unsent).  Either way it is not broadcast.  *)
ChatFails(m) ==
    /\ "saveMessage" \in MayFail
    /\ chat[m].stage = "saving"
    /\ \E st \in {"lost", "unsent"} : chat' = [chat EXCEPT ![m].stage = st]
    /\ UNCHANGED <<topicVars, connVars, join, viewVars>>

(* handleChatMessage after its await: a copy to the members of this moment,  *)
(* the sender included, and one marked sent to the sender's session.        *)
BroadcastChat(m) ==
    /\ chat[m].stage = "saved"
    /\ chat' = [chat EXCEPT ![m].stage = "sent"]
    /\ seen' = [a \in Agent |-> seen[a]
         \cup {<<m, "live">> : b \in {a} \cap Reached(agents[chat[m].topic])}
         \cup {<<m, "echo">> : b \in {a} \cap Reached({chat[m].from})}]
    /\ UNCHANGED <<topicVars, connVars, join, synced, roster, unheard>>

(* The REST calls on topics touch TopicsManager only. *)
RestTopics ==
    /\ \/ \E t \in Topic, private \in BOOLEAN : CreateTopic(t, private)
       \/ \E a \in Agent, t \in Topic :
            \/ \E token \in 1..Len(issued) : JoinPrivateTopic(a, t, token)
            \/ \E ttl \in Ttl : InviteToTopic(t, a, ttl)
       \/ Tick
    /\ UNCHANGED <<connVars, chat, join, viewVars>>

Next ==
    \/ \E s \in Socket :
         \/ Connect(s)
         \/ SocketClosed(s)
         \/ SocketError(s)
         \/ \E t \in Topic : HandleJoin(s, t) \/ HandleLeave(s, t) \/ HandleChat(s, t)
    \/ \E k \in Ticket : ReadHistory(k) \/ AnswerJoin(k) \/ JoinFails(k)
    \/ \E m \in Msg : SaveChat(m) \/ ChatFails(m) \/ BroadcastChat(m)
    \/ RestTopics

Spec == Init /\ [][Next]_vars

-----------------------------------------------------------------------------
(* A registered session is a socket of that agent which has not finished    *)
(* closing: whatever order connects, closes and errors of several sockets   *)
(* of one id come in, no agent stays registered on a dead socket.           *)
SessionIsAlive ==
    \A a \in Agent : session[a] # NoSocket =>
        /\ owner[session[a]] = a
        /\ sock[session[a]] \in {"open", "closing"}

(* Public topics have only connected members: no history of replaced,       *)
(* failed or late-closing sockets leaves a member behind that nobody can    *)
(* remove.  (A private topic may: REST admits agents that are away.)        *)
PublicMembersConnected ==
    \A t \in Topic \ isPrivate : \A a \in agents[t] : session[a] # NoSocket

(* What the current session joined through the hub it is a member of, so it *)
(* keeps receiving until it leaves or is disconnected.                      *)
JoinedIsMember ==
    \A a \in Agent : joined[a] \subseteq agentTopics[a]

(* No gap between history and live delivery: a session whose join was       *)
(* answered has been sent every message broadcast on the topic, before or   *)
(* after, except those that were not among the newest HistoryLimit.         *)
NoGap ==
    \A a \in Reached(Agent) : \A t \in synced[a] : \A m \in Msg :
        chat[m].stage = "sent" /\ chat[m].topic = t =>
            \/ seen[a] \cap {<<m, "history">>, <<m, "live">>} # {}
            \/ Cardinality({n \in Saved(t) : n > m}) >= HistoryLimit

(* The member list an answered join was given, kept up with the join and    *)
(* leave notices, misses no member of a public topic except one whose own   *)
(* join is still unanswered, or was given up when the database failed.  (It *)
(* may list agents that have gone.)                                         *)
RosterComplete ==
    \A a \in Reached(Agent) : \A t \in synced[a] \ isPrivate :
        \A b \in agents[t] \ roster[a][t] :
            \/ \E k \in Ticket : join[k] # NoJoin /\ join[k].agent = b /\ join[k].topic = t
            \/ <<b, t>> \in unheard

Admitted(a, t) ==
    \E i \in 1..Len(admissions) : admissions[i].topic = t /\ admissions[i].agent = a

(* Nobody is sent a message of a private topic, as history or live, without *)
(* having been admitted to the topic by invite; a copy of what it sent      *)
(* itself apart.  Joins wait for the database while topics are created and  *)
(* left: no answer reaches a topic that has become private meanwhile.       *)
PrivateSeenByAdmitted ==
    \A a \in Agent : \A p \in seen[a] :
        p[2] # "echo" /\ chat[p[1]].topic \in isPrivate => Admitted(a, chat[p[1]].topic)

(* hub/test/r470_replacement_socket_eviction.test.ts:28-32: after a same-id *)
(* reconnect the agent is still registered, the replacement being the       *)
(* subject of its own registration.  The late close of the replaced socket  *)
(* unregisters the replacement.                                             *)
ReplacementStaysRegistered ==
    \A s \in Socket : sock[s] = "open" => session[owner[s]] = s

=============================================================================
