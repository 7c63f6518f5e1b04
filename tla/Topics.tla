------------------------------- MODULE Topics -------------------------------
(***************************************************************************)
(* TopicsManager (hub/src/topics.ts): the topic registry of the hub.       *)
(*                                                                         *)
(* A topic is public or private from its creation on.  A public topic is   *)
(* entered with joinTopic (WebSocket "join"); a private one with           *)
(* joinPrivateTopic (REST), which consumes an invite.  The code keeps ONE  *)
(* invite token and ONE expiry time per topic, and a set of invited agents *)
(* beside them; every invite overwrites the token and the expiry.          *)
(*                                                                         *)
(* Every method is synchronous, so each is one atomic action.  The hub's   *)
(* sessions (module HubSessions) use these actions as the topic half of    *)
(* their own.                                                              *)
(***************************************************************************)
EXTENDS Integers, Sequences, FiniteSets

CONSTANTS
    Agent,          \* agent ids
    Topic,          \* topic names
    Ttl,            \* the ttlMs values an inviter may pass: see TtlValue
    MaxInvites,     \* bound: invites issued in one behaviour
    MaxTime         \* bound: the last clock tick

(* The REST body's ttlMs reaches inviteToTopic as it is: a number, negative  *)
(* ones included, or a text that stands for one.                            *)
TtlValue == [text : BOOLEAN, ms : Int]

ASSUME BoundsAssumption ==
    /\ Ttl \subseteq TtlValue
    /\ MaxInvites \in Nat
    /\ MaxTime \in Nat \ {0}

VARIABLES
    created,        \* the names in the topics map
    isPrivate,      \* the created topics whose isPrivate is true
    agents,         \* topic.agents
    agentTopics,    \* agentTopics.get(agent), {} when there is no entry
    invitedAgents,  \* topic.invitedAgents
    inviteToken,    \* topic.inviteToken, NoToken when undefined
    inviteExpiresAt,\* topic.inviteExpiresAt; 0 is "no expiry", as in the code
    now,            \* Date.now()
    issued,         \* the invites answered to REST callers: token k is issued[k]
    admissions      \* history: the successful joinPrivateTopic calls, in order

roomVars   == <<created, isPrivate, agents, agentTopics>>
inviteVars == <<invitedAgents, inviteToken, inviteExpiresAt, now, issued, admissions>>
topicVars  == <<roomVars, inviteVars>>

NoToken == 0
Invite    == [topic : Topic, agent : Agent, ttl : TtlValue, at : Nat]
Admission == [topic : Topic, agent : Agent, token : Nat, at : Nat]

TopicsTypeOK ==
    /\ created \subseteq Topic
    /\ isPrivate \subseteq created
    /\ agents \in [Topic -> SUBSET Agent]
    /\ agentTopics \in [Agent -> SUBSET Topic]
    /\ invitedAgents \in [Topic -> SUBSET Agent]
    /\ inviteToken \in [Topic -> Nat]
    /\ inviteExpiresAt \in [Topic -> Int]
    /\ now \in Nat \ {0}
    /\ issued \in Seq(Invite)
    /\ admissions \in Seq(Admission)

TopicsInit ==
    /\ created = {}
    /\ isPrivate = {}
    /\ agents = [t \in Topic |-> {}]
    /\ agentTopics = [a \in Agent |-> {}]
    /\ invitedAgents = [t \in Topic |-> {}]
    /\ inviteToken = [t \in Topic |-> NoToken]
    /\ inviteExpiresAt = [t \in Topic |-> 0]
    /\ now = 1
    /\ issued = <<>>
    /\ admissions = <<>>

-----------------------------------------------------------------------------
(* Mutant: createTopic rewrites the privacy of a topic that exists. *)
CreateTopicRewrites(t, private) ==
    /\ created' = created \cup {t}
    /\ isPrivate' = IF private THEN isPrivate \cup {t} ELSE isPrivate \ {t}
    /\ UNCHANGED <<agents, agentTopics, inviteVars>>

(* Mutant: createTopic forgets to store a private topic. *)
CreateTopicUnstored(t, private) ==
    /\ isPrivate' = IF private THEN isPrivate \cup {t} ELSE isPrivate
    /\ UNCHANGED <<created, agents, agentTopics, inviteVars>>

(* createTopic: the privacy asked for only counts when the name is new. *)
CreateTopic(t, private) ==
    /\ created' = created \cup {t}
    /\ isPrivate' = IF private /\ t \notin created
                    THEN isPrivate \cup {t} ELSE isPrivate
    /\ UNCHANGED <<agents, agentTopics, inviteVars>>

(* The shared tail of both joins: the two maps are updated together. *)
AddMember(a, t) ==
    /\ agents' = [agents EXCEPT ![t] = @ \cup {a}]
    /\ agentTopics' = [agentTopics EXCEPT ![a] = @ \cup {t}]

(* joinTopic creates a missing topic (public) and throws on a private one. *)
JoinTopic(a, t) ==
    /\ t \notin isPrivate
    /\ created' = created \cup {t}
    /\ AddMember(a, t)
    /\ UNCHANGED <<isPrivate, inviteVars>>

(* Mutant: the expiry is not looked at. *)
InviteIsValidForever(a, t, token) ==
    a \in invitedAgents[t] /\ inviteToken[t] = token

(* The three conditions of joinPrivateTopic's inviteIsValid. *)
InviteIsValid(a, t, token) ==
    /\ a \in invitedAgents[t]
    /\ inviteToken[t] = token
    /\ inviteExpiresAt[t] = 0 \/ now < inviteExpiresAt[t]

(* Mutant: only the invitation is consumed, the token stays. *)
ConsumeInvitation(a, t) ==
    /\ invitedAgents' = [invitedAgents EXCEPT ![t] = @ \ {a}]
    /\ UNCHANGED <<inviteToken, inviteExpiresAt>>

(* Mutant: only the token is consumed, the agent stays invited. *)
ConsumeToken(a, t) ==
    /\ inviteToken' = [inviteToken EXCEPT ![t] = NoToken]
    /\ inviteExpiresAt' = [inviteExpiresAt EXCEPT ![t] = 0]
    /\ UNCHANGED invitedAgents

(* A successful private join uses up the invitation and the topic's token. *)
ConsumeInvite(a, t) ==
    /\ invitedAgents' = [invitedAgents EXCEPT ![t] = @ \ {a}]
    /\ inviteToken' = [inviteToken EXCEPT ![t] = NoToken]
    /\ inviteExpiresAt' = [inviteExpiresAt EXCEPT ![t] = 0]

(* joinPrivateTopic: REST only, for an agent that may not be connected. *)
JoinPrivateTopic(a, t, token) ==
    /\ t \in isPrivate
    /\ token # NoToken
    /\ InviteIsValid(a, t, token)
    /\ AddMember(a, t)
    /\ ConsumeInvite(a, t)
    /\ admissions' = Append(admissions,
                       [topic |-> t, agent |-> a, token |-> token, at |-> now])
    /\ UNCHANGED <<created, isPrivate, now, issued>>

(* Date.now() + ttlMs.  A text is appended to the digits of the clock (of   *)
(* the tick, and of one digit here): a far later time, or, when a sign   *)
(* comes between, no number at all, which no clock is below, like any time   *)
(* that is negative.                                                        *)
NotANumber == -1
ExpiresAt(at, ttl) ==
    IF ~ttl.text THEN at + ttl.ms
    ELSE IF ttl.ms >= 0 THEN 10 * at + ttl.ms ELSE NotANumber

(* inviteToTopic: a fresh token and expiry replace the topic's single slot. *)
InviteToTopic(t, a, ttl) ==
    /\ t \in isPrivate
    /\ Len(issued) < MaxInvites
    /\ invitedAgents' = [invitedAgents EXCEPT ![t] = @ \cup {a}]
    /\ inviteExpiresAt' = [inviteExpiresAt EXCEPT ![t] = ExpiresAt(now, ttl)]
    /\ inviteToken' = [inviteToken EXCEPT ![t] = Len(issued) + 1]
    /\ issued' = Append(issued, [topic |-> t, agent |-> a, ttl |-> ttl, at |-> now])
    /\ UNCHANGED <<roomVars, now, admissions>>

(* leaveTopic: an unknown topic changes nothing; invitations are kept. *)
LeaveTopic(a, t) ==
    /\ t \in created
    /\ agents' = [agents EXCEPT ![t] = @ \ {a}]
    /\ agentTopics' = [agentTopics EXCEPT ![a] = @ \ {t}]
    /\ UNCHANGED <<created, isPrivate, inviteVars>>

(* Mutant: removeAgent drops the entry and leaves no topic. *)
RemoveAgentEntryOnly(a) ==
    /\ agentTopics' = [agentTopics EXCEPT ![a] = {}]
    /\ UNCHANGED <<created, isPrivate, agents, inviteVars>>

(* removeAgent leaves the topics listed in agentTopics, then drops the entry. *)
RemoveAgent(a) ==
    /\ agents' = [t \in Topic |-> IF t \in agentTopics[a]
                                  THEN agents[t] \ {a} ELSE agents[t]]
    /\ agentTopics' = [agentTopics EXCEPT ![a] = {}]
    /\ UNCHANGED <<created, isPrivate, inviteVars>>

Tick ==
    /\ now < MaxTime
    /\ now' = now + 1
    /\ UNCHANGED <<roomVars, invitedAgents, inviteToken, inviteExpiresAt,
                   issued, admissions>>

TopicsNext ==
    \/ \E t \in Topic, private \in BOOLEAN : CreateTopic(t, private)
    \/ \E a \in Agent, t \in Topic :
         \/ JoinTopic(a, t)
         \/ \E token \in 1..Len(issued) : JoinPrivateTopic(a, t, token)
         \/ \E ttl \in Ttl : InviteToTopic(t, a, ttl)
         \/ LeaveTopic(a, t)
    \/ \E a \in Agent : RemoveAgent(a)
    \/ Tick

TopicsSpec == TopicsInit /\ [][TopicsNext]_topicVars

-----------------------------------------------------------------------------
(* The two maps of TopicsManager describe one relation.  removeAgent walks  *)
(* agentTopics only, so a membership missing there would outlive its agent. *)
MembershipMirror ==
    \A a \in Agent, t \in Topic : a \in agents[t] <=> t \in agentTopics[a]

(* Nobody sits in a private topic without having been admitted to it by     *)
(* joinPrivateTopic: neither a public join before the topic was made nor a  *)
(* second createTopic of the same name opens another way in.                *)
PrivateMembersAdmitted ==
    \A t \in isPrivate : \A a \in agents[t] :
        \E i \in 1..Len(admissions) :
            admissions[i].topic = t /\ admissions[i].agent = a

(* An invite token admits at most once, whatever is left, rejoined or       *)
(* invited again in between.                                                *)
TokenAdmitsOnce ==
    \A i, j \in 1..Len(admissions) :
        admissions[i].token = admissions[j].token => i = j

(* A time at which the ttl of an invite has not run out.  Two ttls promise   *)
(* nothing: a negative one that makes the sum 0, which the code reads as no  *)
(* expiry, and a text of digits, which it appends.  A text that is no number *)
(* lets nobody in.                                                          *)
InTime(inv, time) ==
    /\ ~inv.ttl.text /\ inv.at + inv.ttl.ms # 0 => time < inv.at + inv.ttl.ms
    /\ inv.ttl.text => inv.ttl.ms >= 0

(* An admission used a token that was issued for that topic and was made     *)
(* before the ttl of that invite ran out, whatever invites replaced the      *)
(* topic's one expiry in between.                                           *)
AdmittedBeforeExpiry ==
    \A i \in 1..Len(admissions) :
        LET adm == admissions[i] IN
        /\ adm.token \in 1..Len(issued)
        /\ issued[adm.token].topic = adm.topic
        /\ InTime(issued[adm.token], adm.at)

(* An agent is admitted to a topic no more often than it was invited to it: *)
(* the invitation is used up together with the token.                       *)
AdmissionsBackedByInvites ==
    \A a \in Agent, t \in Topic :
        LET Of(s) == {i \in 1..Len(s) : s[i].agent = a /\ s[i].topic = t}
        IN Cardinality(Of(admissions)) <= Cardinality(Of(issued))

(* No call turns an existing topic public or private: members of a private  *)
(* topic are never exposed by a later public create or join of its name.    *)
PrivacyIsFixed ==
    [][\A t \in created : t \in isPrivate <=> t \in isPrivate']_topicVars

=============================================================================
