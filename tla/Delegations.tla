----------------------------- MODULE Delegations -----------------------------
(***************************************************************************)
(* Delegations: tasks one agent hands to another through the hub           *)
(* (ws_server.ts handleDelegate*, rest_server.ts POST and DELETE           *)
(* /delegations).                                                          *)
(*                                                                         *)
(* A delegation is a record object; the hub's map takes an id to the       *)
(* object stored last under it.  The id is chosen by the caller and a      *)
(* second request with a used id replaces the object, while a result       *)
(* handler suspended on the database still holds the old one.  Of a        *)
(* session this module knows only whether it is registered and whether     *)
(* its socket is OPEN; HubSessions has the rest.                           *)
(***************************************************************************)
EXTENDS Integers

CONSTANTS
    Agent,          \* agent ids
    RestApi,        \* the fromAgent of delegations created over REST
    Id,             \* delegation ids
    MaxObjects,     \* bound: delegations created in one behaviour
    MaxPublishing,  \* bound: result handlers of one object awaiting the database
    Unstorable      \* the delegations whose result db.saveMessage may reject

ASSUME DelegationsAssumption ==
    /\ RestApi \notin Agent
    /\ MaxObjects \in Nat
    /\ MaxPublishing \in Nat

VARIABLES
    link,       \* "off": no session; "closing": its socket is not OPEN; "open"
    object,     \* the delegation objects, numbered in the order of creation
    current,    \* the delegations map: the object stored under an id, 0 if none
    publishing, \* the result handlers waiting for db.saveMessage, per object
    told        \* history: the last delegate_status an agent got for an id
                \* since it connected

vars == <<link, object, current, publishing, told>>

Object == 1..MaxObjects
Party  == Agent \cup {RestApi}
Live   == {"requested", "accepted", "running"}
Over   == {"rejected", "done", "failed", "cancelled"}
Status == Live \cup Over

NoObject == [status |-> "none"]
Delegation == [status : Status, id : Id, from : Party, to : Agent,
               topic : BOOLEAN,     \* a topic for the result was given
               accepted : BOOLEAN,  \* acceptedAt is set
               incoming : BOOLEAN]  \* delegate_incoming was sent to the target

TypeOK ==
    /\ link \in [Agent -> {"off", "closing", "open"}]
    /\ object \in [Object -> Delegation \cup {NoObject}]
    /\ current \in [Id -> 0..MaxObjects]
    /\ publishing \in [Object -> 0..MaxPublishing]
    /\ told \in [Agent -> [Id -> Status \cup {"none"}]]

Init ==
    /\ link = [a \in Agent |-> "off"]
    /\ object = [o \in Object |-> NoObject]
    /\ current = [i \in Id |-> 0]
    /\ publishing = [o \in Object |-> 0]
    /\ told = [a \in Agent |-> [i \in Id |-> "none"]]

-----------------------------------------------------------------------------
Open(p) == p \in Agent /\ link[p] = "open"

(* delegate_status frames: the parties S are told status st of id i. *)
Tell(S, i, st) ==
    told' = [a \in Agent |-> IF a \in S /\ Open(a)
                             THEN [told[a] EXCEPT ![i] = st] ELSE told[a]]

(* Sessions come and go at any time; a new one has been told nothing. *)
Link(a, state) ==
    /\ link[a] # state
    /\ link[a] = "off" => state = "open"
    /\ link' = [link EXCEPT ![a] = state]
    /\ told' = [told EXCEPT ![a] = [i \in Id |-> "none"]]
    /\ UNCHANGED <<object, current, publishing>>

(* The first unused object is the one a handler creates. *)
Fresh(o) == object[o] = NoObject /\ \A n \in Object : n < o => object[n] # NoObject

(* Both ways of creating: store the object under its id, whatever was there, *)
(* send delegate_incoming if the target's socket is open, else reject.      *)
Create(o, i, from, to, topic) ==
    /\ Fresh(o)
    /\ object' = [object EXCEPT ![o] =
         [status |-> IF Open(to) THEN "requested" ELSE "rejected",
          id |-> i, from |-> from, to |-> to, topic |-> topic,
          accepted |-> FALSE, incoming |-> Open(to)]]
    /\ current' = [current EXCEPT ![i] = o]
    /\ UNCHANGED <<link, publishing>>

(* handleDelegateRequest: the delegator is told requested, or rejected. *)
HandleDelegateRequest(a, o, i, to, topic) ==
    /\ link[a] # "off"
    /\ Create(o, i, a, to, topic)
    /\ Tell({a}, i, IF Open(to) THEN "requested" ELSE "rejected")

(* POST /delegations: the answer goes to the HTTP caller. *)
RestCreate(o, i, to, topic) ==
    /\ Create(o, i, RestApi, to, topic)
    /\ UNCHANGED told

SetStatus(o, st) == object' = [object EXCEPT ![o].status = st]

(* Mutant: the update is composed before the status is assigned. *)
SendUpdateEarly(S, i) == Tell(S, i, object[current[i]].status)

(* sendDelegationUpdate looks the id up again: the agent is told the status *)
(* of the object stored under it now, after this step.                      *)
SendDelegationUpdate(S, i) == Tell(S, i, object'[current[i]].status)

(* The object a message with id i speaks of. *)
Known(o, i) == current[i] = o /\ o # 0

(* handleDelegateResponse: the target answers a request, once. *)
HandleDelegateResponse(a, o, i, accept) ==
    /\ link[a] # "off"
    /\ Known(o, i)
    /\ object[o].to = a
    /\ object[o].status = "requested"
    /\ object' = [object EXCEPT ![o].status = IF accept THEN "accepted" ELSE "rejected",
                                ![o].accepted = accept]
    /\ SendDelegationUpdate({object[o].from}, i)
    /\ UNCHANGED <<link, current, publishing>>

(* Mutant: a status name the protocol does not have. *)
ProgressMisnamed(st) == IF st = "accepted" THEN "in_progress" ELSE st

(* Mutant: any progress report makes the delegation run. *)
ProgressAlwaysRuns(st) == "running"

(* Mutant: progress revives a delegation that is not finished. *)
ProgressRevives(st) == IF st \in {"done", "failed"} THEN st ELSE "running"

(* The status after a progress report: only an accepted delegation changes. *)
ProgressStatus(st) == IF st = "accepted" THEN "running" ELSE st

(* handleDelegateProgress: accepted in every state. *)
HandleDelegateProgress(a, o, i) ==
    /\ link[a] # "off"
    /\ Known(o, i)
    /\ object[o].to = a
    /\ SetStatus(o, ProgressStatus(object[o].status))
    /\ SendDelegationUpdate({object[o].from}, i)
    /\ UNCHANGED <<link, current, publishing>>

(* handleDelegateResult up to db.saveMessage.  The only condition is that    *)
(* the sender is the target.  Without a topic there is no await.            *)
HandleDelegateResult(a, o, i, st) ==
    /\ link[a] # "off"
    /\ Known(o, i)
    /\ object[o].to = a
    /\ SetStatus(o, st)
    /\ IF object[o].topic
       THEN /\ publishing[o] < MaxPublishing
            /\ publishing' = [publishing EXCEPT ![o] = @ + 1]
            /\ UNCHANGED told
       ELSE /\ SendDelegationUpdate({object[o].from}, i)
            /\ UNCHANGED publishing
    /\ UNCHANGED <<link, current>>

(* Mutant: the published result is not followed by a status update. *)
PublishSilently(o) ==
    /\ publishing[o] > 0
    /\ publishing' = [publishing EXCEPT ![o] = @ - 1]
    /\ UNCHANGED <<link, object, current, told>>

(* The handler goes on after the await: the result is on the topic, and the  *)
(* delegator OF THE OLD OBJECT is told the status of the id.                *)
PublishResult(o) ==
    /\ publishing[o] > 0
    /\ publishing' = [publishing EXCEPT ![o] = @ - 1]
    /\ LET i == object[o].id
       IN  Tell({object[o].from}, i, object[current[i]].status)
    /\ UNCHANGED <<link, object, current>>

(* db.saveMessage rejects: the target gets internal_error, the delegator     *)
(* nothing, and the status stays as set.                                    *)
PublishFails(o) ==
    /\ o \in Unstorable
    /\ publishing[o] > 0
    /\ publishing' = [publishing EXCEPT ![o] = @ - 1]
    /\ UNCHANGED <<link, object, current, told>>

(* Mutant: the REST handler used to have no guard. *)
AlwaysCancellable(st) == TRUE

IsDelegationCancellable(st) == st \in Live

(* handleDelegateCancel: by the delegator, both parties are told. *)
HandleDelegateCancel(a, o, i) ==
    /\ link[a] # "off"
    /\ Known(o, i)
    /\ object[o].from = a
    /\ IsDelegationCancellable(object[o].status)
    /\ SetStatus(o, "cancelled")
    /\ SendDelegationUpdate({a, object[o].to}, i)
    /\ UNCHANGED <<link, current, publishing>>

(* DELETE /delegations/:id: by any authorised caller, same predicate. *)
RestCancel(o, i) ==
    /\ Known(o, i)
    /\ IsDelegationCancellable(object[o].status)
    /\ SetStatus(o, "cancelled")
    /\ SendDelegationUpdate({object[o].from, object[o].to}, i)
    /\ UNCHANGED <<link, current, publishing>>

Next ==
    \/ \E a \in Agent, state \in {"off", "closing", "open"} : Link(a, state)
    \/ \E o \in Object, i \in Id :
         \/ \E to \in Agent, topic \in BOOLEAN :
              \/ \E a \in Agent : HandleDelegateRequest(a, o, i, to, topic)
              \/ RestCreate(o, i, to, topic)
         \/ \E a \in Agent :
              \/ \E accept \in BOOLEAN : HandleDelegateResponse(a, o, i, accept)
              \/ HandleDelegateProgress(a, o, i)
              \/ \E st \in {"done", "failed"} : HandleDelegateResult(a, o, i, st)
              \/ HandleDelegateCancel(a, o, i)
         \/ RestCancel(o, i)
    \/ \E o \in Object : PublishResult(o) \/ PublishFails(o)

(* A database call that does not fail is answered and its handler resumed.  *)
(* Nothing else is fair: agents may fall silent and calls may never come.   *)
Spec == Init /\ [][Next]_vars /\ \A o \in Object : WF_vars(PublishResult(o))

-----------------------------------------------------------------------------
(* A finished delegation stays finished: whatever mixture of late cancels    *)
(* over both interfaces, answers and progress reports arrives after the     *)
(* result, its status never becomes cancelled or live again.  (REST DELETE  *)
(* once broke this.)                                                        *)
FinishedStaysFinished ==
    [][\A o \in Object : object[o].status \in {"done", "failed"}
                            => object'[o].status \in {"done", "failed"}]_vars

(* A delegation that was turned down or called off is never worked on: it   *)
(* does not become accepted or running, though a result may still overrule  *)
(* it.                                                                      *)
CalledOffStaysOff ==
    [][\A o \in Object : object[o].status \in {"rejected", "cancelled"}
                            => object'[o].status \notin Live]_vars

(* Work goes on only on a delegation that its target accepted, and every    *)
(* live delegation was brought to its target's notice when it was created.  *)
LiveWasOffered ==
    \A o \in Object :
        /\ object[o].status \in Live => object[o].incoming
        /\ object[o].status = "running" => object[o].accepted

(* A connected delegator is never left with an outdated status: the last one *)
(* it was told for its delegation since it connected is the present one,    *)
(* unless a result is being published, or could not be stored.  Every       *)
(* change of status, over either interface, reports itself; and when the    *)
(* database rejects a result, that result is the only thing not heard of.   *)
DelegatorUpToDate ==
    \A i \in Id : current[i] # 0 =>
        LET o == current[i]
            a == object[o].from
        IN  Open(a) => \/ told[a][i] \in {"none", object[o].status}
                       \/ publishing[o] > 0
                       \/ o \in Unstorable /\ object[o].status \in {"done", "failed"}

(* While the result of a delegation is being published, its delegator either *)
(* learns that it is finished or drops its connection, or the id is taken:  *)
(* if the database stores it, whatever becomes of the results of others.    *)
ResultIsReported ==
    \A o \in Object \ Unstorable, a \in Agent, i \in Id :
        (Known(o, i) /\ object[o].from = a /\ Open(a) /\ publishing[o] > 0)
            ~> \/ told[a][i] \in {"done", "failed"}
               \/ ~Open(a)
               \/ ~Known(o, i)

=============================================================================
