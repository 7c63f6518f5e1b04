-------------------------- MODULE DelegationsProofs --------------------------
(***************************************************************************)
(* Proofs about Delegations.  DelegationInv is inductive: beside the types  *)
(* it says that the map leads from an id to an object created under that    *)
(* id, which is what the handlers rely on when they look an id up again.    *)
(***************************************************************************)
EXTENDS Delegations, TLAPS

(* The map leads from an id to a delegation that was created under it. *)
MapIsSound ==
    \A i \in Id : current[i] # 0 =>
        object[current[i]] \in Delegation /\ object[current[i]].id = i

(* The id of a delegation leads to some delegation: nothing is ever removed. *)
IdsAreStored ==
    \A o \in Object : object[o] \in Delegation => current[object[o].id] # 0

(* A result being published is the result of a finished delegation. *)
Finished == {"done", "failed"}
PublishedExist ==
    \A o \in Object : publishing[o] > 0 =>
        object[o] \in Delegation /\ object[o].status \in Finished

(* What runs or is about to run has been accepted. *)
AcceptedIsMarked ==
    \A o \in Object : object[o].status \in {"accepted", "running"} => object[o].accepted

DelegationInv ==
    /\ TypeOK
    /\ MapIsSound
    /\ IdsAreStored
    /\ PublishedExist
    /\ AcceptedIsMarked
    /\ LiveWasOffered

-----------------------------------------------------------------------------
(* The record that stands for "not created yet" is no delegation. *)
LEMMA NotDelegation == NoObject \notin Delegation /\ NoObject.status = "none"
BY DEF NoObject, Delegation, Status, Live, Over

(* There is no delegation at first. *)
LEMMA InitInv == Init => DelegationInv
<1> SUFFICES ASSUME Init
             PROVE  DelegationInv
    OBVIOUS
<1>1. TypeOK
    BY DelegationsAssumption DEF Init, TypeOK
<1>2. \A o \in Object : object[o] \notin Delegation /\ object[o].status = "none"
    BY NotDelegation DEF Init
<1>3. MapIsSound /\ PublishedExist
    BY DEF Init, MapIsSound, PublishedExist
<1> QED
    BY <1>1, <1>2, <1>3 DEF DelegationInv, IdsAreStored, AcceptedIsMarked, LiveWasOffered, Live

(* Status st may follow in a delegation d, acc being its acceptance mark. *)
MayFollow(d, st, acc) ==
    \/ d.status = "requested" /\ \/ st = "accepted" /\ acc = TRUE
                                 \/ st = "rejected" /\ acc = FALSE
    \/ /\ acc = d.accepted
       /\ \/ st = d.status
          \/ st = "running" /\ d.status = "accepted"
          \/ st \in {"done", "failed"}
          \/ st = "cancelled" /\ d.status \in Live

(* A step that moves the delegation o on. *)
Moves(o, st, acc) ==
    /\ object[o] \in Delegation
    /\ object' = [object EXCEPT ![o].status = st, ![o].accepted = acc]
    /\ MayFollow(object[o], st, acc)

(* Moving a delegation on changes its status and its mark, and no other one. *)
LEMMA MoveFields ==
    ASSUME TypeOK, NEW o \in Object, NEW st \in Status, NEW acc \in BOOLEAN, Moves(o, st, acc)
    PROVE  /\ object'[o] \in Delegation
           /\ object'[o].status = st
           /\ object'[o].accepted = acc
           /\ object'[o].id = object[o].id
           /\ object'[o].from = object[o].from
           /\ object'[o].incoming = object[o].incoming
           /\ object' \in [Object -> Delegation \cup {NoObject}]
           /\ \A n \in Object \ {o} : object'[n] = object[n]
<1>0. object[o] \in Delegation
    BY DEF Moves
<1>1. object'[o] = [object[o] EXCEPT !.status = st, !.accepted = acc]
      /\ \A n \in Object \ {o} : object'[n] = object[n]
    BY DEF Moves, TypeOK
<1> DEFINE new == [object[o] EXCEPT !.status = st, !.accepted = acc]
<1>2. /\ new \in Delegation
      /\ new.status = st /\ new.accepted = acc
      /\ new.id = object[o].id /\ new.from = object[o].from
      /\ new.incoming = object[o].incoming
    BY <1>0 DEF Delegation
<1>3. object' \in [Object -> Delegation \cup {NoObject}]
    BY <1>1, <1>2 DEF Moves, TypeOK
<1> QED
    BY <1>1, <1>2, <1>3

(* What creating a delegation does to the objects and the map. *)
LEMMA CreateStep ==
    ASSUME DelegationInv, NEW o \in Object, NEW i \in Id, NEW from \in Party,
           NEW to \in Agent, NEW topic \in BOOLEAN, Create(o, i, from, to, topic)
    PROVE  /\ object'[o] \in Delegation
           /\ object'[o].id = i
           /\ object'[o].from = from
           /\ object'[o].status \in {"requested", "rejected"}
           /\ object'[o].status = IF Open(to) THEN "requested" ELSE "rejected"
           /\ object'[o].incoming = Open(to)
           /\ object[o] = NoObject
           /\ object' \in [Object -> Delegation \cup {NoObject}]
           /\ \A n \in Object \ {o} : object'[n] = object[n]
           /\ current' = [current EXCEPT ![i] = o]
           /\ current'[i] # 0
           /\ UNCHANGED <<link, publishing>>
<1> DEFINE d == [status |-> IF Open(to) THEN "requested" ELSE "rejected",
                 id |-> i, from |-> from, to |-> to, topic |-> topic,
                 accepted |-> FALSE, incoming |-> Open(to)]
<1>1. object' = [object EXCEPT ![o] = d]
    BY DEF Create
<1>2. Open(to) \in BOOLEAN
    BY DEF Open
<1>3. d \in Delegation
    BY <1>2 DEF Delegation, Status, Live, Over
<1>4. object \in [Object -> Delegation \cup {NoObject}] /\ current \in [Id -> 0..MaxObjects]
    BY DEF DelegationInv, TypeOK
<1>5. object'[o] = d /\ \A n \in Object \ {o} : object'[n] = object[n]
    BY <1>1, <1>4
<1>6. object[o] = NoObject /\ current' = [current EXCEPT ![i] = o] /\ UNCHANGED <<link, publishing>>
    BY DEF Create, Fresh
<1>7. object' \in [Object -> Delegation \cup {NoObject}]
    BY <1>1, <1>3, <1>4
<1>8. current'[i] # 0
    BY <1>4, <1>6 DEF Object
<1> QED
    BY <1>3, <1>5, <1>6, <1>7, <1>8

-----------------------------------------------------------------------------
(* The messages and calls that speak of an existing delegation. *)
Handled(o, i) ==
    \/ \E a \in Agent :
         \/ \E accept \in BOOLEAN : HandleDelegateResponse(a, o, i, accept)
         \/ HandleDelegateProgress(a, o, i)
         \/ \E st \in {"done", "failed"} : HandleDelegateResult(a, o, i, st)
         \/ HandleDelegateCancel(a, o, i)
    \/ RestCancel(o, i)

(* Each of them moves the delegation it speaks of on, and only that one.  It *)
(* tells the delegator, or leaves that to the publication it started.       *)
LEMMA HandledMoves ==
    ASSUME DelegationInv, NEW o \in Object, NEW i \in Id, Handled(o, i)
    PROVE  /\ current[i] = o /\ object[o] \in Delegation
           /\ \E st \in Status, acc \in BOOLEAN :
                 Moves(o, st, acc) /\ (UNCHANGED publishing \/ st \in Finished)
           /\ UNCHANGED <<link, current>>
           /\ publishing' \in [Object -> 0..MaxPublishing]
           /\ \A n \in Object \ {o} : publishing'[n] = publishing[n]
           /\ \/ /\ publishing'[o] = publishing[o]
                 /\ \E S : object[o].from \in S /\ SendDelegationUpdate(S, i)
              \/ publishing'[o] > 0 /\ UNCHANGED told
<1> DEFINE Goal == /\ \E st \in Status, acc \in BOOLEAN :
                         Moves(o, st, acc) /\ (UNCHANGED publishing \/ st \in Finished)
                   /\ UNCHANGED <<link, current>>
                   /\ publishing' \in [Object -> 0..MaxPublishing]
                   /\ \A n \in Object \ {o} : publishing'[n] = publishing[n]
                   /\ \/ /\ publishing'[o] = publishing[o]
                         /\ \E S : object[o].from \in S /\ SendDelegationUpdate(S, i)
                      \/ publishing'[o] > 0 /\ UNCHANGED told
<1>1. Known(o, i)
    BY DEF Handled, HandleDelegateResponse, HandleDelegateProgress, HandleDelegateResult,
       HandleDelegateCancel, RestCancel
<1>2. object[o] \in Delegation /\ current[i] = o
    BY <1>1 DEF Known, DelegationInv, MapIsSound
<1>3. /\ object[o].accepted \in BOOLEAN
      /\ object[o].status \in Status
      /\ \A st \in Status : object' = [object EXCEPT ![o].status = st]
           => object' = [object EXCEPT ![o].status = st,
                                       ![o].accepted = object[o].accepted]
    BY <1>2 DEF Delegation, DelegationInv, TypeOK
<1>4. publishing \in [Object -> 0..MaxPublishing] /\ MaxPublishing \in Nat
    BY DelegationsAssumption DEF DelegationInv, TypeOK
<1>5. ASSUME NEW a \in Agent, NEW accept \in BOOLEAN, HandleDelegateResponse(a, o, i, accept)
      PROVE  Goal
    <2> DEFINE st == IF accept THEN "accepted" ELSE "rejected"
    <2>1. st \in Status
        BY DEF Status, Live, Over
    <2>2. Moves(o, st, accept)
        BY <1>2, <1>5 DEF HandleDelegateResponse, Moves, MayFollow
    <2> QED
        BY <1>4, <1>5, <2>1, <2>2 DEF HandleDelegateResponse
<1>6. ASSUME NEW a \in Agent, HandleDelegateProgress(a, o, i)
      PROVE  Goal
    <2> DEFINE st == ProgressStatus(object[o].status)
    <2>1. st \in Status
        BY <1>3 DEF ProgressStatus, Status, Live
    <2>2. Moves(o, st, object[o].accepted)
        BY <1>2, <1>3, <1>6, <2>1 DEF HandleDelegateProgress, SetStatus, Moves, MayFollow,
           ProgressStatus
    <2> QED
        BY <1>3, <1>4, <1>6, <2>1, <2>2 DEF HandleDelegateProgress
<1>7. ASSUME NEW a \in Agent, NEW st \in {"done", "failed"}, HandleDelegateResult(a, o, i, st)
      PROVE  Goal
    <2>1. st \in Status
        BY DEF Status, Over
    <2>2. Moves(o, st, object[o].accepted)
        BY <1>2, <1>3, <1>7, <2>1 DEF HandleDelegateResult, SetStatus, Moves, MayFollow
    <2>3. CASE object[o].topic
        BY <1>3, <1>4, <1>7, <2>1, <2>2, <2>3 DEF HandleDelegateResult, Finished
    <2>4. CASE ~object[o].topic
        BY <1>3, <1>4, <1>7, <2>1, <2>2, <2>4 DEF HandleDelegateResult, Finished
    <2> QED
        BY <2>3, <2>4
<1>8. ASSUME RestCancel(o, i) \/ \E a \in Agent : HandleDelegateCancel(a, o, i)
      PROVE  Goal
    <2>1. "cancelled" \in Status
        BY DEF Status, Over
    <2>2. Moves(o, "cancelled", object[o].accepted)
        BY <1>2, <1>3, <1>8, <2>1 DEF RestCancel, HandleDelegateCancel, SetStatus, Moves,
           MayFollow, IsDelegationCancellable
    <2>3. UNCHANGED <<link, current, publishing>>
        BY <1>8 DEF RestCancel, HandleDelegateCancel
    <2>4. \E S : object[o].from \in S /\ SendDelegationUpdate(S, i)
        BY <1>8 DEF RestCancel, HandleDelegateCancel
    <2> QED
        BY <1>3, <1>4, <2>1, <2>2, <2>3, <2>4
<1>9. Goal
    <2> HIDE DEF Goal
    <2> QED
        BY <1>5, <1>6, <1>7, <1>8 DEF Handled
<1> QED
    BY <1>2, <1>9

(* The kinds of steps there are. *)
LEMMA NextKinds ==
    ASSUME [Next]_vars
    PROVE  \/ UNCHANGED vars
           \/ \E a \in Agent, state \in {"off", "closing", "open"} : Link(a, state)
           \/ \E o \in Object, i \in Id, to \in Agent, topic \in BOOLEAN :
                \/ \E a \in Agent : HandleDelegateRequest(a, o, i, to, topic)
                \/ RestCreate(o, i, to, topic)
           \/ \E o \in Object, i \in Id : Handled(o, i)
           \/ \E o \in Object : PublishResult(o) \/ PublishFails(o)
BY DEF Next, Handled

(* What the steps do to the delegations: nothing, create one, or move one on. *)
LEMMA StepKinds ==
    ASSUME DelegationInv, [Next]_vars
    PROVE  \/ /\ UNCHANGED <<object, current>>
              /\ publishing' \in [Object -> 0..MaxPublishing]
              /\ \A o \in Object : publishing'[o] > 0 => publishing[o] > 0
           \/ \E o \in Object, i \in Id, from \in Party, to \in Agent, topic \in BOOLEAN :
                 Create(o, i, from, to, topic)
           \/ \E o \in Object, st \in Status, acc \in BOOLEAN :
                 /\ Moves(o, st, acc)
                 /\ UNCHANGED publishing \/ st \in Finished
                 /\ UNCHANGED current
                 /\ publishing' \in [Object -> 0..MaxPublishing]
                 /\ \A n \in Object \ {o} : publishing'[n] = publishing[n]
<1> DEFINE Same == /\ UNCHANGED <<object, current>>
                   /\ publishing' \in [Object -> 0..MaxPublishing]
                   /\ \A o \in Object : publishing'[o] > 0 => publishing[o] > 0
<1>0. publishing \in [Object -> 0..MaxPublishing] /\ MaxPublishing \in Nat
    BY DelegationsAssumption DEF DelegationInv, TypeOK
<1>1. ASSUME \/ UNCHANGED vars
             \/ \E a \in Agent, state \in {"off", "closing", "open"} : Link(a, state)
      PROVE  Same
    BY <1>0, <1>1 DEF Link, vars
<1>2. ASSUME NEW o \in Object, PublishResult(o) \/ PublishFails(o)
      PROVE  Same
    <2>1. UNCHANGED <<object, current>> /\ publishing' = [publishing EXCEPT ![o] = @ - 1]
          /\ publishing[o] > 0
        BY <1>2 DEF PublishResult, PublishFails
    <2> QED
        BY <1>0, <2>1
<1>3. ASSUME NEW o \in Object, NEW i \in Id, NEW to \in Agent, NEW topic \in BOOLEAN,
             \/ \E a \in Agent : HandleDelegateRequest(a, o, i, to, topic)
             \/ RestCreate(o, i, to, topic)
      PROVE  \E from \in Party : Create(o, i, from, to, topic)
    BY <1>3 DEF RestCreate, HandleDelegateRequest, Party
<1>4. ASSUME NEW o \in Object, NEW i \in Id, Handled(o, i)
      PROVE  /\ \E st \in Status, acc \in BOOLEAN :
                   Moves(o, st, acc) /\ (UNCHANGED publishing \/ st \in Finished)
             /\ UNCHANGED current
             /\ publishing' \in [Object -> 0..MaxPublishing]
             /\ \A n \in Object \ {o} : publishing'[n] = publishing[n]
    BY <1>4, HandledMoves
<1> QED
    BY <1>1, <1>2, <1>3, <1>4, NextKinds

(* Every step keeps what the types say of the delegations. *)
LEMMA StepInv ==
    ASSUME DelegationInv, [Next]_vars, link' \in [Agent -> {"off", "closing", "open"}],
           told' \in [Agent -> [Id -> Status \cup {"none"}]]
    PROVE  DelegationInv'
<1> USE DelegationsAssumption, NotDelegation
<1>1. CASE /\ UNCHANGED <<object, current>> /\ publishing' \in [Object -> 0..MaxPublishing]
           /\ \A o \in Object : publishing'[o] > 0 => publishing[o] > 0
    BY <1>1 DEF DelegationInv, TypeOK, MapIsSound, IdsAreStored, PublishedExist,
       AcceptedIsMarked, LiveWasOffered
<1>2. ASSUME NEW o \in Object, NEW i \in Id, NEW from \in Party, NEW to \in Agent,
             NEW topic \in BOOLEAN, Create(o, i, from, to, topic)
      PROVE  DelegationInv'
    <2> USE CreateStep, <1>2
    <2>1. TypeOK'
        <3>0. current' = [current EXCEPT ![i] = o] /\ current \in [Id -> 0..MaxObjects]
            BY DEF DelegationInv, TypeOK
        <3>1. current' \in [Id -> 0..MaxObjects]
            <4>1. o \in 0..MaxObjects
                BY DelegationsAssumption DEF Object
            <4> HIDE CreateStep, <1>2
            <4> QED
                BY <3>0, <4>1
        <3>2. object' \in [Object -> Delegation \cup {NoObject}]
            OBVIOUS
        <3>3. publishing' \in [Object -> 0..MaxPublishing]
            BY DEF DelegationInv, TypeOK
        <3> QED
            BY <3>1, <3>2, <3>3 DEF TypeOK
    <2>2. MapIsSound'
        <3> SUFFICES ASSUME NEW j \in Id, current'[j] # 0
                     PROVE  object'[current'[j]] \in Delegation /\ object'[current'[j]].id = j
            BY DEF MapIsSound
        <3>1. CASE j = i
            BY <3>1 DEF DelegationInv, TypeOK
        <3>2. CASE j # i
            <4>1. current'[j] = current[j] /\ current[j] \in Object
                BY <3>2 DEF DelegationInv, TypeOK, Object
            <4>2. object[current[j]] \in Delegation /\ object[current[j]].id = j
                BY <4>1 DEF DelegationInv, MapIsSound
            <4>3. current[j] # o
                BY <4>2
            <4> QED
                BY <4>1, <4>2, <4>3
        <3> QED
            BY <3>1, <3>2
    <2>3. PublishedExist'
        BY DEF DelegationInv, PublishedExist
    <2>4. AcceptedIsMarked'
        BY DEF DelegationInv, AcceptedIsMarked
    <2>5. LiveWasOffered'
        BY DEF DelegationInv, LiveWasOffered, Live
    <2>6. IdsAreStored'
        <3> SUFFICES ASSUME NEW n \in Object, object'[n] \in Delegation
                     PROVE  current'[object'[n].id] # 0
            BY DEF IdsAreStored
        <3>1. CASE n = o
            BY <3>1
        <3>2. CASE n # o
            <4>1. object[n] \in Delegation /\ current[object[n].id] # 0
                BY <3>2 DEF DelegationInv, IdsAreStored
            <4>2. object[n].id \in Id
                BY <4>1 DEF Delegation
            <4> QED
                BY <3>2, <4>1, <4>2 DEF DelegationInv, TypeOK
        <3> QED
            BY <3>1, <3>2
    <2> QED
        BY <2>1, <2>2, <2>3, <2>4, <2>5, <2>6 DEF DelegationInv
<1>3. ASSUME NEW o \in Object, NEW st \in Status, NEW acc \in BOOLEAN, Moves(o, st, acc),
             UNCHANGED publishing \/ st \in Finished,
             UNCHANGED current, publishing' \in [Object -> 0..MaxPublishing],
             \A n \in Object \ {o} : publishing'[n] = publishing[n]
      PROVE  DelegationInv'
    <2> USE <1>3
    <2>0. /\ object'[o] \in Delegation
          /\ object'[o].status = st
          /\ object'[o].accepted = acc
          /\ object'[o].id = object[o].id
          /\ object'[o].incoming = object[o].incoming
          /\ object' \in [Object -> Delegation \cup {NoObject}]
          /\ \A n \in Object \ {o} : object'[n] = object[n]
        BY MoveFields DEF DelegationInv
    <2>1. TypeOK'
        BY <2>0 DEF DelegationInv, TypeOK
    <2>2. MapIsSound'
        <3> SUFFICES ASSUME NEW i \in Id, current[i] # 0
                     PROVE  object'[current[i]] \in Delegation /\ object'[current[i]].id = i
            BY DEF MapIsSound
        <3>1. object[current[i]] \in Delegation /\ object[current[i]].id = i
              /\ current[i] \in Object
            BY DEF DelegationInv, TypeOK, MapIsSound, Object
        <3> QED
            BY <2>0, <3>1
    <2>3. PublishedExist'
        BY <2>0 DEF DelegationInv, PublishedExist, Finished, Moves, MayFollow, Live
    <2>4. AcceptedIsMarked'
        BY <2>0 DEF DelegationInv, AcceptedIsMarked, Moves, MayFollow
    <2>5. LiveWasOffered'
        BY <2>0 DEF DelegationInv, LiveWasOffered, AcceptedIsMarked, Moves, MayFollow, Live
    <2>6. IdsAreStored'
        BY <2>0 DEF DelegationInv, IdsAreStored, Moves
    <2> QED
        BY <2>1, <2>2, <2>3, <2>4, <2>5, <2>6 DEF DelegationInv
<1> QED
    BY <1>1, <1>2, <1>3, StepKinds

-----------------------------------------------------------------------------
(* A status that is told is the status of a delegation. *)
LEMMA TellTypes ==
    ASSUME TypeOK, NEW S, NEW i, NEW st \in Status, Tell(S, i, st)
    PROVE  told' \in [Agent -> [Id -> Status \cup {"none"}]]
BY DEF Tell, TypeOK

(* The handlers that look an id up again find a delegation there. *)
LEMMA StepToldTypes ==
    ASSUME DelegationInv, [Next]_vars
    PROVE  /\ link' \in [Agent -> {"off", "closing", "open"}]
           /\ told' \in [Agent -> [Id -> Status \cup {"none"}]]
<1> DEFINE Goal == /\ link' \in [Agent -> {"off", "closing", "open"}]
                   /\ told' \in [Agent -> [Id -> Status \cup {"none"}]]
<1> USE DelegationsAssumption
<1>1. ASSUME NEW a \in Agent, NEW state \in {"off", "closing", "open"}, Link(a, state)
      PROVE  Goal
    BY <1>1 DEF DelegationInv, TypeOK, Link
<1>2. ASSUME UNCHANGED <<link, told>>
      PROVE  Goal
    BY <1>2 DEF DelegationInv, TypeOK
<1>3. ASSUME UNCHANGED link, NEW S, NEW i, NEW st \in Status, Tell(S, i, st)
      PROVE  Goal
    BY <1>3, TellTypes DEF DelegationInv, TypeOK
<1>4. ASSUME NEW a \in Agent, NEW o \in Object, NEW i \in Id, NEW to \in Agent,
             NEW topic \in BOOLEAN, HandleDelegateRequest(a, o, i, to, topic)
      PROVE  Goal
    <2>1. (IF Open(to) THEN "requested" ELSE "rejected") \in Status
        BY DEF Status, Live, Over
    <2> QED
        BY <1>3, <1>4, <2>1 DEF HandleDelegateRequest, Create
<1>5. ASSUME NEW o \in Object, NEW i \in Id, Handled(o, i)
      PROVE  Goal
    <2>1. PICK st \in Status, acc \in BOOLEAN : Moves(o, st, acc)
        BY <1>5, HandledMoves
    <2>2. object'[o].status \in Status
        BY <2>1, MoveFields DEF DelegationInv
    <2>3. current[i] = o /\ UNCHANGED link
        BY <1>5, HandledMoves
    <2>4. UNCHANGED told \/ \E S : Tell(S, i, object'[o].status)
        BY <1>5, <2>3, HandledMoves DEF SendDelegationUpdate
    <2> QED
        BY <1>2, <1>3, <2>2, <2>3, <2>4
<1>6. ASSUME NEW o \in Object, PublishResult(o)
      PROVE  Goal
    <2>1. object[o] \in Delegation
        BY <1>6 DEF PublishResult, DelegationInv, PublishedExist
    <2>2. object[o].id \in Id /\ current[object[o].id] # 0
        BY <2>1 DEF DelegationInv, IdsAreStored, Delegation
    <2>3. object[current[object[o].id]].status \in Status
        BY <2>2 DEF DelegationInv, MapIsSound, Delegation
    <2> QED
        BY <1>3, <1>6, <2>3 DEF PublishResult
<1>7. Goal
    <2> HIDE DEF Goal
    <2>1. ASSUME NEW o \in Object, PublishFails(o)
          PROVE  Goal
        BY <1>2, <2>1 DEF PublishFails
    <2>2. ASSUME NEW o \in Object, NEW i \in Id, NEW to \in Agent, NEW topic \in BOOLEAN,
                 RestCreate(o, i, to, topic)
          PROVE  Goal
        BY <1>2, <2>2 DEF RestCreate, Create
    <2>3. ASSUME UNCHANGED vars
          PROVE  Goal
        BY <1>2, <2>3 DEF vars
    <2> QED
        BY <1>1, <1>4, <1>5, <1>6, <2>1, <2>2, <2>3, NextKinds
<1> QED
    BY <1>7

(* The inductive invariant holds in every reachable state. *)
THEOREM DelegationInvariant == Spec => []DelegationInv
<1>1. DelegationInv /\ [Next]_vars => DelegationInv'
    BY StepInv, StepToldTypes
<1> QED
    BY <1>1, InitInv, PTL DEF Spec

(* The types, the records of delegations among them: no operation leaves a   *)
(* delegation with a status, a target or a report outside of those declared. *)
THEOREM DelegationsTyping == Spec => []TypeOK
<1>1. DelegationInv => TypeOK
    BY DEF DelegationInv
<1> QED
    BY <1>1, DelegationInvariant, PTL

(* A live delegation was brought to its target, a running one accepted by it. *)
THEOREM LiveWasOfferedHolds == Spec => []LiveWasOffered
<1>1. DelegationInv => LiveWasOffered
    BY DEF DelegationInv
<1> QED
    BY <1>1, DelegationInvariant, PTL

-----------------------------------------------------------------------------
(* What a step may do to the status of one delegation. *)
LEMMA StatusSteps ==
    ASSUME DelegationInv, [Next]_vars, NEW n \in Object, object[n].status \in Status
    PROVE  object'[n] = object[n]
           \/ \E st \in Status, acc \in BOOLEAN :
                 object'[n].status = st /\ MayFollow(object[n], st, acc)
<1>1. ASSUME NEW o \in Object, NEW i \in Id, NEW from \in Party, NEW to \in Agent,
             NEW topic \in BOOLEAN, Create(o, i, from, to, topic)
      PROVE  object'[n] = object[n]
    <2>1. o # n
        BY <1>1, CreateStep, NotDelegation DEF Status, Live, Over
    <2> QED
        BY <1>1, <2>1, CreateStep
<1>2. ASSUME NEW o \in Object, NEW st \in Status, NEW acc \in BOOLEAN, Moves(o, st, acc)
      PROVE  object'[n] = object[n] \/ (object'[n].status = st /\ MayFollow(object[n], st, acc))
    <2>1. CASE n = o
        <3>1. Moves(n, st, acc)
            BY <1>2, <2>1
        <3>2. object'[n].status = st
            BY <3>1, MoveFields DEF DelegationInv
        <3>3. MayFollow(object[n], st, acc)
            BY <3>1 DEF Moves
        <3> QED
            BY <3>2, <3>3
    <2>2. CASE n # o
        <3>1. \A m \in Object \ {o} : object'[m] = object[m]
            BY <1>2, MoveFields DEF DelegationInv
        <3> QED
            BY <2>2, <3>1
    <2> QED
        BY <2>1, <2>2
<1> QED
    BY <1>1, <1>2, StepKinds

(* A finished delegation stays finished, over both interfaces and for any    *)
(* number of agents, delegations and ids.                                   *)
THEOREM FinishedStaysFinishedHolds == Spec => FinishedStaysFinished
<1>1. ASSUME DelegationInv, [Next]_vars
      PROVE  [\A o \in Object : object[o].status \in {"done", "failed"}
                                  => object'[o].status \in {"done", "failed"}]_vars
    BY <1>1, StatusSteps DEF MayFollow, Status, Live, Over
<1> QED
    BY <1>1, DelegationInvariant, PTL DEF Spec, FinishedStaysFinished

(* A delegation that was rejected or cancelled never becomes live again. *)
THEOREM CalledOffStaysOffHolds == Spec => CalledOffStaysOff
<1>1. ASSUME DelegationInv, [Next]_vars
      PROVE  [\A o \in Object : object[o].status \in {"rejected", "cancelled"}
                                  => object'[o].status \notin Live]_vars
    BY <1>1, StatusSteps DEF MayFollow, Status, Live, Over
<1> QED
    BY <1>1, DelegationInvariant, PTL DEF Spec, CalledOffStaysOff

-----------------------------------------------------------------------------
(* The delegator of the object stored under i has heard its status, or is    *)
(* about to: the instance of DelegatorUpToDate for one id.                  *)
UpToDate(i) ==
    current[i] # 0 /\ Open(object[current[i]].from) =>
        \/ told[object[current[i]].from][i] \in {"none", object[current[i]].status}
        \/ publishing[current[i]] > 0
        \/ current[i] \in Unstorable /\ object[current[i]].status \in Finished

(* A step that leaves id i alone, and at most resets what agents know of it, *)
(* leaves its delegator up to date.                                         *)
LEMMA OtherId ==
    ASSUME DelegationInv, NEW i \in Id, UpToDate(i),
           current'[i] = current[i],
           object'[current[i]] = object[current[i]],
           publishing'[current[i]] = publishing[current[i]],
           \A a \in Agent : link'[a] = "open" =>
               \/ told'[a][i] = "none"
               \/ link[a] = "open" /\ told'[a][i] = told[a][i]
    PROVE  UpToDate(i)'
BY DEF UpToDate, Open

(* What telling one id does to the others and to whom it reaches. *)
LEMMA TellSteps ==
    ASSUME DelegationInv, NEW S, NEW i \in Id, NEW st, Tell(S, i, st)
    PROVE  /\ \A a \in Agent, j \in Id \ {i} : told'[a][j] = told[a][j]
           /\ \A a \in Agent : a \in S /\ Open(a) => told'[a][i] = st
           /\ \A a \in Agent : a \notin S => told'[a][i] = told[a][i]
BY DEF Tell, DelegationInv, TypeOK

(* Every step leaves every delegator up to date. *)
LEMMA StepUpToDate ==
    ASSUME DelegationInv, [Next]_vars, NEW i \in Id, UpToDate(i)
    PROVE  UpToDate(i)'
<1>0. /\ current[i] \in 0..MaxObjects
      /\ current[i] # 0 => /\ current[i] \in Object
                           /\ object[current[i]] \in Delegation
                           /\ object[current[i]].id = i
    BY DelegationsAssumption DEF DelegationInv, TypeOK, MapIsSound, Object
<1>1. CASE UNCHANGED vars
    BY <1>1 DEF vars, UpToDate, Open
<1>2. ASSUME NEW b \in Agent, NEW state \in {"off", "closing", "open"}, Link(b, state)
      PROVE  UpToDate(i)'
    <2>1. \A a \in Agent : link'[a] = "open" =>
               \/ told'[a][i] = "none"
               \/ link[a] = "open" /\ told'[a][i] = told[a][i]
        BY <1>2 DEF Link, DelegationInv, TypeOK
    <2> QED
        BY <1>2, <2>1, OtherId DEF Link
<1>3. ASSUME NEW o \in Object, NEW j \in Id, NEW from \in Party, NEW to \in Agent,
             NEW topic \in BOOLEAN, Create(o, j, from, to, topic),
             \/ UNCHANGED told /\ from = RestApi
             \/ Tell({from}, j, IF Open(to) THEN "requested" ELSE "rejected")
      PROVE  UpToDate(i)'
    <2>0. UNCHANGED <<link, publishing>>
        BY <1>3, CreateStep
    <2>1. CASE i = j
        <3>1. current'[i] = o /\ object'[o].from = from
            BY <1>3, <2>1, CreateStep DEF DelegationInv, TypeOK
        <3>2. CASE from = RestApi
            BY <3>1, <3>2, DelegationsAssumption DEF UpToDate, Open
        <3>3. CASE Tell({from}, j, IF Open(to) THEN "requested" ELSE "rejected")
            <4>1. object'[o].status = IF Open(to) THEN "requested" ELSE "rejected"
                BY <1>3, CreateStep
            <4>2. from \in Agent /\ Open(from) =>
                      told'[from][i] = IF Open(to) THEN "requested" ELSE "rejected"
                BY <2>1, <3>3, TellSteps
            <4> QED
                BY <2>0, <3>1, <4>1, <4>2 DEF UpToDate, Open
        <3> QED
            BY <1>3, <3>2, <3>3
    <2>2. CASE i # j
        <3>1. current'[i] = current[i]
            BY <1>3, <2>2, CreateStep DEF DelegationInv, TypeOK
        <3>2. current[i] # 0 => object'[current[i]] = object[current[i]]
            BY <1>0, <1>3, CreateStep, NotDelegation
        <3>3. \A a \in Agent : told'[a][i] = told[a][i]
            BY <1>3, <2>2, TellSteps
        <3>4. CASE current[i] = 0
            BY <3>1, <3>4 DEF UpToDate
        <3>5. CASE current[i] # 0
            BY <2>0, <3>1, <3>2, <3>3, <3>5, OtherId
        <3> QED
            BY <3>4, <3>5
    <2> QED
        BY <2>1, <2>2
<1>4. ASSUME NEW o \in Object, NEW j \in Id, Handled(o, j)
      PROVE  UpToDate(i)'
    <2>1. /\ current[j] = o /\ object[o] \in Delegation
          /\ UNCHANGED <<link, current>>
          /\ \A n \in Object \ {o} : publishing'[n] = publishing[n]
          /\ \/ \E S : object[o].from \in S /\ SendDelegationUpdate(S, j)
             \/ publishing'[o] > 0 /\ UNCHANGED told
        BY <1>4, HandledMoves
    <2>2. object'[o].from = object[o].from /\ \A n \in Object \ {o} : object'[n] = object[n]
        <3>1. PICK st \in Status, acc \in BOOLEAN : Moves(o, st, acc)
            BY <1>4, HandledMoves
        <3> QED
            BY <3>1, MoveFields DEF DelegationInv
    <2>3. CASE i = j
        <3>1. CASE publishing'[o] > 0
            BY <2>1, <2>3, <3>1 DEF UpToDate
        <3>2. ASSUME NEW S, object[o].from \in S, SendDelegationUpdate(S, j)
              PROVE  UpToDate(i)'
            <4>1. Tell(S, i, object'[o].status)
                BY <2>1, <2>3, <3>2 DEF SendDelegationUpdate
            <4>2. \A a \in Agent : a \in S /\ Open(a) => told'[a][i] = object'[o].status
                BY <4>1, TellSteps
            <4> QED
                BY <2>1, <2>2, <2>3, <3>2, <4>2 DEF UpToDate, Open
        <3> QED
            BY <2>1, <3>1, <3>2
    <2>4. CASE i # j
        <3>1. current[i] # 0 => current[i] # o
            BY <1>0, <2>1, <2>4 DEF DelegationInv, MapIsSound
        <3>2. \A a \in Agent : told'[a][i] = told[a][i]
            <4>1. ASSUME NEW S, SendDelegationUpdate(S, j)
                  PROVE  \A a \in Agent : told'[a][i] = told[a][i]
                BY <2>4, <4>1, TellSteps DEF SendDelegationUpdate
            <4> QED
                BY <2>1, <4>1
        <3>3. CASE current[i] = 0
            BY <2>1, <3>3 DEF UpToDate
        <3>4. CASE current[i] # 0
            BY <1>0, <2>1, <2>2, <3>1, <3>2, <3>4, OtherId
        <3> QED
            BY <3>3, <3>4
    <2> QED
        BY <2>3, <2>4
<1>5. ASSUME NEW o \in Object, PublishResult(o)
      PROVE  UpToDate(i)'
    <2> DEFINE j == object[o].id
               b == object[o].from
    <2>1. /\ UNCHANGED <<link, object, current>>
          /\ Tell({b}, j, object[current[j]].status)
          /\ \A n \in Object \ {o} : publishing'[n] = publishing[n]
        BY <1>5 DEF PublishResult, DelegationInv, TypeOK
    <2>2. j \in Id
        BY <1>5 DEF PublishResult, DelegationInv, PublishedExist, Delegation
    <2>3. CASE current[i] = 0
        BY <2>1, <2>3 DEF UpToDate
    <2>4. CASE current[i] # 0 /\ current[i] # o /\ (i # j \/ object[current[i]].from # b)
        <3>1. publishing'[current[i]] = publishing[current[i]]
            BY <1>0, <2>1, <2>4
        <3>2. object[current[i]].from \in Agent =>
                  told'[object[current[i]].from][i] = told[object[current[i]].from][i]
            <4>1. \A a \in Agent, k \in Id \ {j} : told'[a][k] = told[a][k]
                BY <2>1, <2>2, TellSteps
            <4>2. \A a \in Agent : a # b => told'[a][j] = told[a][j]
                BY <2>1 DEF Tell, DelegationInv, TypeOK
            <4> HIDE DEF j, b
            <4> QED
                BY <2>4, <4>1, <4>2
        <3> QED
            BY <2>1, <3>1, <3>2 DEF UpToDate, Open
    <2>5. CASE current[i] # 0 /\ i = j /\ object[current[i]].from = b
        <3>1. b \in Agent /\ Open(b) => told'[b][i] = object[current[i]].status
            <4>1. Tell({b}, i, object[current[i]].status)
                BY <2>1, <2>5
            <4> HIDE DEF b
            <4> QED
                BY <4>1, TellSteps
        <3> QED
            BY <2>1, <2>5, <3>1 DEF UpToDate, Open
    <2>6. current[i] = o => i = j /\ object[current[i]].from = b
        BY <1>0 DEF Object
    <2> QED
        BY <2>3, <2>4, <2>5, <2>6
<1>6. ASSUME NEW o \in Object, PublishFails(o)
      PROVE  UpToDate(i)'
    <2>1. /\ UNCHANGED <<link, object, current, told>>
          /\ \A n \in Object \ {o} : publishing'[n] = publishing[n]
          /\ o \in Unstorable /\ object[o].status \in Finished
        <3>1. publishing[o] > 0 /\ publishing' = [publishing EXCEPT ![o] = @ - 1]
            BY <1>6 DEF PublishFails
        <3>2. object[o].status \in Finished
            BY <3>1 DEF DelegationInv, PublishedExist
        <3> QED
            BY <1>6, <3>1, <3>2 DEF PublishFails, DelegationInv, TypeOK
    <2>2. CASE current[i] = o
        BY <2>1, <2>2 DEF UpToDate
    <2>3. CASE current[i] # o
        BY <1>0, <2>1, <2>3 DEF UpToDate, Open
    <2> QED
        BY <2>2, <2>3
<1> QED
    <2>1. ASSUME NEW o \in Object, NEW j \in Id, NEW to \in Agent, NEW topic \in BOOLEAN,
                 \/ \E a \in Agent : HandleDelegateRequest(a, o, j, to, topic)
                 \/ RestCreate(o, j, to, topic)
          PROVE  UpToDate(i)'
        BY <1>3, <2>1 DEF HandleDelegateRequest, RestCreate, Party
    <2> QED
        BY <1>1, <1>2, <1>4, <1>5, <1>6, <2>1, NextKinds

(* A connected delegator never knows less than the present status of its     *)
(* delegation, unless the result is being published or was refused by the   *)
(* database: for any number of agents, ids and overlapping results, and     *)
(* whichever results the database refuses.                                  *)
THEOREM DelegatorUpToDateHolds == Spec => []DelegatorUpToDate
<1> DEFINE AllUpToDate == \A i \in Id : UpToDate(i)
<1>1. Init => AllUpToDate
    BY DEF Init, UpToDate
<1>2. DelegationInv /\ AllUpToDate /\ [Next]_vars => AllUpToDate'
    BY StepUpToDate
<1>3. AllUpToDate => DelegatorUpToDate
    BY DEF UpToDate, DelegatorUpToDate, Finished
<1> HIDE DEF AllUpToDate
<1> QED
    BY <1>1, <1>2, <1>3, DelegationInvariant, PTL DEF Spec

-----------------------------------------------------------------------------
(* ResultIsReported without its fairness.  A result of o is owed to the      *)
(* delegator a, who has an open socket and asked for it under the id i.     *)
ResultIsDue(o, a, i) ==
    /\ Known(o, i)
    /\ object[o].from = a
    /\ Open(a)
    /\ publishing[o] > 0

(* What the delegator is owed is never lost on the way: while the result of  *)
(* a delegation that can be stored is being published, no step of any agent, *)
(* caller or other result takes the debt away, unless the delegator is told  *)
(* that it is finished, loses its socket, or has its id taken.  And the step *)
(* that resumes the handler tells it so, even when the status was           *)
(* overwritten by another result in between.  (What is left of              *)
(* ResultIsReported is that the handler is resumed.)                        *)
ResultStaysDue ==
    [][\A o \in Object \ Unstorable, a \in Agent, i \in Id :
         ResultIsDue(o, a, i) =>
           /\ \/ ResultIsDue(o, a, i)'
              \/ told'[a][i] \in Finished
              \/ ~Open(a)'
              \/ ~Known(o, i)'
           /\ publishing'[o] < publishing[o] => told'[a][i] \in Finished]_vars

(* Only the handlers of its own results count down those of a delegation. *)
LEMMA HandledPublishes ==
    ASSUME DelegationInv, NEW o \in Object, NEW i \in Id, Handled(o, i), NEW n \in Object
    PROVE  publishing'[n] \in Nat /\ publishing'[n] >= publishing[n]
<1>1. publishing \in [Object -> Nat]
    BY DelegationsAssumption DEF DelegationInv, TypeOK
<1>2. ASSUME NEW a \in Agent, NEW st \in {"done", "failed"}, HandleDelegateResult(a, o, i, st)
      PROVE  publishing'[n] \in Nat /\ publishing'[n] >= publishing[n]
    <2>1. UNCHANGED publishing \/ publishing' = [publishing EXCEPT ![o] = @ + 1]
        BY <1>2 DEF HandleDelegateResult
    <2> QED
        BY <1>1, <2>1
<1>3. CASE UNCHANGED publishing
    BY <1>1, <1>3
<1> QED
    BY <1>2, <1>3 DEF Handled, HandleDelegateResponse, HandleDelegateProgress,
                      HandleDelegateCancel, RestCancel

(* One step, one delegation: the debt stays or is paid. *)
LEMMA StepDue ==
    ASSUME DelegationInv, [Next]_vars, NEW o \in Object, o \notin Unstorable,
           NEW a \in Agent, NEW i \in Id, ResultIsDue(o, a, i)
    PROVE  /\ \/ ResultIsDue(o, a, i)'
              \/ told'[a][i] \in Finished
              \/ ~Open(a)'
              \/ ~Known(o, i)'
           /\ publishing'[o] < publishing[o] => told'[a][i] \in Finished
<1> DEFINE Owed == /\ object'[o].from = a
                   /\ publishing'[o] > 0
                   /\ ~(publishing'[o] < publishing[o])
<1>0. /\ publishing[o] \in Nat /\ publishing[o] > 0
      /\ object[o] \in Delegation /\ object[o].status \in Finished
      /\ object[o].id = i /\ object[o].from = a
      /\ current[i] = o
    BY DelegationsAssumption
    DEF ResultIsDue, Known, DelegationInv, TypeOK, PublishedExist, MapIsSound
<1>1. SUFFICES Owed \/ told'[a][i] \in Finished
    BY DEF ResultIsDue
<1>2. CASE UNCHANGED vars
    BY <1>0, <1>2 DEF vars
<1>3. ASSUME NEW b \in Agent, NEW state \in {"off", "closing", "open"}, Link(b, state)
      PROVE  Owed
    BY <1>0, <1>3 DEF Link
<1>4. ASSUME NEW n \in Object, NEW j \in Id, NEW from \in Party, NEW to \in Agent,
             NEW topic \in BOOLEAN, Create(n, j, from, to, topic)
      PROVE  Owed
    <2>1. n # o
        BY <1>0, <1>4, CreateStep, NotDelegation
    <2> QED
        BY <1>0, <1>4, <2>1, CreateStep
<1>5. ASSUME NEW n \in Object, NEW j \in Id, Handled(n, j)
      PROVE  Owed
    <2>1. object'[o].from = object[o].from
        <3>1. PICK st \in Status, acc \in BOOLEAN : Moves(n, st, acc)
            BY <1>5, HandledMoves
        <3> QED
            BY <3>1, MoveFields DEF DelegationInv
    <2>2. publishing'[o] \in Nat /\ publishing'[o] >= publishing[o]
        BY <1>5, HandledPublishes
    <2> QED
        BY <1>0, <2>1, <2>2
<1>6. ASSUME NEW n \in Object, PublishResult(n) \/ PublishFails(n)
      PROVE  Owed \/ told'[a][i] \in Finished
    <2>1. publishing' = [publishing EXCEPT ![n] = @ - 1] /\ UNCHANGED object
        BY <1>6 DEF PublishResult, PublishFails
    <2>2. CASE n # o
        BY <1>0, <2>1, <2>2 DEF DelegationInv, TypeOK
    <2>3. CASE n = o
        <3>1. PublishResult(o)
            BY <1>6, <2>3 DEF PublishFails
        <3>2. Tell({a}, i, object[o].status)
            BY <1>0, <3>1 DEF PublishResult
        <3>3. told'[a][i] = object[o].status
            <4>1. \A b \in Agent : b \in {a} /\ Open(b) => told'[b][i] = object[o].status
                BY <3>2, TellSteps
            <4> QED
                BY <4>1 DEF ResultIsDue
        <3> QED
            BY <1>0, <3>3
    <2> QED
        BY <2>2, <2>3
<1> QED
    <2>1. ASSUME NEW n \in Object, NEW j \in Id, NEW to \in Agent, NEW topic \in BOOLEAN,
                 \/ \E b \in Agent : HandleDelegateRequest(b, n, j, to, topic)
                 \/ RestCreate(n, j, to, topic)
          PROVE  Owed
        BY <1>4, <2>1 DEF HandleDelegateRequest, RestCreate, Party
    <2> HIDE DEF Owed
    <2> QED
        BY <1>2, <1>3, <1>5, <1>6, <2>1, NextKinds

(* The safety half of ResultIsReported, for any number of agents, ids and    *)
(* overlapping results of one delegation.                                   *)
THEOREM ResultStaysDueHolds == Spec => ResultStaysDue
<1>1. ASSUME DelegationInv, [Next]_vars
      PROVE  [\A o \in Object \ Unstorable, a \in Agent, i \in Id :
                ResultIsDue(o, a, i) =>
                  /\ \/ ResultIsDue(o, a, i)'
                     \/ told'[a][i] \in Finished
                     \/ ~Open(a)'
                     \/ ~Known(o, i)'
                  /\ publishing'[o] < publishing[o] => told'[a][i] \in Finished]_vars
    BY <1>1, StepDue
<1> QED
    BY <1>1, DelegationInvariant, PTL DEF Spec, ResultStaysDue

=============================================================================
