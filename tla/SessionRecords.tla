--------------------------- MODULE SessionRecords ---------------------------
(***************************************************************************)
(* What the session memory of a hub promises its clients, whatever awaits  *)
(* its handlers are made of: a session has one record; an operation that   *)
(* changes it writes a record that is one change away from a record the    *)
(* session has had, never a mixture of two.  Where operations are atomic   *)
(* that is the present record: no change is lost, and a session that is    *)
(* gone comes back only when it is registered again.                       *)
(***************************************************************************)
EXTENDS Integers

CONSTANTS
    Session,    \* session ids
    Agent,      \* agents that register sessions
    NoRecord,   \* the record of a session that is not there
    GivenCount  \* the access counts a client may set

VARIABLES
    atomic,     \* whether an operation takes effect on the present record
    record,     \* the record of each session
    past        \* the records each session has had

vars == <<atomic, record, past>>

Importance == 0..2      \* below the eviction floor, between, above

Fresh(a, i) == [agent |-> a, importance |-> i, count |-> 0, flagged |-> FALSE]

Updated(r, i, n, b) == [r EXCEPT !.importance = i, !.count = n, !.flagged = b]

(* The records one operation can make of r.  A read counts and changes      *)
(* nothing else; an update sets any of the fields, the count as it was or   *)
(* as it is given.  Nothing changes the agent.                              *)
Changed(r) ==
    {[r EXCEPT !.count = @ + 1]}
    \cup {Updated(r, i, n, b) : i \in Importance, n \in GivenCount \cup {r.count},
                                b \in BOOLEAN}

Init ==
    /\ atomic \in BOOLEAN
    /\ record = [s \in Session |-> NoRecord]
    /\ past = [s \in Session |-> {}]

Store(s, r) ==
    /\ record' = [record EXCEPT ![s] = r]
    /\ past' = [past EXCEPT ![s] = @ \cup {r}]
    /\ UNCHANGED atomic

Register(s) == \E a \in Agent, i \in Importance : Store(s, Fresh(a, i))

Bases(s) == IF atomic THEN {record[s]} \ {NoRecord} ELSE past[s]

Change(s) == \E r \in Bases(s) : \E n \in Changed(r) : Store(s, n)

Remove(s) ==
    /\ record[s] # NoRecord
    /\ record' = [record EXCEPT ![s] = NoRecord]
    /\ UNCHANGED <<atomic, past>>

Next == \E s \in Session : Register(s) \/ Change(s) \/ Remove(s)

Spec == Init /\ [][Next]_vars

=============================================================================
