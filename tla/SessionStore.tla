---------------------------- MODULE SessionStore ----------------------------
(***************************************************************************)
(* The session memory: SessionStore (hub/src/session_store.ts) under the   *)
(* /sessions handlers of rest_server.ts and the weekly eviction of         *)
(* scheduler.ts, on the sessions table of db.ts.                           *)
(*                                                                         *)
(* A change of a session is a SELECT, an await and an upsert of the whole  *)
(* record.  With SQLite a call is done when it returns and the handler     *)
(* goes on in a microtask: between the first and the last access of one    *)
(* request, or of one eviction run, no other runs.  With MySQL any other   *)
(* may.  The storage is chosen when the hub starts.                        *)
(*                                                                         *)
(* A record is reduced to its agent (which stands for the fields that an   *)
(* update may not change), its importance in three classes, access count   *)
(* and flag.  The body of a PUT is spread over the record unchecked: it may *)
(* give any of these, the access count too, and several at once (here:     *)
(* numbers).  Lists, searches, feedback (which nothing reads) and the      *)
(* extraction queue (which nothing consumes) are left out.                 *)
(***************************************************************************)
EXTENDS Integers, FiniteSets

CONSTANTS
    Session,        \* session ids
    Agent,          \* agents that register sessions
    NoRecord,       \* the record of a session without a row
    Score,          \* the importances a client gives; 0..2 is the range kept
    PutCount,       \* the access counts a PUT gives
    Absent,         \* a field that a PUT does not give
    MaxCalls,       \* bound: requests that read a session before they write it
    MaxPosts,       \* bound: sessions registered
    MaxRuns,        \* bound: eviction runs
    MaxEvictions,   \* ForgettingConfig.maxEvictionsPerRun
    DbMayFail       \* whether a database call may reject

ASSUME StoreAssumption ==
    /\ MaxCalls \in Nat /\ MaxPosts \in Nat /\ MaxRuns \in Nat /\ MaxEvictions \in Nat
    /\ DbMayFail \in BOOLEAN
    /\ Score \subseteq Int /\ PutCount \subseteq Int
    /\ Absent \notin Int /\ Absent \notin BOOLEAN

VARIABLES
    storage,    \* "sqlite" or "mysql"
    row,        \* table sessions
    call,       \* the requests that change a session
    chosen,     \* what the eviction runs have still to delete: a session, the record
                \* it was seen with, the run
    posts, runs,\* counters
    past,       \* history: the records each session has had
    base,       \* history: the count the session was registered with (0) or a PUT gave
    reads       \* history: reads answered since

vars == <<storage, row, call, chosen, posts, runs, past, base, reads>>

Importance == 0..2
Floor == 1      \* ForgettingConfig.importanceFloor

Record == [agent : Agent, importance : Importance, count : Int, flagged : BOOLEAN]
Call   == 1..MaxCalls
NoCall == [stage |-> "none"]
Done   == [stage |-> "done"]

Op == [kind : {"get"}]
      \cup [kind : {"update"}, importance : Score \cup {Absent},
            count : PutCount \cup {Absent}, flagged : BOOLEAN \cup {Absent}]
      \cup [kind : {"flag"}, flagged : BOOLEAN]

CallRecord == [stage : {"again", "write"}, op : Op, session : Session, read : Record]

SessionTypeOK ==
    /\ storage \in {"sqlite", "mysql"}
    /\ row \in [Session -> Record \cup {NoRecord}]
    /\ call \in [Call -> {NoCall, Done} \cup CallRecord]
    /\ chosen \in SUBSET (Session \X Record \X (1..MaxRuns))
    /\ posts \in 0..MaxPosts /\ runs \in 0..MaxRuns
    /\ past \in [Session -> SUBSET Record]
    /\ base \in [Session -> Int] /\ reads \in [Session -> Nat]

Init ==
    /\ storage \in {"sqlite", "mysql"}
    /\ row = [s \in Session |-> NoRecord]
    /\ call = [c \in Call |-> NoCall]
    /\ chosen = {} /\ posts = 0 /\ runs = 0
    /\ past = [s \in Session |-> {}]
    /\ base = [s \in Session |-> 0] /\ reads = [s \in Session |-> 0]

-----------------------------------------------------------------------------
InFlight == {c \in Call : call[c].stage \in {"again", "write"}}

(* Mutant: an eviction run pauses between two sessions. *)
MayStartBesideEviction == storage = "sqlite" => InFlight = {}

(* A request or an eviction run starts in a task of its own. *)
MayStart == storage = "sqlite" => InFlight = {} /\ chosen = {}

Clamp(i) == IF i < 0 THEN 0 ELSE IF i > 2 THEN 2 ELSE i

(* setSession: an upsert of the whole record. *)
SetSession(s, r) ==
    /\ row' = [row EXCEPT ![s] = r]
    /\ past' = [past EXCEPT ![s] = @ \cup {r}]

(* The bookkeeping of the properties: the count of s starts at n. *)
CountFrom(s, n) == base' = [base EXCEPT ![s] = n] /\ reads' = [reads EXCEPT ![s] = 0]

(* Mutant: what replaces a session goes on with its count. *)
RegisterSessionCounted(s, a, i) ==
    /\ MayStart /\ posts < MaxPosts
    /\ posts' = posts + 1
    /\ SetSession(s, [agent |-> a, importance |-> Clamp(i), flagged |-> FALSE,
                      count |-> IF row[s] = NoRecord THEN 0 ELSE row[s].count])
    /\ CountFrom(s, 0)
    /\ UNCHANGED <<storage, call, chosen, runs>>

(* handleSessionCreate and registerSession.  A session of that id is        *)
(* replaced.                                                               *)
RegisterSession(s, a, i) ==
    /\ MayStart /\ posts < MaxPosts
    /\ posts' = posts + 1
    /\ SetSession(s, [agent |-> a, importance |-> Clamp(i), count |-> 0, flagged |-> FALSE])
    /\ CountFrom(s, 0)
    /\ UNCHANGED <<storage, call, chosen, runs>>

(* The first read of a request.  A session that is not found ends it; a GET  *)
(* has answered with this read, and its increment reads again.              *)
Start(c, s, op) ==
    /\ MayStart
    /\ call[c] = NoCall /\ \A b \in Call : b < c => call[b] # NoCall
    /\ call' = [call EXCEPT ![c] =
         IF row[s] = NoRecord THEN Done
         ELSE [stage |-> IF op.kind = "get" THEN "again" ELSE "write",
               op |-> op, session |-> s, read |-> row[s]]]
    /\ UNCHANGED <<storage, row, chosen, posts, runs, past, base, reads>>

(* incrementAccessCount reads the session it has just been given. *)
ReadAgain(c) ==
    LET s == call[c].session
    IN  /\ call[c].stage = "again"
        /\ call' = [call EXCEPT ![c] = IF row[s] = NoRecord THEN Done
                                       ELSE [@ EXCEPT !.stage = "write", !.read = row[s]]]
        /\ UNCHANGED <<storage, row, chosen, posts, runs, past, base, reads>>

(* The given value of a field, or the present one. *)
Given(given, present) == IF given = Absent THEN present ELSE given

(* Mutant: an update takes the importance as it is given. *)
MergeUnclamped(op, r) ==
    CASE op.kind = "get"  -> [r EXCEPT !.count = @ + 1]
      [] op.kind = "flag" -> [r EXCEPT !.flagged = op.flagged]
      [] OTHER -> [r EXCEPT !.importance = Given(op.importance, @),
                            !.count = Given(op.count, @),
                            !.flagged = Given(op.flagged, @)]

(* Mutant: setting the flag counts as a read. *)
MergeFlagCounts(op, r) ==
    CASE op.kind = "get"  -> [r EXCEPT !.count = @ + 1]
      [] op.kind = "flag" -> [r EXCEPT !.flagged = op.flagged, !.count = @ + 1]
      [] OTHER -> [r EXCEPT !.importance = IF op.importance = Absent THEN @
                                           ELSE Clamp(op.importance),
                            !.count = Given(op.count, @),
                            !.flagged = Given(op.flagged, @)]

(* The record a request makes of the one it read: incrementAccessCount,     *)
(* flagSession, and updateSession, which takes what the body gives and      *)
(* clamps the importance.                                                  *)
Merge(op, r) ==
    CASE op.kind = "get"  -> [r EXCEPT !.count = @ + 1]
      [] op.kind = "flag" -> [r EXCEPT !.flagged = op.flagged]
      [] OTHER -> [r EXCEPT !.importance = IF op.importance = Absent THEN @
                                           ELSE Clamp(op.importance),
                            !.count = Given(op.count, @),
                            !.flagged = Given(op.flagged, @)]

WriteBack(c) ==
    LET s == call[c].session
        op == call[c].op
    IN  /\ call[c].stage = "write"
        /\ SetSession(s, Merge(op, call[c].read))
        /\ call' = [call EXCEPT ![c] = Done]
        /\ CASE op.kind = "get" -> reads' = [reads EXCEPT ![s] = @ + 1] /\ UNCHANGED base
             [] op.kind = "update" /\ op.count # Absent -> CountFrom(s, op.count)
             [] OTHER -> UNCHANGED <<base, reads>>
        /\ UNCHANGED <<storage, chosen, posts, runs>>

(* A rejected call ends the request with an error. *)
DbFails(c) ==
    /\ DbMayFail /\ c \in InFlight
    /\ call' = [call EXCEPT ![c] = Done]
    /\ UNCHANGED <<storage, row, chosen, posts, runs, past, base, reads>>

DeleteSession(s) ==
    /\ MayStart /\ row[s] # NoRecord
    /\ row' = [row EXCEPT ![s] = NoRecord]
    /\ UNCHANGED <<storage, call, chosen, posts, runs, past, base, reads>>

-----------------------------------------------------------------------------
(* runWeeklyEviction, by the clock or by POST /memory/prune.                *)

Unimportant == {s \in Session : row[s] # NoRecord /\ row[s].importance < Floor}

(* getEvictionCandidates; the order of their scores is left open.  Nothing   *)
(* keeps two runs apart.                                                   *)
StartEviction ==
    /\ MayStart /\ runs < MaxRuns
    /\ runs' = runs + 1
    /\ \E C \in SUBSET Unimportant :
         /\ Cardinality(C) = IF Cardinality(Unimportant) < MaxEvictions
                             THEN Cardinality(Unimportant) ELSE MaxEvictions
         /\ chosen' = chosen \cup {<<s, row[s], runs + 1>> : s \in C}
    /\ UNCHANGED <<storage, row, call, posts, past, base, reads>>

(* The next session is deleted by its id, or its deletion fails and is logged. *)
Evict(p) ==
    /\ p \in chosen
    /\ chosen' = chosen \ {p}
    /\ row' = [row EXCEPT ![p[1]] = NoRecord] \/ (DbMayFail /\ row' = row)
    /\ UNCHANGED <<storage, call, posts, runs, past, base, reads>>

Next ==
    \/ \E s \in Session :
         \/ \E a \in Agent, i \in Score : RegisterSession(s, a, i)
         \/ \E c \in Call, op \in Op : Start(c, s, op)
         \/ DeleteSession(s)
    \/ \E c \in Call : ReadAgain(c) \/ WriteBack(c) \/ DbFails(c)
    \/ StartEviction
    \/ \E p \in chosen : Evict(p)

Spec == Init /\ [][Next]_vars

-----------------------------------------------------------------------------
(* With SQLite every request acts on the present record, with MySQL on some  *)
(* record the session has had.                                              *)
Records == INSTANCE SessionRecords WITH
             GivenCount <- PutCount, atomic <- storage = "sqlite", record <- row, past <- past

RecordsSpec == Records!Spec

(* With SQLite every read that was answered is counted, beside whatever      *)
(* other requests write the whole record: the count of a session is the one *)
(* it was registered with, or that the last PUT with an accessCount gave,   *)
(* and one for each read since.                                            *)
EveryReadCounts ==
    storage = "sqlite" /\ InFlight = {} =>
        \A s \in Session : row[s] # NoRecord => row[s].count = base[s] + reads[s]

(* With SQLite an eviction run deletes a session only as the unimportant one *)
(* that it saw: nothing raises its importance, or registers another under   *)
(* its id, in between.                                                      *)
EvictsWhatItSaw ==
    storage = "sqlite" => \A p \in chosen : row[p[1]] = p[2] /\ p[2].importance < Floor

=============================================================================
