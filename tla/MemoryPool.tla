----------------------------- MODULE MemoryPool -----------------------------
(***************************************************************************)
(* MemoryPool (hub/src/memory.ts) on its storage (hub/src/db.ts): the      *)
(* shared key-value memory with TTL, version history, a copy of each value *)
(* in the graph store, and the memory_update broadcast of a write over     *)
(* WebSocket (ws_server.ts handleMemoryWrite).                             *)
(*                                                                         *)
(* A write reads the key, stores the value in one transaction, reads the   *)
(* key again and then broadcasts and mirrors: three database calls, and    *)
(* other handlers run between any two of them.  With SQLite a call is done *)
(* when it returns and its handler resumes in a microtask: handlers resume *)
(* in the order of their calls, and only pipelined frames of one socket    *)
(* overlap.  With MySQL the answers of a pool of connections come back in  *)
(* any order, and an expired row is read and deleted by two statements.    *)
(*                                                                         *)
(* A value is named by the write that stored it.  The memory nodes of the  *)
(* graph store are also made and removed by clients, over /graph/nodes:    *)
(* the pool updates, or removes, the oldest node of a key, whoever made it. *)
(* Scopes, tags, search and encryption are left out: they read, and change *)
(* nothing.                                                                *)
(***************************************************************************)
EXTENDS Integers, Sequences

Seqs == INSTANCE SequencesExt

CONSTANTS
    Key,            \* memory keys
    Route,          \* how values are written: "ws", or "rest" (also federation)
    Value,          \* serialized values
    NoValue,        \* the value of a call of delete
    MaxCalls,       \* bound: writes and deletes in one behaviour
    MaxNodes,       \* bound: memory nodes of a key when a client adds one; with 0
                    \* clients remove none either
    InProcess,      \* TRUE: SqliteStorage; FALSE: MySqlStorage
    DbMayFail       \* whether a database call may reject

ASSUME MemoryAssumption ==
    /\ MaxCalls \in Nat /\ MaxNodes \in Nat
    /\ InProcess \in BOOLEAN
    /\ DbMayFail \in BOOLEAN
    /\ Route \subseteq {"ws", "rest"}

VARIABLES
    row,        \* table memory: the write that stored the row of a key, or 0
    past,       \* the writes whose expire_at has passed
    versions,   \* table memory_versions: version n is element n
    call,       \* the calls of MemoryPool.write and MemoryPool.delete
    ahead,      \* in process: the calls that resume before a call does
    doomed,     \* keys that a suspended MySQL read is about to delete
    mirror,     \* the graph store's memory nodes of a key, oldest first: the write
                \* whose value it holds, 0 for what a client gave it
    cut,        \* history: keys whose oldest node a client removed since a write
    heard,      \* history: the value last broadcast in a memory_update
    gone,       \* history: the writes whose row was removed
    removed     \* history: why a key has no row

store == <<row, versions, gone, removed>>
vars  == <<store, past, call, ahead, doomed, mirror, cut, heard>>

Call   == 1..MaxCalls
NoCall == [stage |-> "none"]
Write  == {"ws", "rest"}    \* over REST or from a federation peer: no broadcast

CallRecord ==
    [stage : {"read", "set", "reread", "deleted", "done"},
     op : Write \cup {"delete"}, key : Key, value : Value \cup {NoValue},
     ttl : BOOLEAN,
     saw : 0..MaxCalls,         \* what its last getMemory returned
     expiring : BOOLEAN,        \* that getMemory met an expired row
     duplicate : BOOLEAN,
     commit : 0..MaxCalls]      \* history: the rank of its commit, or 0

MemoryTypeOK ==
    /\ row \in [Key -> 0..MaxCalls]
    /\ past \in SUBSET Call
    /\ versions \in [Key -> Seq(Call)]
    /\ call \in [Call -> {NoCall} \cup CallRecord]
    /\ ahead \in [Call -> SUBSET Call]
    /\ doomed \in SUBSET Key
    /\ mirror \in [Key -> Seq(0..MaxCalls)]
    /\ cut \in SUBSET Key
    /\ heard \in [Key -> 0..MaxCalls]
    /\ gone \in SUBSET Call
    /\ removed \in [Key -> {"never", "expired", "deleted", "evicted"}]

Init ==
    /\ row = [k \in Key |-> 0]
    /\ past = {}
    /\ versions = [k \in Key |-> <<>>]
    /\ call = [c \in Call |-> NoCall]
    /\ ahead = [c \in Call |-> {}]
    /\ doomed = {}
    /\ mirror = [k \in Key |-> <<>>]
    /\ cut = {}
    /\ heard = [k \in Key |-> 0]
    /\ gone = {}
    /\ removed = [k \in Key |-> "never"]

-----------------------------------------------------------------------------
InFlight == {c \in Call : call[c].stage \notin {"none", "done"}}

(* A suspended call resumes.  In process that is in the order of the calls'  *)
(* last database access, except that an access that met an expired row      *)
(* takes a few microtasks longer.                                           *)
Resumes(c) == c \in InFlight /\ (InProcess => \A b \in ahead[c] : call[b].expiring)

(* After its access c waits behind all others, or is finished. *)
ToBack(c) ==
    ahead' = [b \in Call |-> IF b # c \/ ~InProcess THEN ahead[b] \ {c}
                             ELSE IF call'[c].stage = "done" THEN {}
                             ELSE InFlight \ {c}]

(* Handlers of different sockets and requests start in different tasks of    *)
(* the event loop; in process none is suspended from one task to the next.  *)
MayStart(c, op) ==
    /\ call[c] = NoCall
    /\ \A b \in Call : b < c => call[b] # NoCall
    /\ InProcess => \A b \in InFlight : call[b].op = "ws" /\ op = "ws"

Remove(K, why) ==
    /\ row' = [k \in Key |-> IF k \in K THEN 0 ELSE row[k]]
    /\ gone' = gone \cup {c \in Call : \E k \in K : row[k] = c}
    /\ removed' = [k \in Key |-> IF k \in K /\ row[k] # 0 THEN why ELSE removed[k]]
    /\ UNCHANGED versions

(* Mutant: a row keeps the expiry it had when its value is replaced. *)
ExpiredAsBefore(k) == row[k] # 0 /\ \E c \in past : call[c].key = k

Expired(k) == row[k] \in past

(* What a read of the key returns. *)
Visible(k) == IF Expired(k) THEN 0 ELSE row[k]

(* getMemory.  SQLite deletes an expired row before any other handler runs; *)
(* the DELETE of MySQL is a call of its own.                                *)
GetMemory(c, read) ==
    LET k == read.key
    IN  /\ call' = [call EXCEPT ![c] = [read EXCEPT !.saw = Visible(k),
                                                    !.expiring = Expired(k)]]
        /\ ToBack(c)
        /\ IF InProcess /\ Expired(k) THEN Remove({k}, "expired")
                                      ELSE UNCHANGED store

(* The DELETE of an expired row by MySQL, whatever the row is by now. *)
DeleteExpired(c) ==
    /\ ~InProcess
    /\ c \in InFlight
    /\ call[c].expiring
    /\ call' = [call EXCEPT ![c].expiring = FALSE]
    /\ Remove({call[c].key}, "expired")
    /\ UNCHANGED <<past, ahead, doomed, mirror, cut, heard>>

(* The handler goes on with what getMemory answered. *)
HasAnswer(c) == Resumes(c) /\ (call[c].expiring => InProcess)

(* MemoryPool.write up to its first await. *)
StartWrite(c, op, k, v, ttl) ==
    /\ MayStart(c, op)
    /\ GetMemory(c, [stage |-> "read", op |-> op, key |-> k, value |-> v,
                     ttl |-> ttl, saw |-> 0, expiring |-> FALSE,
                     duplicate |-> FALSE, commit |-> 0])
    /\ UNCHANGED <<past, doomed, mirror, cut, heard>>

(* Mutant: the version is taken from the read at the start of the write. *)
ReplacedAsRead(c) == call[c].saw

(* The row that a transaction finds in place and moves to the history. *)
Replaced(c) == row[call[c].key]

(* Mutant: the version is stored without looking for a row. *)
KeepsAnyVersion(c) == TRUE

KeepsVersion(c) == Replaced(c) # 0

(* The value read first decides; the transaction is run in any case. *)
IsDuplicate(c) ==
    call[c].saw # 0 /\ call[call[c].saw].value = call[c].value

Commits == {c \in Call : call[c] # NoCall /\ call[c].commit # 0}
NextCommit(n) == n \in 1..MaxCalls /\ \A m \in 1..MaxCalls :
                    m < n <=> \E c \in Commits : call[c].commit = m

(* setMemory: one transaction. *)
SetMemory(c) ==
    LET k == call[c].key
    IN  /\ HasAnswer(c)
        /\ call[c].stage = "read"
        /\ call[c].op \in Write
        /\ versions' = IF KeepsVersion(c)
                       THEN [versions EXCEPT ![k] = Append(@, Replaced(c))]
                       ELSE versions
        /\ row' = [row EXCEPT ![k] = c]
        /\ \E n \in 1..MaxCalls :
             /\ NextCommit(n)
             /\ call' = [call EXCEPT ![c].stage = "set", ![c].expiring = FALSE,
                                     ![c].duplicate = IsDuplicate(c),
                                     ![c].commit = n]
        /\ ToBack(c)
        /\ UNCHANGED <<past, doomed, mirror, cut, heard, gone, removed>>

(* The read back for the result and the notification. *)
Reread(c) ==
    /\ Resumes(c)
    /\ call[c].stage = "set"
    /\ GetMemory(c, [call[c] EXCEPT !.stage = "reread"])
    /\ UNCHANGED <<past, doomed, mirror, cut, heard>>

(* Mutant: a duplicate is not announced to the agents either. *)
AnnouncesUnlessDuplicate(c) ==
    call[c].op = "ws" /\ call[c].saw # 0 /\ ~call[c].duplicate

(* handleMemoryWrite broadcasts the row read back.  Without one, reading     *)
(* mem.value throws: the writer gets an error and the agents nothing.       *)
Announces(c) == call[c].op = "ws" /\ call[c].saw # 0

(* Mutant: a write leaves the nodes there are and adds its own. *)
SyncedBehind(c) == Append(mirror[call[c].key], c)

(* syncMemoryNode: the oldest node of the key takes the value of this write, *)
(* not the one read back; without a node one is made.                       *)
Synced(c) ==
    LET nodes == mirror[call[c].key]
    IN  IF nodes = <<>> THEN <<c>> ELSE [nodes EXCEPT ![1] = c]

FinishWrite(c) ==
    LET k == call[c].key
    IN  /\ HasAnswer(c)
        /\ call[c].stage = "reread"
        /\ mirror' = [mirror EXCEPT ![k] = Synced(c)]
        /\ cut' = cut \ {k}
        /\ heard' = IF Announces(c) THEN [heard EXCEPT ![k] = call[c].saw] ELSE heard
        /\ call' = [call EXCEPT ![c].stage = "done"]
        /\ ToBack(c)
        /\ UNCHANGED <<store, past, doomed>>

(* MemoryPool.delete up to its first await. *)
StartDelete(c, k) ==
    /\ MayStart(c, "delete")
    /\ GetMemory(c, [stage |-> "read", op |-> "delete", key |-> k, value |-> NoValue,
                     ttl |-> FALSE, saw |-> 0, expiring |-> FALSE,
                     duplicate |-> FALSE, commit |-> 0])
    /\ UNCHANGED <<past, doomed, mirror, cut, heard>>

(* deleteMemory, unless the key was not found. *)
DeleteRow(c) ==
    LET k == call[c].key
        found == call[c].saw # 0
    IN  /\ HasAnswer(c)
        /\ call[c].stage = "read"
        /\ call[c].op = "delete"
        /\ call' = [call EXCEPT ![c].stage = IF found /\ row[k] # 0 THEN "deleted" ELSE "done",
                                ![c].expiring = FALSE]
        /\ IF found THEN Remove({k}, "deleted") ELSE UNCHANGED store
        /\ ToBack(c)
        /\ UNCHANGED <<past, doomed, mirror, cut, heard>>

(* Mutant: the node that was added last is removed. *)
NewestUnmirrored(c) ==
    IF mirror[call[c].key] = <<>> THEN <<>> ELSE Seqs!Front(mirror[call[c].key])

(* removeMemoryNode: the oldest node of the key. *)
Unmirrored(c) == IF mirror[call[c].key] = <<>> THEN <<>> ELSE Tail(mirror[call[c].key])

FinishDelete(c) ==
    /\ Resumes(c)
    /\ call[c].stage = "deleted"
    /\ mirror' = [mirror EXCEPT ![call[c].key] = Unmirrored(c)]
    /\ call' = [call EXCEPT ![c].stage = "done"]
    /\ ToBack(c)
    /\ UNCHANGED <<store, past, doomed, cut, heard>>

(* The database rejects the next call (a transaction is rolled back): the    *)
(* exception ends the handler where it stands.                              *)
DbFails(c) ==
    /\ DbMayFail
    /\ Resumes(c)
    /\ call[c].stage \in {"read", "set"}
    /\ call' = [call EXCEPT ![c].stage = "done"]
    /\ ToBack(c)
    /\ UNCHANGED <<store, past, doomed, mirror, cut, heard>>

(* In process nothing else runs, and no TTL, counted in seconds, runs out,    *)
(* before the microtasks of the present task are done.                       *)
Between == InProcess => InFlight = {}

(* The TTL of a stored value runs out. *)
Expire(k) ==
    /\ Between
    /\ row[k] # 0
    /\ call[row[k]].ttl
    /\ row[k] \notin past
    /\ past' = past \cup {row[k]}
    /\ UNCHANGED <<store, call, ahead, doomed, mirror, cut, heard>>

(* getAllMemory and cleanupExpired; with SQLite also the read of one key.    *)
CleanupExpired ==
    /\ Between
    /\ \E k \in Key : Expired(k)
    /\ Remove({k \in Key : Expired(k)}, "expired")
    /\ UNCHANGED <<past, call, ahead, doomed, mirror, cut, heard>>

(* MemoryPool.read and getVersions on MySQL: an expired row is seen ... *)
ReadExpired(k) ==
    /\ ~InProcess
    /\ Expired(k)
    /\ doomed' = doomed \cup {k}
    /\ UNCHANGED <<store, past, call, ahead, mirror, cut, heard>>

(* ... and the row the key has later is deleted. *)
ReadDeletes(k) ==
    /\ k \in doomed
    /\ doomed' = doomed \ {k}
    /\ Remove({k}, "expired")
    /\ UNCHANGED <<past, call, ahead, mirror, cut, heard>>

(* runWeeklyEviction: straight from the table, chosen from an old snapshot. *)
Evict(k) ==
    /\ Between
    /\ row[k] # 0
    /\ Remove({k}, "evicted")
    /\ UNCHANGED <<past, call, ahead, doomed, mirror, cut, heard>>

(* POST /graph/nodes: always a node of its own, whatever the key has. *)
AddNode(k) ==
    /\ Between
    /\ Len(mirror[k]) < MaxNodes
    /\ mirror' = [mirror EXCEPT ![k] = Append(@, 0)]
    /\ UNCHANGED <<store, past, call, ahead, doomed, cut, heard>>

(* DELETE /graph/nodes/:id: whoever made the node. *)
RemoveNode(k, n) ==
    /\ Between
    /\ MaxNodes # 0
    /\ n \in DOMAIN mirror[k]
    /\ mirror' = [mirror EXCEPT ![k] = Seqs!RemoveAt(@, n)]
    /\ cut' = IF n = 1 THEN cut \cup {k} ELSE cut
    /\ UNCHANGED <<store, past, call, ahead, doomed, heard>>

Next ==
    \/ \E c \in Call, k \in Key :
         \/ \E op \in Route, v \in Value, ttl \in BOOLEAN : StartWrite(c, op, k, v, ttl)
         \/ StartDelete(c, k)
    \/ \E c \in Call :
         \/ DeleteExpired(c) \/ SetMemory(c) \/ Reread(c) \/ FinishWrite(c)
         \/ DeleteRow(c) \/ FinishDelete(c) \/ DbFails(c)
    \/ \E k \in Key : Expire(k) \/ ReadExpired(k) \/ ReadDeletes(k) \/ Evict(k)
    \/ CleanupExpired
    \/ \E k \in Key : AddNode(k) \/ \E n \in DOMAIN mirror[k] : RemoveNode(k, n)

Spec == Init /\ [][Next]_vars

-----------------------------------------------------------------------------
(* No write gets lost: a committed value is the present one, or it is in the *)
(* version history, or its row was removed.  The history has the values of  *)
(* a key in the order of their commits.  Overlapping writes and stale first *)
(* reads make no difference: the transaction looks for itself.              *)
HistoryIsComplete ==
    \A c \in Commits : LET k == call[c].key
                       IN  \/ row[k] = c
                           \/ \E n \in DOMAIN versions[k] : versions[k][n] = c
                           \/ c \in gone

HistoryIsOrdered ==
    \A k \in Key : \A m, n \in DOMAIN versions[k] :
        m < n => call[versions[k][m]].commit < call[versions[k][n]].commit

HistoryIsFaithful == HistoryIsComplete /\ HistoryIsOrdered

(* No handler is in the middle of a call for the key. *)
Quiet(k) == k \notin doomed /\ \A c \in InFlight : call[c].key # k

SameValue(c, d) == d # 0 /\ call[c].value = call[d].value

(* When the writes of a key have settled, the agents were told its present   *)
(* value last if an agent wrote it: of two overlapping writes, the one that *)
(* prevails is the one announced last.                                      *)
AnnouncedIsCurrent ==
    \A k \in Key : Quiet(k) /\ row[k] # 0 /\ call[row[k]].op = "ws"
                      => SameValue(row[k], heard[k])

(* When the calls for a key have settled, its oldest node in the graph store *)
(* has the stored value, whatever nodes clients put beside it, unless one of *)
(* them removed it since the last write.                                    *)
MirrorIsCurrent ==
    \A k \in Key : Quiet(k) /\ row[k] # 0 /\ k \notin cut
                      => mirror[k] # <<>> /\ SameValue(row[k], mirror[k][1])

(* memory.ts:181-184: after a delete that was reported a success no node of   *)
(* the key serves what a write stored, in whatever order clients added and   *)
(* removed nodes: what is left is what clients gave.                        *)
DeletedIsUnmirrored ==
    \A k \in Key : Quiet(k) /\ row[k] = 0 /\ removed[k] = "deleted"
                      => \A n \in DOMAIN mirror[k] : mirror[k][n] = 0

(* types.ts:142: ttl 0 is no expiry.  In process no read or cleanup that met  *)
(* an expired row deletes one written since; on MySQL the DELETE goes by key *)
(* and does.                                                                *)
NoTtlNoExpiry ==
    [][\A k \in Key : row[k] # 0 /\ ~call[row[k]].ttl /\ row'[k] = 0
                         => removed'[k] # "expired"]_vars

=============================================================================
