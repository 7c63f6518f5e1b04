-------------------------- MODULE MemoryPoolProofs --------------------------
(***************************************************************************)
(* Proofs about MemoryPool: its types, and that the version history loses  *)
(* and reorders nothing, for any number of keys, values and overlapping    *)
(* calls, with either storage and with failing database calls; and that in *)
(* process nothing without a TTL expires, and agents and graph store end   *)
(* up with the value the table has.                                        *)
(*                                                                         *)
(* HistoryInv is inductive.  Beside the property it says that whatever is  *)
(* stored was committed, and that what is in the history of a key was      *)
(* committed before the present row: the reason why appending the replaced *)
(* row keeps the order.  OrderInv, for a database in process that answers, *)
(* says that calls finish in the order of their commits.                   *)
(***************************************************************************)
EXTENDS MemoryPool, SequenceTheorems, TLAPS

(* The row and the versions of a key are committed writes. *)
StoredIsCommitted ==
    \A k \in Key : /\ row[k] # 0 => row[k] \in Commits
                   /\ \A n \in DOMAIN versions[k] : versions[k][n] \in Commits

(* The versions of a key were committed before its present row. *)
VersionsAreOlder ==
    \A k \in Key : row[k] # 0 =>
        \A n \in DOMAIN versions[k] : call[versions[k][n]].commit < call[row[k]].commit

(* A call before its transaction has not committed. *)
ReadersHaveNotCommitted ==
    \A c \in Call : call[c] # NoCall /\ call[c].stage = "read" => call[c].commit = 0

HistoryInv ==
    /\ MemoryTypeOK
    /\ StoredIsCommitted
    /\ VersionsAreOlder
    /\ ReadersHaveNotCommitted
    /\ HistoryIsFaithful

(* No call forgets its key, TTL or commit, none starts with one, and a call   *)
(* before its transaction has none.                                         *)
CallsKept ==
    \A c \in Call :
        /\ call[c] # NoCall => /\ call'[c] # NoCall
                               /\ call'[c].key = call[c].key
                               /\ call'[c].commit = call[c].commit
                               /\ call'[c].ttl = call[c].ttl
        /\ call[c] = NoCall /\ call'[c] # NoCall => call'[c].commit = 0
        /\ call'[c] # NoCall /\ call'[c].stage = "read" => call'[c].commit = 0

(* The only change of the table is that some keys lose their row. *)
OnlyRemoves ==
    \E K \in SUBSET Key :
        /\ row' = [k \in Key |-> IF k \in K THEN 0 ELSE row[k]]
        /\ gone' = gone \cup {c \in Call : \E k \in K : row[k] = c}
        /\ versions' = versions

-----------------------------------------------------------------------------
(* "Not called yet" is no call record. *)
LEMMA NoCallIsNone == NoCall.stage = "none" /\ NoCall \notin CallRecord
BY DEF NoCall, CallRecord

(* Calls in flight are calls with a record. *)
LEMMA InFlightIsCall ==
    ASSUME MemoryTypeOK
    PROVE  InFlight \subseteq Call /\ \A c \in InFlight : call[c] \in CallRecord
BY NoCallIsNone DEF InFlight, MemoryTypeOK

(* A removal keeps the types of the tables. *)
LEMMA RemoveTypes ==
    ASSUME MemoryTypeOK, NEW K, NEW why \in {"expired", "deleted", "evicted"}, Remove(K, why)
    PROVE  /\ row' \in [Key -> 0..MaxCalls]
           /\ versions' \in [Key -> Seq(Call)]
           /\ gone' \in SUBSET Call
           /\ removed' \in [Key -> {"never", "expired", "deleted", "evicted"}]
BY MemoryAssumption DEF MemoryTypeOK, Remove

(* Going to the back of the order keeps its type. *)
LEMMA ToBackTypes ==
    ASSUME MemoryTypeOK, NEW c, ToBack(c)
    PROVE  ahead' \in [Call -> SUBSET Call]
BY InFlightIsCall DEF MemoryTypeOK, ToBack

(* The routes are those that write. *)
LEMMA RoutesWrite == Route \subseteq Write
BY MemoryAssumption DEF Write

(* The oldest node is updated, or the first one made. *)
LEMMA SyncedNodes ==
    ASSUME MemoryTypeOK, NEW c \in Call, call[c].key \in Key
    PROVE  /\ Synced(c) \in Seq(0..MaxCalls)
           /\ Synced(c) # <<>> /\ Synced(c)[1] = c
           /\ \A n \in DOMAIN Synced(c) : n # 1 =>
                n \in DOMAIN mirror[call[c].key] /\ Synced(c)[n] = mirror[call[c].key][n]
<1> DEFINE nodes == mirror[call[c].key]
<1>1. nodes \in Seq(0..MaxCalls) /\ c \in 0..MaxCalls
    BY MemoryAssumption DEF MemoryTypeOK, Call
<1>2. Synced(c) = IF nodes = <<>> THEN <<c>> ELSE [nodes EXCEPT ![1] = c]
    BY DEF Synced
<1> HIDE DEF nodes
<1>3. CASE nodes = <<>>
    BY <1>1, <1>2, <1>3
<1>4. CASE nodes # <<>>
    <2>1. Len(nodes) \in Nat /\ 1 \in DOMAIN nodes /\ DOMAIN nodes = 1..Len(nodes)
        BY <1>1, <1>4
    <2>2. [nodes EXCEPT ![1] = c] \in Seq(0..MaxCalls)
        BY <1>1, <2>1
    <2>3. /\ Synced(c)[1] = c /\ DOMAIN Synced(c) = DOMAIN nodes
          /\ \A n \in DOMAIN nodes : n # 1 => Synced(c)[n] = nodes[n]
        BY <1>2, <1>4, <2>1
    <2>4. Synced(c) # <<>>
        BY <2>1, <2>3
    <2> QED
        BY <1>2, <1>4, <2>2, <2>3, <2>4 DEF nodes
<1> QED
    BY <1>3, <1>4 DEF nodes

(* The oldest node is removed. *)
LEMMA UnmirroredNodes ==
    ASSUME MemoryTypeOK, NEW c \in Call, call[c].key \in Key
    PROVE  /\ Unmirrored(c) \in Seq(0..MaxCalls)
           /\ \A n \in DOMAIN Unmirrored(c) :
                /\ n + 1 # 1 /\ n + 1 \in DOMAIN mirror[call[c].key]
                /\ Unmirrored(c)[n] = mirror[call[c].key][n + 1]
<1> DEFINE nodes == mirror[call[c].key]
<1>1. nodes \in Seq(0..MaxCalls)
    BY DEF MemoryTypeOK
<1>2. Unmirrored(c) = IF nodes = <<>> THEN <<>> ELSE Tail(nodes)
    BY DEF Unmirrored
<1> HIDE DEF nodes
<1>3. CASE nodes = <<>>
    BY <1>2, <1>3
<1>4. CASE nodes # <<>>
    <2>1. /\ Tail(nodes) \in Seq(0..MaxCalls) /\ Len(Tail(nodes)) = Len(nodes) - 1
          /\ \A n \in 1..Len(Tail(nodes)) : Tail(nodes)[n] = nodes[n + 1]
        BY <1>1, <1>4, HeadTailProperties
    <2>2. Len(nodes) \in Nat /\ DOMAIN nodes = 1..Len(nodes)
          /\ DOMAIN Tail(nodes) = 1..(Len(nodes) - 1)
        BY <1>1, <2>1
    <2>3. \A n \in 1..(Len(nodes) - 1) : n + 1 # 1 /\ n + 1 \in 1..Len(nodes)
        BY <2>2
    <2> QED
        BY <1>2, <1>4, <2>1, <2>2, <2>3 DEF nodes
<1> QED
    BY <1>3, <1>4 DEF nodes

(* A part of a sequence is a sequence. *)
LEMMA PartOf ==
    ASSUME NEW S, NEW s \in Seq(S), NEW a \in 1..(Len(s) + 1), NEW b \in (a - 1)..Len(s)
    PROVE  /\ SubSeq(s, a, b) \in Seq(S)
           /\ Len(SubSeq(s, a, b)) = b - a + 1
           /\ \A m \in 1..(b - a + 1) : SubSeq(s, a, b)[m] = s[a + m - 1]
<1>1. Len(s) \in Nat /\ a \in Int /\ b \in Int /\ \A m \in a..b : s[m] \in S
    OBVIOUS
<1>2. /\ SubSeq(s, a, b) \in Seq(S)
      /\ Len(SubSeq(s, a, b)) = (IF a <= b THEN b - a + 1 ELSE 0)
      /\ \A m \in 1..(b - a + 1) : SubSeq(s, a, b)[m] = s[a + m - 1]
    BY <1>1, SubSeqProperties
<1> QED
    BY <1>1, <1>2

(* A node of a client, or anyone's, is removed: the others close up. *)
LEMMA OthersCloseUp ==
    ASSUME NEW nodes \in Seq(0..MaxCalls), NEW n \in DOMAIN nodes
    PROVE  /\ Seqs!RemoveAt(nodes, n) \in Seq(0..MaxCalls)
           /\ DOMAIN Seqs!RemoveAt(nodes, n) = 1..(Len(nodes) - 1)
           /\ \A m \in 1..(Len(nodes) - 1) :
                Seqs!RemoveAt(nodes, n)[m] = IF m < n THEN nodes[m] ELSE nodes[m + 1]
<1> DEFINE front == SubSeq(nodes, 1, n - 1)
           rest  == SubSeq(nodes, n + 1, Len(nodes))
<1>1. n \in 1..Len(nodes) /\ Len(nodes) \in Nat
    OBVIOUS
<1>2. /\ front \in Seq(0..MaxCalls) /\ Len(front) = n - 1
      /\ \A m \in 1..(n - 1) : front[m] = nodes[m]
    <2>1. 1 \in 1..(Len(nodes) + 1) /\ n - 1 \in (1 - 1)..Len(nodes)
        BY <1>1
    <2>2. /\ front \in Seq(0..MaxCalls) /\ Len(front) = (n - 1) - 1 + 1
          /\ \A m \in 1..((n - 1) - 1 + 1) : front[m] = nodes[1 + m - 1]
        BY <2>1, PartOf
    <2> HIDE DEF front
    <2>3. (n - 1) - 1 + 1 = n - 1 /\ \A m \in 1..(n - 1) : 1 + m - 1 = m
        BY <1>1
    <2> QED
        BY <2>2, <2>3
<1>3. /\ rest \in Seq(0..MaxCalls) /\ Len(rest) = Len(nodes) - n
      /\ \A m \in 1..(Len(nodes) - n) : rest[m] = nodes[n + m]
    <2>1. n + 1 \in 1..(Len(nodes) + 1) /\ Len(nodes) \in ((n + 1) - 1)..Len(nodes)
        BY <1>1
    <2>2. /\ rest \in Seq(0..MaxCalls) /\ Len(rest) = Len(nodes) - (n + 1) + 1
          /\ \A m \in 1..(Len(nodes) - (n + 1) + 1) : rest[m] = nodes[(n + 1) + m - 1]
        BY <2>1, PartOf
    <2> HIDE DEF rest
    <2>3. /\ Len(nodes) - (n + 1) + 1 = Len(nodes) - n
          /\ \A m \in 1..(Len(nodes) - n) : (n + 1) + m - 1 = n + m
        BY <1>1
    <2> QED
        BY <2>2, <2>3
<1>4. Seqs!RemoveAt(nodes, n) = front \o rest
    BY DEF Seqs!RemoveAt
<1> HIDE DEF front, rest
<1>5. /\ front \o rest \in Seq(0..MaxCalls)
      /\ Len(front \o rest) = Len(front) + Len(rest)
      /\ \A m \in 1..(Len(front) + Len(rest)) :
           (front \o rest)[m] = IF m <= Len(front) THEN front[m] ELSE rest[m - Len(front)]
    <2>1. front \in Seq(0..MaxCalls) /\ rest \in Seq(0..MaxCalls)
        BY <1>2, <1>3
    <2> QED
        BY <2>1, ConcatProperties
<1>6. \A m \in 1..(Len(nodes) - 1) : (front \o rest)[m] = IF m < n THEN nodes[m] ELSE nodes[m + 1]
    <2> SUFFICES ASSUME NEW m \in 1..(Len(nodes) - 1)
                 PROVE  (front \o rest)[m] = IF m < n THEN nodes[m] ELSE nodes[m + 1]
        OBVIOUS
    <2>1. (front \o rest)[m] = IF m <= n - 1 THEN front[m] ELSE rest[m - (n - 1)]
        <3>1. Len(front) = n - 1 /\ m \in 1..(Len(front) + Len(rest))
            BY <1>1, <1>2, <1>3
        <3> DEFINE both == front \o rest
        <3>2. both[m] = IF m <= Len(front) THEN front[m] ELSE rest[m - Len(front)]
            BY <1>5, <3>1
        <3> HIDE DEF both
        <3>3. both[m] = IF m <= n - 1 THEN front[m] ELSE rest[m - (n - 1)]
            BY <3>1, <3>2
        <3> QED
            BY <3>3 DEF both
    <2>2. CASE m < n
        BY <1>1, <1>2, <2>1, <2>2
    <2>3. CASE ~(m < n)
        <3>1. m - (n - 1) \in 1..(Len(nodes) - n) /\ n + (m - (n - 1)) = m + 1
            BY <1>1, <2>3
        <3>2. rest[m - (n - 1)] = nodes[m + 1]
            BY <1>3, <3>1
        <3> QED
            BY <1>1, <2>1, <2>3, <3>2
    <2> QED
        BY <2>2, <2>3
<1>7. DOMAIN (front \o rest) = 1..(Len(nodes) - 1)
    BY <1>1, <1>2, <1>3, <1>5
<1> QED
    BY <1>4, <1>5, <1>6, <1>7

(* A removal of rows, or of none, is all that happens to the table. *)
LEMMA RemoveRemoves ==
    ASSUME NEW K \in SUBSET Key, NEW why, Remove(K, why)
    PROVE  OnlyRemoves
BY DEF Remove, OnlyRemoves

(* A step that leaves the table alone removes nothing. *)
LEMMA UnchangedRemoves ==
    ASSUME MemoryTypeOK, UNCHANGED <<row, versions, gone>>
    PROVE  OnlyRemoves
<1>1. row' = [k \in Key |-> IF k \in {} THEN 0 ELSE row[k]]
    BY DEF MemoryTypeOK
<1>2. gone' = gone \cup {c \in Call : \E k \in {} : row[k] = c}
    OBVIOUS
<1>3. {} \in SUBSET Key
    OBVIOUS
<1> QED
    BY <1>1, <1>2, <1>3, Zenon DEF OnlyRemoves

(* A call moves on in its record and keeps its key and commit. *)
LEMMA MovedCall ==
    ASSUME MemoryTypeOK, ReadersHaveNotCommitted, NEW c \in Call, NEW r \in CallRecord,
           call' = [call EXCEPT ![c] = r],
           call[c] # NoCall => /\ r.key = call[c].key /\ r.commit = call[c].commit
                               /\ r.ttl = call[c].ttl,
           call[c] = NoCall => r.commit = 0,
           r.stage = "read" => r.commit = 0
    PROVE  call' \in [Call -> {NoCall} \cup CallRecord] /\ CallsKept
<1>1. call' \in [Call -> {NoCall} \cup CallRecord]
    BY DEF MemoryTypeOK
<1>2. call'[c] = r /\ r # NoCall /\ \A b \in Call : b # c => call'[b] = call[b]
    BY NoCallIsNone DEF MemoryTypeOK
<1> QED
    BY <1>1, <1>2 DEF CallsKept, ReadersHaveNotCommitted

(* A read keeps the types and records its answer in the call. *)
LEMMA GetMemoryTypes ==
    ASSUME MemoryTypeOK, ReadersHaveNotCommitted,
           NEW c \in Call, NEW read \in CallRecord, GetMemory(c, read),
           call[c] # NoCall => /\ read.key = call[c].key /\ read.commit = call[c].commit
                               /\ read.ttl = call[c].ttl,
           call[c] = NoCall => read.commit = 0,
           read.stage = "read" => read.commit = 0
    PROVE  /\ row' \in [Key -> 0..MaxCalls]
           /\ versions' \in [Key -> Seq(Call)]
           /\ gone' \in SUBSET Call
           /\ removed' \in [Key -> {"never", "expired", "deleted", "evicted"}]
           /\ call' \in [Call -> {NoCall} \cup CallRecord]
           /\ ahead' \in [Call -> SUBSET Call]
           /\ CallsKept
           /\ OnlyRemoves
<1> DEFINE k == read.key
           new == [read EXCEPT !.saw = Visible(k), !.expiring = Expired(k)]
<1>1. k \in Key /\ Visible(k) \in 0..MaxCalls /\ Expired(k) \in BOOLEAN
    <2>1. k \in Key
        BY DEF CallRecord
    <2> QED
        BY <2>1, MemoryAssumption DEF MemoryTypeOK, Visible, Expired
<1>2. new \in CallRecord /\ new.stage = read.stage /\ new.key = read.key
      /\ new.commit = read.commit /\ new.ttl = read.ttl
    BY <1>1 DEF CallRecord
<1>3. call' = [call EXCEPT ![c] = new] /\ ToBack(c)
    BY DEF GetMemory
<1> HIDE DEF new
<1>4. call' \in [Call -> {NoCall} \cup CallRecord] /\ CallsKept
    BY <1>2, <1>3, MovedCall
<1>5. CASE InProcess /\ Expired(k)
    <2>1. Remove({k}, "expired")
        BY <1>5 DEF GetMemory
    <2> QED
        BY <1>1, <2>1, <1>3, <1>4, RemoveTypes, RemoveRemoves, ToBackTypes
<1>6. CASE ~(InProcess /\ Expired(k))
    <2>1. UNCHANGED store
        BY <1>6 DEF GetMemory
    <2> QED
        BY <2>1, <1>3, <1>4, ToBackTypes, UnchangedRemoves DEF store, MemoryTypeOK
<1> QED
    BY <1>5, <1>6

-----------------------------------------------------------------------------
(* Steps that commit nothing keep the committed calls. *)
LEMMA KeptCommits ==
    ASSUME CallsKept
    PROVE  /\ Commits' = Commits
           /\ \A c \in Commits : call'[c].key = call[c].key /\ call'[c].commit = call[c].commit
BY DEF CallsKept, Commits

(* A step that only removes rows and commits nothing keeps the invariant: a  *)
(* committed value that loses its row is among those that are gone.         *)
LEMMA RemovalKeepsHistory ==
    ASSUME HistoryInv, MemoryTypeOK', CallsKept, OnlyRemoves
    PROVE  HistoryInv'
<1>1. PICK K \in SUBSET Key :
        /\ row' = [k \in Key |-> IF k \in K THEN 0 ELSE row[k]]
        /\ gone' = gone \cup {c \in Call : \E k \in K : row[k] = c}
        /\ versions' = versions
    BY DEF OnlyRemoves
<1>2. /\ Commits' = Commits
      /\ \A c \in Commits : call'[c].key = call[c].key /\ call'[c].commit = call[c].commit
    BY KeptCommits
<1>3. \A k \in Key : row'[k] # 0 => row'[k] = row[k]
    BY <1>1
<1>4. StoredIsCommitted'
    BY <1>1, <1>2, <1>3 DEF HistoryInv, StoredIsCommitted
<1>5. VersionsAreOlder'
    BY <1>1, <1>2, <1>3 DEF HistoryInv, StoredIsCommitted, VersionsAreOlder
<1>6. ReadersHaveNotCommitted'
    BY DEF CallsKept, ReadersHaveNotCommitted
<1>7. HistoryIsComplete'
    <2> SUFFICES ASSUME NEW c \in Commits
                 PROVE  \/ row'[call[c].key] = c
                        \/ \E n \in DOMAIN versions[call[c].key] : versions[call[c].key][n] = c
                        \/ c \in gone'
        BY <1>1, <1>2 DEF HistoryIsComplete
    <2>1. c \in Call /\ call[c].key \in Key
        BY DEF Commits, HistoryInv, MemoryTypeOK, CallRecord
    <2>2. CASE row[call[c].key] = c
        BY <1>1, <2>1, <2>2
    <2>3. CASE row[call[c].key] # c
        BY <1>1, <2>3 DEF HistoryInv, HistoryIsFaithful, HistoryIsComplete
    <2> QED
        BY <2>2, <2>3
<1>8. HistoryIsOrdered'
    BY <1>1, <1>2 DEF HistoryInv, StoredIsCommitted, HistoryIsFaithful, HistoryIsOrdered
<1> QED
    BY <1>4, <1>5, <1>6, <1>7, <1>8 DEF HistoryInv, HistoryIsFaithful

(* The next commit is later than all others. *)
LEMMA NextIsNewest ==
    ASSUME MemoryTypeOK, NEW n, NextCommit(n)
    PROVE  n \in 1..MaxCalls /\ \A c \in Commits : call[c].commit < n
<1> SUFFICES ASSUME NEW c \in Commits
             PROVE  call[c].commit < n
    BY DEF NextCommit
<1>1. call[c].commit \in 1..MaxCalls
    <2>1. call[c] \in CallRecord /\ call[c].commit # 0
        BY DEF Commits, MemoryTypeOK
    <2>2. call[c].commit \in 0..MaxCalls
        BY <2>1 DEF CallRecord
    <2> QED
        BY <2>1, <2>2, MemoryAssumption
<1>2. n \in 1..MaxCalls /\ (call[c].commit < n <=> \E d \in Commits : call[d].commit = call[c].commit)
    BY <1>1 DEF NextCommit
<1> QED
    BY <1>2

-----------------------------------------------------------------------------
(* The transaction: the row it finds goes to the end of the history, and it  *)
(* is the one row committed later than everything there.                    *)
LEMMA SetMemoryKeepsHistory ==
    ASSUME HistoryInv, NEW c \in Call, SetMemory(c)
    PROVE  HistoryInv'
<1> DEFINE k == call[c].key
           last == Len(versions[k]) + 1
<1> USE MemoryAssumption
<1>1. PICK n \in 1..MaxCalls :
        /\ NextCommit(n)
        /\ call' = [call EXCEPT ![c].stage = "set", ![c].expiring = FALSE,
                                ![c].duplicate = IsDuplicate(c), ![c].commit = n]
    BY DEF SetMemory
<1>2. /\ call[c] \in CallRecord /\ call[c] # NoCall
      /\ call[c].stage = "read" /\ call[c].commit = 0 /\ k \in Key
    <2>1. c \in InFlight /\ call[c].stage = "read"
        BY DEF SetMemory, HasAnswer, Resumes
    <2>2. call[c] \in CallRecord
        BY <2>1, InFlightIsCall DEF HistoryInv
    <2> QED
        BY <2>1, <2>2, NoCallIsNone DEF CallRecord, HistoryInv, ReadersHaveNotCommitted
<1>3. /\ row' = [row EXCEPT ![k] = c]
      /\ versions' = IF row[k] # 0 THEN [versions EXCEPT ![k] = Append(@, row[k])]
                                   ELSE versions
      /\ gone' = gone
    BY DEF SetMemory, KeepsVersion, Replaced
<1>4. /\ call' \in [Call -> {NoCall} \cup CallRecord]
      /\ call'[c] \in CallRecord /\ call'[c].key = k
      /\ call'[c].commit = n /\ call'[c].stage = "set"
      /\ \A d \in Call : d # c => call'[d] = call[d]
    <2> DEFINE new == [call[c] EXCEPT !.stage = "set", !.expiring = FALSE,
                                      !.duplicate = IsDuplicate(c), !.commit = n]
    <2>1. IsDuplicate(c) \in BOOLEAN /\ n \in 0..MaxCalls
        BY DEF IsDuplicate
    <2>2. /\ new \in CallRecord /\ new.key = k
          /\ new.commit = n /\ new.stage = "set"
        BY <1>2, <2>1 DEF CallRecord
    <2>3. call' = [call EXCEPT ![c] = new]
        BY <1>1 DEF HistoryInv, MemoryTypeOK
    <2> HIDE DEF new
    <2> QED
        BY <2>2, <2>3 DEF HistoryInv, MemoryTypeOK
<1>5. /\ Commits' = Commits \cup {c}
      /\ c \notin Commits
      /\ \A d \in Commits : call'[d].key = call[d].key /\ call'[d].commit = call[d].commit
    BY <1>2, <1>4, NoCallIsNone DEF Commits
<1>6. \A d \in Commits : call[d].commit < n
    BY <1>1, NextIsNewest DEF HistoryInv
<1>7. /\ versions[k] \in Seq(Call) /\ row[k] \in 0..MaxCalls
      /\ row[k] # 0 => row[k] \in Call
    BY <1>2 DEF HistoryInv, MemoryTypeOK, Call
<1>8. \A j \in Key : j # k => row'[j] = row[j] /\ versions'[j] = versions[j]
    BY <1>2, <1>3 DEF HistoryInv, MemoryTypeOK
<1>9. row'[k] = c
    BY <1>2, <1>3 DEF HistoryInv, MemoryTypeOK
<1>10. c \in 0..MaxCalls
    BY DEF Call
<1>11. CASE row[k] = 0
    <2>1. versions' = versions
        BY <1>3, <1>11
    <2>2. MemoryTypeOK'
        <3>1. row' \in [Key -> 0..MaxCalls]
            BY <1>3, <1>10 DEF HistoryInv, MemoryTypeOK
        <3>2. ahead' \in [Call -> SUBSET Call]
            BY ToBackTypes DEF HistoryInv, SetMemory
        <3> QED
            BY <1>4, <2>1, <3>1, <3>2 DEF SetMemory, HistoryInv, MemoryTypeOK
    <2>3. StoredIsCommitted'
        BY <1>5, <1>8, <1>9, <2>1 DEF HistoryInv, StoredIsCommitted
    <2>4. VersionsAreOlder'
        BY <1>4, <1>5, <1>6, <1>8, <1>9, <2>1 DEF HistoryInv, StoredIsCommitted, VersionsAreOlder
    <2>5. ReadersHaveNotCommitted'
        BY <1>4 DEF HistoryInv, ReadersHaveNotCommitted
    <2>6. HistoryIsComplete'
        BY <1>2, <1>3, <1>4, <1>5, <1>8, <1>9, <1>11, <2>1
        DEF HistoryInv, HistoryIsFaithful, HistoryIsComplete, Commits, MemoryTypeOK, Call, CallRecord
    <2>7. HistoryIsOrdered'
        BY <1>5, <2>1 DEF HistoryInv, StoredIsCommitted, HistoryIsFaithful, HistoryIsOrdered
    <2> QED
        BY <2>2, <2>3, <2>4, <2>5, <2>6, <2>7 DEF HistoryInv, HistoryIsFaithful
<1>12. CASE row[k] # 0
    <2>1. /\ versions'[k] = Append(versions[k], row[k])
          /\ versions' \in [Key -> Seq(Call)]
        BY <1>2, <1>3, <1>7, <1>12 DEF HistoryInv, MemoryTypeOK
    <2>2. /\ DOMAIN versions[k] = 1..(last - 1)
          /\ DOMAIN versions'[k] = 1..last
          /\ last \in Nat
          /\ versions'[k][last] = row[k]
          /\ \A m \in 1..(last - 1) : versions'[k][m] = versions[k][m]
        BY <1>7, <1>12, <2>1
    <2>3. /\ row[k] \in Commits
          /\ \A m \in 1..(last - 1) : /\ versions[k][m] \in Commits
                                      /\ call[versions[k][m]].commit < call[row[k]].commit
        BY <1>2, <1>12, <2>2 DEF HistoryInv, StoredIsCommitted, VersionsAreOlder
    <2> HIDE DEF k, last
    <2>4. MemoryTypeOK'
        <3>1. row' \in [Key -> 0..MaxCalls]
            BY <1>3, <1>10 DEF HistoryInv, MemoryTypeOK
        <3>2. ahead' \in [Call -> SUBSET Call]
            BY ToBackTypes DEF HistoryInv, SetMemory
        <3> QED
            BY <1>4, <2>1, <3>1, <3>2 DEF SetMemory, HistoryInv, MemoryTypeOK
    <2>5. \A m \in 1..last : versions'[k][m] \in Commits
        BY <2>2, <2>3
    <2>6. StoredIsCommitted'
        BY <1>5, <1>8, <1>9, <2>2, <2>5 DEF HistoryInv, StoredIsCommitted
    <2>7. VersionsAreOlder'
        BY <1>4, <1>5, <1>6, <1>8, <1>9, <2>2, <2>5 DEF HistoryInv, StoredIsCommitted, VersionsAreOlder
    <2>8. ReadersHaveNotCommitted'
        BY <1>4 DEF HistoryInv, ReadersHaveNotCommitted
    <2>9. HistoryIsComplete'
        <3> SUFFICES ASSUME NEW d \in Commits'
                     PROVE  \/ row'[call'[d].key] = d
                            \/ \E m \in DOMAIN versions'[call'[d].key] : versions'[call'[d].key][m] = d
                            \/ d \in gone'
            BY DEF HistoryIsComplete
        <3>1. CASE d = c
            BY <1>4, <1>9, <3>1 DEF k
        <3>2. CASE d # c
            <4>1. d \in Commits /\ call'[d].key = call[d].key /\ call[d].key \in Key
                BY <1>5, <3>2 DEF Commits, HistoryInv, MemoryTypeOK, CallRecord
            <4>2. \/ row[call[d].key] = d
                  \/ \E m \in DOMAIN versions[call[d].key] : versions[call[d].key][m] = d
                  \/ d \in gone
                BY <4>1 DEF HistoryInv, HistoryIsFaithful, HistoryIsComplete
            <4>3. CASE call[d].key # k
                BY <1>3, <1>8, <4>1, <4>2, <4>3
            <4>4. CASE call[d].key = k
                <5>1. \A m \in 1..(last - 1) : m \in 1..last
                    BY <2>2
                <5>2. last \in 1..last
                    BY <2>2, <1>7 DEF last
                <5> QED
                    BY <1>3, <2>2, <4>1, <4>2, <4>4, <5>1, <5>2
            <4> QED
                BY <4>3, <4>4
        <3> QED
            BY <3>1, <3>2
    <2>10. HistoryIsOrdered'
        <3> SUFFICES ASSUME NEW j \in Key, NEW m \in DOMAIN versions'[j],
                            NEW p \in DOMAIN versions'[j], m < p
                     PROVE  call'[versions'[j][m]].commit < call'[versions'[j][p]].commit
            BY DEF HistoryIsOrdered
        <3>1. CASE j # k
            BY <1>5, <1>8, <3>1 DEF HistoryInv, StoredIsCommitted, HistoryIsFaithful, HistoryIsOrdered
        <3>2. CASE j = k /\ p # last
            <4>1. m \in 1..(last - 1) /\ p \in 1..(last - 1)
                BY <2>2, <3>2
            <4> QED
                BY <1>5, <2>2, <2>3, <3>2, <4>1 DEF HistoryInv, HistoryIsFaithful, HistoryIsOrdered
        <3>3. CASE j = k /\ p = last
            <4>1. m \in 1..(last - 1)
                BY <2>2, <3>3
            <4> QED
                BY <1>5, <2>2, <2>3, <3>3, <4>1
        <3> QED
            BY <3>1, <3>2, <3>3
    <2> QED
        BY <2>4, <2>6, <2>7, <2>8, <2>9, <2>10 DEF HistoryInv, HistoryIsFaithful
<1> QED
    BY <1>11, <1>12

-----------------------------------------------------------------------------
(* Every other step: the tables lose rows at most, and no call commits. *)
Harmless == MemoryTypeOK' /\ CallsKept /\ OnlyRemoves

(* The calls are kept by a step that leaves them alone. *)
LEMMA CallsUnchanged ==
    ASSUME ReadersHaveNotCommitted, UNCHANGED call
    PROVE  CallsKept
BY DEF CallsKept, ReadersHaveNotCommitted

(* The first part of a write or a delete. *)
LEMMA StartIsHarmless ==
    ASSUME HistoryInv, NEW c \in Call, NEW read \in CallRecord,
           call[c] = NoCall, read.commit = 0, GetMemory(c, read),
           UNCHANGED <<past, doomed, mirror, cut, heard>>
    PROVE  Harmless
BY GetMemoryTypes DEF HistoryInv, MemoryTypeOK, Harmless

(* A write up to its first await. *)
LEMMA StartWriteIsHarmless ==
    ASSUME HistoryInv, NEW c \in Call, NEW op \in Write, NEW k \in Key, NEW v \in Value,
           NEW ttl \in BOOLEAN, StartWrite(c, op, k, v, ttl)
    PROVE  Harmless
<1> DEFINE read == [stage |-> "read", op |-> op, key |-> k, value |-> v,
                    ttl |-> ttl, saw |-> 0, expiring |-> FALSE,
                    duplicate |-> FALSE, commit |-> 0]
<1>1. read \in CallRecord /\ read.commit = 0
    BY MemoryAssumption DEF CallRecord
<1>2. GetMemory(c, read) /\ call[c] = NoCall /\ UNCHANGED <<past, doomed, mirror, cut, heard>>
    BY DEF StartWrite, MayStart
<1> HIDE DEF read
<1> QED
    BY <1>1, <1>2, StartIsHarmless

(* A delete up to its first await. *)
LEMMA StartDeleteIsHarmless ==
    ASSUME HistoryInv, NEW c \in Call, NEW k \in Key, StartDelete(c, k)
    PROVE  Harmless
<1> DEFINE read == [stage |-> "read", op |-> "delete", key |-> k, value |-> NoValue,
                    ttl |-> FALSE, saw |-> 0, expiring |-> FALSE,
                    duplicate |-> FALSE, commit |-> 0]
<1>1. read \in CallRecord /\ read.commit = 0
    BY MemoryAssumption DEF CallRecord
<1>2. GetMemory(c, read) /\ call[c] = NoCall /\ UNCHANGED <<past, doomed, mirror, cut, heard>>
    BY DEF StartDelete, MayStart
<1> HIDE DEF read
<1> QED
    BY <1>1, <1>2, StartIsHarmless

(* The read after the transaction. *)
LEMMA RereadIsHarmless ==
    ASSUME HistoryInv, NEW c \in Call, Reread(c)
    PROVE  Harmless
<1> DEFINE read == [call[c] EXCEPT !.stage = "reread"]
<1>1. call[c] \in CallRecord
    BY InFlightIsCall DEF Reread, Resumes, HistoryInv
<1>2. /\ read \in CallRecord /\ read.stage = "reread"
      /\ read.key = call[c].key /\ read.commit = call[c].commit
      /\ read.ttl = call[c].ttl
    BY <1>1 DEF CallRecord
<1>3. GetMemory(c, read) /\ UNCHANGED <<past, doomed, mirror, cut, heard>>
    BY DEF Reread
<1>4. call[c] # NoCall
    BY <1>1, NoCallIsNone
<1> HIDE DEF read
<1> QED
    BY <1>2, <1>3, <1>4, GetMemoryTypes DEF HistoryInv, MemoryTypeOK, Harmless

(* The DELETE of an expired row. *)
LEMMA DeleteExpiredIsHarmless ==
    ASSUME HistoryInv, NEW c \in Call, DeleteExpired(c)
    PROVE  Harmless
<1> DEFINE new == [call[c] EXCEPT !.expiring = FALSE]
<1>1. call[c] \in CallRecord /\ call[c] # NoCall
    BY InFlightIsCall, NoCallIsNone DEF DeleteExpired, HistoryInv
<1>2. /\ new \in CallRecord /\ new.stage = call[c].stage /\ call[c].key \in Key
      /\ new.key = call[c].key /\ new.commit = call[c].commit
      /\ new.ttl = call[c].ttl
    BY <1>1 DEF CallRecord
<1>3. call' = [call EXCEPT ![c] = new]
    BY DEF DeleteExpired, HistoryInv, MemoryTypeOK
<1> HIDE DEF new
<1>4. call' \in [Call -> {NoCall} \cup CallRecord] /\ CallsKept
    BY <1>1, <1>2, <1>3, MovedCall DEF HistoryInv, ReadersHaveNotCommitted
<1>5. Remove({call[c].key}, "expired") /\ UNCHANGED <<past, ahead, doomed, mirror, cut, heard>>
    BY DEF DeleteExpired
<1> QED
    BY <1>2, <1>4, <1>5, RemoveTypes, RemoveRemoves DEF HistoryInv, MemoryTypeOK, Harmless

(* A call that ends, without touching the table. *)
LEMMA EndIsHarmless ==
    ASSUME HistoryInv, NEW c \in InFlight,
           call' = [call EXCEPT ![c].stage = "done"], ToBack(c),
           UNCHANGED <<store, past, doomed>>,
           mirror' \in [Key -> Seq(0..MaxCalls)], cut' \in SUBSET Key,
           heard' \in [Key -> 0..MaxCalls]
    PROVE  Harmless
<1> DEFINE new == [call[c] EXCEPT !.stage = "done"]
<1>1. c \in Call /\ call[c] \in CallRecord /\ call[c] # NoCall
    BY InFlightIsCall, NoCallIsNone DEF HistoryInv
<1>2. /\ new \in CallRecord /\ new.stage = "done"
      /\ new.key = call[c].key /\ new.commit = call[c].commit
      /\ new.ttl = call[c].ttl
    BY <1>1 DEF CallRecord
<1>3. call' = [call EXCEPT ![c] = new]
    BY DEF HistoryInv, MemoryTypeOK
<1> HIDE DEF new
<1>4. call' \in [Call -> {NoCall} \cup CallRecord] /\ CallsKept
    BY <1>1, <1>2, <1>3, MovedCall DEF HistoryInv
<1>5. ahead' \in [Call -> SUBSET Call]
    BY ToBackTypes DEF HistoryInv
<1>6. OnlyRemoves
    BY UnchangedRemoves DEF HistoryInv, store
<1> QED
    BY <1>4, <1>5, <1>6 DEF HistoryInv, MemoryTypeOK, Harmless, store

(* The broadcast and the copy to the graph store. *)
LEMMA FinishWriteIsHarmless ==
    ASSUME HistoryInv, NEW c \in Call, FinishWrite(c)
    PROVE  Harmless
<1>1. c \in InFlight
    BY DEF FinishWrite, HasAnswer, Resumes
<1>2. call[c] \in CallRecord
    BY <1>1, InFlightIsCall DEF HistoryInv
<1>3. call[c].key \in Key /\ call[c].saw \in 0..MaxCalls
    BY <1>2 DEF CallRecord
<1>4. c \in 0..MaxCalls
    BY MemoryAssumption DEF Call
<1>5. /\ mirror' \in [Key -> Seq(0..MaxCalls)] /\ cut' \in SUBSET Key
      /\ heard' \in [Key -> 0..MaxCalls]
    BY <1>3, <1>4, SyncedNodes DEF FinishWrite, HistoryInv, MemoryTypeOK
<1>6. /\ call' = [call EXCEPT ![c].stage = "done"] /\ ToBack(c)
      /\ UNCHANGED <<store, past, doomed>>
    BY DEF FinishWrite
<1> QED
    BY <1>1, <1>5, <1>6, EndIsHarmless

(* The removal of the copy in the graph store. *)
LEMMA FinishDeleteIsHarmless ==
    ASSUME HistoryInv, NEW c \in Call, FinishDelete(c)
    PROVE  Harmless
<1>1. c \in InFlight
    BY DEF FinishDelete, Resumes
<1>2. /\ mirror' \in [Key -> Seq(0..MaxCalls)] /\ cut' \in SUBSET Key
      /\ heard' \in [Key -> 0..MaxCalls]
    <2>1. call[c] \in CallRecord
        BY <1>1, InFlightIsCall DEF HistoryInv
    <2>2. call[c].key \in Key /\ 0 \in 0..MaxCalls
        BY <2>1, MemoryAssumption DEF CallRecord
    <2> QED
        BY <2>2, UnmirroredNodes DEF FinishDelete, HistoryInv, MemoryTypeOK
<1>3. /\ call' = [call EXCEPT ![c].stage = "done"] /\ ToBack(c)
      /\ UNCHANGED <<store, past, doomed>>
    BY DEF FinishDelete
<1> QED
    BY <1>1, <1>2, <1>3, EndIsHarmless

(* A database call that is rejected. *)
LEMMA DbFailsIsHarmless ==
    ASSUME HistoryInv, NEW c \in Call, DbFails(c)
    PROVE  Harmless
<1>1. c \in InFlight
    BY DEF DbFails, Resumes
<1>2. /\ mirror' \in [Key -> Seq(0..MaxCalls)] /\ cut' \in SUBSET Key
      /\ heard' \in [Key -> 0..MaxCalls]
    BY DEF DbFails, HistoryInv, MemoryTypeOK
<1>3. /\ call' = [call EXCEPT ![c].stage = "done"] /\ ToBack(c)
      /\ UNCHANGED <<store, past, doomed>>
    BY DEF DbFails
<1> QED
    BY <1>1, <1>2, <1>3, EndIsHarmless

(* deleteMemory removes the row whatever it is by now. *)
LEMMA DeleteRowIsHarmless ==
    ASSUME HistoryInv, NEW c \in Call, DeleteRow(c)
    PROVE  Harmless
<1>1. call[c] \in CallRecord /\ call[c] # NoCall
    BY InFlightIsCall, NoCallIsNone DEF DeleteRow, HasAnswer, Resumes, HistoryInv
<1>2. PICK s \in {"deleted", "done"} :
        call' = [call EXCEPT ![c].stage = s, ![c].expiring = FALSE]
    BY DEF DeleteRow
<1> DEFINE new == [call[c] EXCEPT !.stage = s, !.expiring = FALSE]
<1>3. /\ new \in CallRecord /\ new.stage # "read" /\ call[c].key \in Key
      /\ new.key = call[c].key /\ new.commit = call[c].commit
      /\ new.ttl = call[c].ttl
    BY <1>1 DEF CallRecord
<1>4. call' = [call EXCEPT ![c] = new]
    BY <1>2 DEF HistoryInv, MemoryTypeOK
<1> HIDE DEF new
<1>5. call' \in [Call -> {NoCall} \cup CallRecord] /\ CallsKept
    BY <1>1, <1>3, <1>4, MovedCall DEF HistoryInv
<1>6. ahead' \in [Call -> SUBSET Call]
    BY ToBackTypes DEF HistoryInv, DeleteRow
<1>7. UNCHANGED <<past, doomed, mirror, cut, heard>>
    BY DEF DeleteRow
<1>8. CASE call[c].saw # 0
    <2>1. Remove({call[c].key}, "deleted")
        BY <1>8 DEF DeleteRow
    <2> QED
        BY <1>3, <1>5, <1>6, <1>7, <2>1, RemoveTypes, RemoveRemoves
        DEF HistoryInv, MemoryTypeOK, Harmless
<1>9. CASE call[c].saw = 0
    <2>1. UNCHANGED store
        BY <1>9 DEF DeleteRow
    <2> QED
        BY <1>5, <1>6, <1>7, <2>1, UnchangedRemoves DEF HistoryInv, MemoryTypeOK, Harmless, store
<1> QED
    BY <1>8, <1>9

(* What the passing of time, reads, sweeps and evictions do to the table. *)
LEMMA TableStepIsHarmless ==
    ASSUME HistoryInv,
           \/ \E k \in Key : Expire(k) \/ ReadExpired(k) \/ ReadDeletes(k) \/ Evict(k)
           \/ CleanupExpired
    PROVE  Harmless
<1>0. CallsKept
    <2>1. UNCHANGED call
        BY DEF Expire, ReadExpired, ReadDeletes, Evict, CleanupExpired
    <2> QED
        BY <2>1, CallsUnchanged DEF HistoryInv
<1>1. ASSUME NEW k \in Key, Expire(k)
      PROVE  Harmless
    <2>1. UNCHANGED <<row, versions, gone>>
        BY <1>1 DEF Expire, store
    <2>2. row[k] \in Call
        BY <1>1, MemoryAssumption DEF Expire, HistoryInv, MemoryTypeOK, Call
    <2> QED
        BY <1>0, <1>1, <2>1, <2>2, UnchangedRemoves
        DEF Expire, store, HistoryInv, MemoryTypeOK, Harmless
<1>2. ASSUME NEW k \in Key, ReadExpired(k)
      PROVE  Harmless
    BY <1>0, <1>2, UnchangedRemoves DEF ReadExpired, store, HistoryInv, MemoryTypeOK, Harmless
<1>3. ASSUME NEW k \in Key, ReadDeletes(k)
      PROVE  Harmless
    BY <1>0, <1>3, RemoveTypes, RemoveRemoves DEF ReadDeletes, HistoryInv, MemoryTypeOK, Harmless
<1>4. ASSUME NEW k \in Key, Evict(k)
      PROVE  Harmless
    BY <1>0, <1>4, RemoveTypes, RemoveRemoves DEF Evict, HistoryInv, MemoryTypeOK, Harmless
<1>5. CASE CleanupExpired
    <2> DEFINE K == {k \in Key : Expired(k)}
    <2>1. K \in SUBSET Key /\ Remove(K, "expired")
          /\ UNCHANGED <<past, call, ahead, doomed, mirror, cut, heard>>
        BY <1>5 DEF CleanupExpired
    <2> HIDE DEF K
    <2> QED
        BY <1>0, <2>1, RemoveTypes, RemoveRemoves DEF HistoryInv, MemoryTypeOK, Harmless
<1> QED
    BY <1>1, <1>2, <1>3, <1>4, <1>5

(* What clients do to the graph store. *)
GraphStep == \E k \in Key : AddNode(k) \/ \E n \in DOMAIN mirror[k] : RemoveNode(k, n)

(* The nodes of clients leave calls and tables alone. *)
LEMMA GraphStepIsHarmless ==
    ASSUME HistoryInv, GraphStep
    PROVE  Harmless
<1>1. UNCHANGED <<store, past, call, ahead, doomed, heard>>
    BY DEF GraphStep, AddNode, RemoveNode
<1>2. mirror' \in [Key -> Seq(0..MaxCalls)] /\ cut' \in SUBSET Key
    <2>1. ASSUME NEW k \in Key, AddNode(k)
          PROVE  mirror' \in [Key -> Seq(0..MaxCalls)] /\ cut' \in SUBSET Key
        <3>1. mirror[k] \in Seq(0..MaxCalls) /\ 0 \in 0..MaxCalls
            BY MemoryAssumption DEF HistoryInv, MemoryTypeOK
        <3>2. Append(mirror[k], 0) \in Seq(0..MaxCalls)
            BY <3>1
        <3> QED
            BY <2>1, <3>2 DEF AddNode, HistoryInv, MemoryTypeOK
    <2>2. ASSUME NEW k \in Key, NEW n \in DOMAIN mirror[k], RemoveNode(k, n)
          PROVE  mirror' \in [Key -> Seq(0..MaxCalls)] /\ cut' \in SUBSET Key
        <3>1. Seqs!RemoveAt(mirror[k], n) \in Seq(0..MaxCalls)
            BY OthersCloseUp DEF HistoryInv, MemoryTypeOK
        <3> QED
            BY <2>2, <3>1 DEF RemoveNode, HistoryInv, MemoryTypeOK
    <2> QED
        BY <2>1, <2>2 DEF GraphStep
<1>3. CallsKept
    BY <1>1, CallsUnchanged DEF HistoryInv
<1>4. OnlyRemoves
    BY <1>1, UnchangedRemoves DEF HistoryInv, store
<1> QED
    BY <1>1, <1>2, <1>3, <1>4 DEF HistoryInv, MemoryTypeOK, Harmless, store

-----------------------------------------------------------------------------
(* The tables, the records of the calls and the history variables always     *)
(* have their types, and the strengthened invariant always holds.           *)
THEOREM HistoryInvariant == Spec => []HistoryInv
<1>1. Init => HistoryInv
    <2> SUFFICES ASSUME Init
                 PROVE  HistoryInv
        OBVIOUS
    <2>1. MemoryTypeOK
        BY MemoryAssumption DEF Init, MemoryTypeOK
    <2>2. Commits = {}
        BY DEF Init, Commits
    <2>3. \A k \in Key : row[k] = 0 /\ versions[k] = <<>>
        BY DEF Init
    <2>4. \A k \in Key : DOMAIN versions[k] = {}
        <3> SUFFICES ASSUME NEW k \in Key
                     PROVE  DOMAIN versions[k] = {}
            OBVIOUS
        <3>1. versions[k] \in Seq(Call) /\ Len(versions[k]) = 0
            BY <2>1, <2>3 DEF MemoryTypeOK
        <3>2. DOMAIN versions[k] = 1..0
            BY <3>1
        <3> QED
            BY <3>2
    <2>5. ReadersHaveNotCommitted
        BY DEF Init, ReadersHaveNotCommitted
    <2> QED
        BY <2>1, <2>2, <2>3, <2>4, <2>5
        DEF HistoryInv, StoredIsCommitted, VersionsAreOlder, HistoryIsFaithful,
            HistoryIsComplete, HistoryIsOrdered
<1>2. HistoryInv /\ [Next]_vars => HistoryInv'
    <2> SUFFICES ASSUME HistoryInv, [Next]_vars
                 PROVE  HistoryInv'
        OBVIOUS
    <2>1. ASSUME NEW c \in Call, NEW k \in Key, NEW op \in Route, NEW v \in Value,
                 NEW ttl \in BOOLEAN, StartWrite(c, op, k, v, ttl)
          PROVE  HistoryInv'
        BY <2>1, RoutesWrite, StartWriteIsHarmless, RemovalKeepsHistory DEF Harmless
    <2>2. ASSUME NEW c \in Call, NEW k \in Key, StartDelete(c, k)
          PROVE  HistoryInv'
        BY <2>2, StartDeleteIsHarmless, RemovalKeepsHistory DEF Harmless
    <2>3. ASSUME NEW c \in Call, DeleteExpired(c)
          PROVE  HistoryInv'
        BY <2>3, DeleteExpiredIsHarmless, RemovalKeepsHistory DEF Harmless
    <2>4. ASSUME NEW c \in Call, SetMemory(c)
          PROVE  HistoryInv'
        BY <2>4, SetMemoryKeepsHistory
    <2>5. ASSUME NEW c \in Call, Reread(c)
          PROVE  HistoryInv'
        BY <2>5, RereadIsHarmless, RemovalKeepsHistory DEF Harmless
    <2>6. ASSUME NEW c \in Call, FinishWrite(c)
          PROVE  HistoryInv'
        BY <2>6, FinishWriteIsHarmless, RemovalKeepsHistory DEF Harmless
    <2>7. ASSUME NEW c \in Call, DeleteRow(c)
          PROVE  HistoryInv'
        BY <2>7, DeleteRowIsHarmless, RemovalKeepsHistory DEF Harmless
    <2>8. ASSUME NEW c \in Call, FinishDelete(c)
          PROVE  HistoryInv'
        BY <2>8, FinishDeleteIsHarmless, RemovalKeepsHistory DEF Harmless
    <2>9. ASSUME NEW c \in Call, DbFails(c)
          PROVE  HistoryInv'
        BY <2>9, DbFailsIsHarmless, RemovalKeepsHistory DEF Harmless
    <2>10. CASE \/ \E k \in Key : Expire(k) \/ ReadExpired(k) \/ ReadDeletes(k) \/ Evict(k)
                \/ CleanupExpired
        BY <2>10, TableStepIsHarmless, RemovalKeepsHistory DEF Harmless
    <2>11. CASE GraphStep
        BY <2>11, GraphStepIsHarmless, RemovalKeepsHistory DEF Harmless
    <2>12. CASE UNCHANGED vars
        BY <2>12 DEF vars, store, HistoryInv, MemoryTypeOK, StoredIsCommitted, VersionsAreOlder,
           ReadersHaveNotCommitted, HistoryIsFaithful, HistoryIsComplete, HistoryIsOrdered, Commits
    <2> QED
        BY <2>1, <2>2, <2>3, <2>4, <2>5, <2>6, <2>7, <2>8, <2>9, <2>10, <2>11, <2>12 DEF Next, GraphStep
<1> QED
    BY <1>1, <1>2, PTL DEF Spec

(* Type correctness of the memory pool. *)
THEOREM MemoryTyping == Spec => []MemoryTypeOK
<1>1. HistoryInv => MemoryTypeOK
    BY DEF HistoryInv
<1> QED
    BY <1>1, HistoryInvariant, PTL

(* No committed write is lost from the table and its history, and the        *)
(* history is in commit order: the transaction of setMemory does not rely   *)
(* on what its handler read before.                                         *)
THEOREM HistoryIsFaithfulHolds == Spec => []HistoryIsFaithful
<1>1. HistoryInv => HistoryIsFaithful
    BY DEF HistoryInv
<1> QED
    BY <1>1, HistoryInvariant, PTL

-----------------------------------------------------------------------------
(* What is past its expiry was stored with a TTL; in process no read stops   *)
(* between its SELECT and its DELETE.                                       *)
ExpiryInv ==
    /\ \A c \in past : c \in Call /\ call[c] # NoCall /\ call[c].ttl
    /\ InProcess => doomed = {}

(* Every step keeps the TTLs of the calls. *)
LEMMA TtlKept ==
    ASSUME HistoryInv, [Next]_vars
    PROVE  \A c \in Call : call[c] # NoCall => call'[c] # NoCall /\ call'[c].ttl = call[c].ttl
<1>1. ASSUME NEW c \in Call, SetMemory(c)
      PROVE  \A b \in Call : call[b] # NoCall => call'[b] # NoCall /\ call'[b].ttl = call[b].ttl
    <2>1. call[c] \in CallRecord /\ call \in [Call -> {NoCall} \cup CallRecord]
        BY <1>1, InFlightIsCall DEF SetMemory, HasAnswer, Resumes, HistoryInv, MemoryTypeOK
    <2>2. PICK n \in 1..MaxCalls :
            call' = [call EXCEPT ![c].stage = "set", ![c].expiring = FALSE,
                                 ![c].duplicate = IsDuplicate(c), ![c].commit = n]
        BY <1>1 DEF SetMemory
    <2>3. call'[c].ttl = call[c].ttl /\ call'[c].stage = "set"
        BY <2>1, <2>2 DEF CallRecord
    <2>4. call'[c] # NoCall
        BY <2>3 DEF NoCall
    <2>5. \A b \in Call \ {c} : call'[b] = call[b]
        BY <2>1, <2>2
    <2> QED
        BY <2>3, <2>4, <2>5
<1>2. CallsKept \/ UNCHANGED call \/ \E c \in Call : SetMemory(c)
    BY RoutesWrite, StartWriteIsHarmless, StartDeleteIsHarmless, DeleteExpiredIsHarmless, RereadIsHarmless,
       FinishWriteIsHarmless, DeleteRowIsHarmless, FinishDeleteIsHarmless, DbFailsIsHarmless,
       TableStepIsHarmless, GraphStepIsHarmless DEF Harmless, Next, GraphStep, vars
<1> QED
    BY <1>1, <1>2 DEF CallsKept

(* Only a stored value with a TTL expires, and in process no key is left to   *)
(* be deleted.                                                              *)
LEMMA ExpiryKept ==
    ASSUME HistoryInv, ExpiryInv, [Next]_vars
    PROVE  ExpiryInv'
<1>1. \A c \in past' : c \in past \/ \E k \in Key : row[k] = c /\ c \in Call /\ call[c].ttl
                                                   /\ call[c] # NoCall
    <2>1. CASE \E k \in Key : Expire(k)
        <3>1. PICK k \in Key : Expire(k)
            BY <2>1
        <3>2. row[k] \in Call
            BY <3>1, MemoryAssumption DEF Expire, HistoryInv, MemoryTypeOK, Call
        <3>3. row[k] \in Commits
            BY <3>1, <3>2 DEF Expire, HistoryInv, StoredIsCommitted
        <3> QED
            BY <3>1, <3>2, <3>3 DEF Expire, Commits
    <2>2. CASE ~\E k \in Key : Expire(k)
        <3>1. past' = past
            BY <2>2 DEF Next, vars, StartWrite, StartDelete, DeleteExpired, SetMemory, Reread,
               FinishWrite, DeleteRow, FinishDelete, DbFails, ReadExpired, ReadDeletes, Evict,
               CleanupExpired, AddNode, RemoveNode
        <3> QED
            BY <3>1
    <2> QED
        BY <2>1, <2>2
<1>2. \A c \in past' : c \in Call /\ call'[c] # NoCall /\ call'[c].ttl
    BY <1>1, TtlKept DEF ExpiryInv
<1>3. InProcess => doomed' = {}
    BY DEF ExpiryInv, Next, vars, StartWrite, StartDelete, DeleteExpired, SetMemory, Reread,
       FinishWrite, DeleteRow, FinishDelete, DbFails, Expire, ReadExpired, ReadDeletes, Evict,
       CleanupExpired, AddNode, RemoveNode
<1> QED
    BY <1>2, <1>3 DEF ExpiryInv

(* In process a row goes as expired only if it is. *)
LEMMA OnlyExpiredExpire ==
    ASSUME InProcess, HistoryInv, ExpiryInv, [Next]_vars,
           NEW k \in Key, row[k] # 0, ~call[row[k]].ttl, row'[k] = 0
    PROVE  removed'[k] # "expired"
<1>1. ~Expired(k)
    BY DEF ExpiryInv, Expired
<1>2. ASSUME NEW K, k \notin K, Remove(K, "expired")
      PROVE  FALSE
    BY <1>2 DEF Remove
<1>3. ASSUME NEW K, NEW why \in {"deleted", "evicted"}, Remove(K, why), K \in SUBSET Key
      PROVE  removed'[k] # "expired"
    <2>1. k \in K
        BY <1>3 DEF Remove
    <2> QED
        BY <1>3, <2>1 DEF Remove
<1>4. ASSUME UNCHANGED row
      PROVE  FALSE
    BY <1>4
<1>5. ASSUME NEW c \in Call, NEW read \in CallRecord, GetMemory(c, read)
      PROVE  FALSE
    BY <1>1, <1>2, <1>4, <1>5 DEF GetMemory, store
<1>6. ASSUME NEW c \in Call, SetMemory(c)
      PROVE  FALSE
    <2>1. row' = [row EXCEPT ![call[c].key] = c] /\ c # 0
        BY <1>6 DEF SetMemory, Call
    <2> QED
        BY <2>1 DEF HistoryInv, MemoryTypeOK
<1>7. CASE \E c \in Call, j \in Key, op \in Route, v \in Value, ttl \in BOOLEAN :
             StartWrite(c, op, j, v, ttl)
    <2>1. PICK c \in Call, j \in Key, op \in Route, v \in Value, ttl \in BOOLEAN :
            StartWrite(c, op, j, v, ttl)
        BY <1>7
    <2>2. [stage |-> "read", op |-> op, key |-> j, value |-> v, ttl |-> ttl, saw |-> 0,
           expiring |-> FALSE, duplicate |-> FALSE, commit |-> 0] \in CallRecord
        BY MemoryAssumption, RoutesWrite DEF CallRecord
    <2> QED
        BY <1>5, <2>1, <2>2 DEF StartWrite
<1>8. CASE \E c \in Call, j \in Key : StartDelete(c, j)
    <2>1. PICK c \in Call, j \in Key : StartDelete(c, j)
        BY <1>8
    <2>2. [stage |-> "read", op |-> "delete", key |-> j, value |-> NoValue, ttl |-> FALSE,
           saw |-> 0, expiring |-> FALSE, duplicate |-> FALSE, commit |-> 0] \in CallRecord
        BY MemoryAssumption DEF CallRecord
    <2> QED
        BY <1>5, <2>1, <2>2 DEF StartDelete
<1>9. CASE \E c \in Call : Reread(c)
    <2>1. PICK c \in Call : Reread(c)
        BY <1>9
    <2>2. call[c] \in CallRecord
        BY <2>1, InFlightIsCall DEF Reread, Resumes, HistoryInv
    <2>3. [call[c] EXCEPT !.stage = "reread"] \in CallRecord
        BY <2>2 DEF CallRecord
    <2> QED
        BY <1>5, <2>1, <2>3 DEF Reread
<1>10. CASE \E c \in Call : DeleteRow(c)
    <2>1. PICK c \in Call : DeleteRow(c)
        BY <1>10
    <2>2. UNCHANGED row \/ (Remove({call[c].key}, "deleted") /\ call[c].key \in Key)
        BY <2>1, InFlightIsCall DEF DeleteRow, HasAnswer, Resumes, HistoryInv, CallRecord, store
    <2> QED
        BY <1>3, <1>4, <2>2
<1>11. CASE \E j \in Key : Evict(j)
    BY <1>3, <1>11 DEF Evict
<1>12. CASE CleanupExpired
    BY <1>1, <1>2, <1>12 DEF CleanupExpired
<1>13. CASE \E j \in Key : Expire(j) \/ ReadExpired(j) \/ ReadDeletes(j)
    BY <1>4, <1>13 DEF Expire, ReadExpired, ReadDeletes, store, ExpiryInv
<1>14. CASE \E c \in Call : DeleteExpired(c) \/ FinishWrite(c) \/ FinishDelete(c) \/ DbFails(c)
    BY <1>4, <1>14 DEF DeleteExpired, FinishWrite, FinishDelete, DbFails, store
<1>15. CASE GraphStep
    BY <1>4, <1>15 DEF GraphStep, AddNode, RemoveNode, store
<1>16. CASE UNCHANGED vars
    BY <1>4, <1>16 DEF vars, store
<1> QED
    BY <1>6, <1>7, <1>8, <1>9, <1>10, <1>11, <1>12, <1>13, <1>14, <1>15, <1>16
    DEF Next, GraphStep

(* In process a value stored without a TTL never goes as expired, whatever   *)
(* value with a TTL the key had before it.                                  *)
THEOREM NoTtlNoExpiryHolds == ASSUME InProcess PROVE Spec => NoTtlNoExpiry
<1>1. Init => ExpiryInv
    BY DEF Init, ExpiryInv
<1>2. HistoryInv /\ HistoryInv' /\ ExpiryInv /\ [Next]_vars => ExpiryInv'
    BY ExpiryKept
<1>3. HistoryInv /\ ExpiryInv /\ [Next]_vars =>
        [\A k \in Key : row[k] # 0 /\ ~call[row[k]].ttl /\ row'[k] = 0
                           => removed'[k] # "expired"]_vars
    BY OnlyExpiredExpire
<1> QED
    BY <1>1, <1>2, <1>3, HistoryInvariant, PTL DEF Spec, NoTtlNoExpiry
-----------------------------------------------------------------------------
(* In process, while no database call is rejected: the calls of one batch of  *)
(* frames finish in the order of their commits, so that what is announced   *)
(* and copied last is the value that prevails.                              *)

(* The row of a key is a write of that key, and the last one committed.      *)
RowIsNewest ==
    \A k \in Key : row[k] # 0 =>
        /\ call[row[k]].key = k
        /\ \A c \in Commits : call[c].key = k /\ c # row[k]
                                 => call[c].commit < call[row[k]].commit

(* Only writes of agents overlap, and one that has committed has its row in  *)
(* the table, or a later one; a delete that removed the row left none.      *)
StagesInv ==
    /\ \A b, c \in InFlight : b # c => call[b].op = "ws" /\ call[c].op = "ws"
    /\ \A c \in InFlight :
        /\ c \notin past
        /\ c \in Commits <=> call[c].stage \in {"set", "reread"}
        /\ c \in Commits => ~call[c].expiring /\ row[call[c].key] # 0
        /\ call[c].stage = "reread" /\ row[call[c].key] = c => call[c].saw = c
        /\ call[c].stage = "deleted" => call[c].op = "delete" /\ row[call[c].key] = 0

(* Writes are read back and finish in the order of their commits.            *)
FinishInOrder ==
    \A b, c \in Commits : c \in InFlight /\ call[c].commit < call[b].commit =>
        /\ b \in InFlight
        /\ call[b].stage = "reread" => call[c].stage = "reread"
        /\ call[b].stage = call[c].stage => c \in ahead[b]

(* The oldest node of a key has the value v, or a client removed one.         *)
Serves(k, v) == k \in cut \/ (mirror[k] # <<>> /\ mirror[k][1] = v)

(* The write of a row, once done, is what was copied and announced last.     *)
SettledInv ==
    \A k \in Key : row[k] # 0 /\ call[row[k]].stage = "done" =>
        /\ Serves(k, row[k])
        /\ call[row[k]].op = "ws" => heard[k] = row[k]

(* Only the oldest node of a key is ever written to.                         *)
CopyIsOldest == \A k \in Key : \A n \in DOMAIN mirror[k] : n # 1 => mirror[k][n] = 0

(* No node of the key has what a write stored.                               *)
Unserved(k) == \A n \in DOMAIN mirror[k] : mirror[k][n] = 0

(* A deleted value is out of the graph store, or its delete is about to      *)
(* remove it.                                                               *)
UnmirroredInv ==
    \A k \in Key : row[k] = 0 /\ removed[k] = "deleted" =>
        \/ Unserved(k)
        \/ \E c \in InFlight : call[c].stage = "deleted" /\ call[c].key = k

OrderInv ==
    /\ RowIsNewest
    /\ StagesInv
    /\ FinishInOrder
    /\ SettledInv
    /\ CopyIsOldest
    /\ UnmirroredInv

(* A step of one call moves it among those in flight and committed.          *)
LEMMA OneCallMoves ==
    ASSUME MemoryTypeOK, NEW c \in Call, NEW r \in CallRecord, call' = [call EXCEPT ![c] = r]
    PROVE  /\ call'[c] = r
           /\ \A b \in Call : b # c => call'[b] = call[b]
           /\ InFlight' = IF r.stage = "done" THEN InFlight \ {c} ELSE InFlight \cup {c}
           /\ Commits' = IF r.commit # 0 THEN Commits \cup {c} ELSE Commits \ {c}
<1>1. call'[c] = r /\ \A b \in Call : b # c => call'[b] = call[b]
    BY DEF MemoryTypeOK
<1>2. r # NoCall /\ r.stage # "none"
    BY NoCallIsNone DEF CallRecord
<1>3. InFlight' = IF r.stage = "done" THEN InFlight \ {c} ELSE InFlight \cup {c}
    BY <1>1, <1>2 DEF InFlight
<1>4. Commits' = IF r.commit # 0 THEN Commits \cup {c} ELSE Commits \ {c}
    BY <1>1, <1>2 DEF Commits
<1> QED
    BY <1>1, <1>3, <1>4

(* In process a call that had its turn waits behind all others.              *)
LEMMA WaitsBehind ==
    ASSUME MemoryTypeOK, InProcess, NEW c \in Call, ToBack(c)
    PROVE  /\ \A b \in Call : b # c => ahead'[b] = ahead[b] \ {c}
           /\ call'[c].stage # "done" => ahead'[c] = InFlight \ {c}
BY DEF ToBack

(* A call resumes only when no committed one is ahead of it.                 *)
LEMMA CommittedGoFirst ==
    ASSUME InProcess, StagesInv, NEW c, Resumes(c)
    PROVE  \A b \in Commits : b \in InFlight => b \notin ahead[c]
BY DEF StagesInv, Resumes

(* While a committed write is in flight, so is the write of the row its key  *)
(* has by then, and that row has not expired.                               *)
LEMMA RowIsInFlight ==
    ASSUME HistoryInv, OrderInv, NEW c \in Commits, c \in InFlight
    PROVE  /\ row[call[c].key] \in InFlight \cap Commits
           /\ ~Expired(call[c].key)
<1>1. call[c].key \in Key /\ row[call[c].key] # 0
    BY DEF Commits, HistoryInv, MemoryTypeOK, CallRecord, OrderInv, StagesInv
<1>2. row[call[c].key] \in Commits
    BY <1>1 DEF HistoryInv, StoredIsCommitted
<1>3. row[call[c].key] \in InFlight
    BY <1>1, <1>2 DEF OrderInv, RowIsNewest, FinishInOrder
<1> QED
    BY <1>2, <1>3 DEF OrderInv, StagesInv, Expired

(* A step that commits nothing and stores nothing keeps the rows the newest. *)
LEMMA RemovalKeepsNewest ==
    ASSUME HistoryInv, RowIsNewest, CallsKept, OnlyRemoves
    PROVE  RowIsNewest'
<1>1. \A k \in Key : row'[k] # 0 => row'[k] = row[k]
    BY DEF OnlyRemoves
<1>2. \A k \in Key : row[k] # 0 => row[k] \in Commits
    BY DEF HistoryInv, StoredIsCommitted
<1> QED
    BY <1>1, <1>2, KeptCommits DEF RowIsNewest

(* ... and what is settled is left as it is if no call finishes.             *)
LEMMA RemovalKeepsSettled ==
    ASSUME HistoryInv, SettledInv, OnlyRemoves, UNCHANGED <<mirror, cut, heard>>,
           \A c \in Commits : /\ call'[c].op = call[c].op
                              /\ call'[c].stage = "done" => call[c].stage = "done"
    PROVE  SettledInv'
<1>1. \A k \in Key : row'[k] # 0 => row'[k] = row[k]
    BY DEF OnlyRemoves
<1>2. \A k \in Key : row[k] # 0 => row[k] \in Commits
    BY DEF HistoryInv, StoredIsCommitted
<1> QED
    BY <1>1, <1>2 DEF SettledInv, Serves

(* ... and a row that is not deleted by a call takes nothing from the deletes. *)
LEMMA RemovalKeepsUnmirrored ==
    ASSUME MemoryTypeOK, UnmirroredInv, UNCHANGED mirror,
           \/ UNCHANGED store
           \/ \E K \in SUBSET Key, why \in {"expired", "evicted"} : Remove(K, why),
           \A c \in InFlight : call[c].stage = "deleted" => c \in InFlight' /\ call'[c] = call[c]
    PROVE  UnmirroredInv'
<1> SUFFICES ASSUME NEW k \in Key, row'[k] = 0, removed'[k] = "deleted"
             PROVE  \/ Unserved(k)'
                    \/ \E c \in InFlight' : call'[c].stage = "deleted" /\ call'[c].key = k
    BY DEF UnmirroredInv
<1>1. row[k] = 0 /\ removed[k] = "deleted"
    <2>1. CASE UNCHANGED store
        BY <2>1 DEF store
    <2>2. ASSUME NEW K \in SUBSET Key, NEW why \in {"expired", "evicted"}, Remove(K, why)
          PROVE  row[k] = 0 /\ removed[k] = "deleted"
        BY <2>2 DEF Remove
    <2> QED
        BY <2>1, <2>2
<1> QED
    BY <1>1 DEF UnmirroredInv, Unserved

(* Where no node changes the copies are still the oldest.                    *)
LEMMA NoCopyMoves ==
    ASSUME CopyIsOldest, UNCHANGED mirror
    PROVE  CopyIsOldest'
BY DEF CopyIsOldest

(* A write or a delete begins; the expired row it may meet is removed.       *)
LEMMA StartKeepsOrder ==
    ASSUME InProcess, HistoryInv, ExpiryInv, OrderInv, Harmless,
           NEW c \in Call, NEW read \in CallRecord,
           read.stage = "read", read.commit = 0,
           MayStart(c, read.op), GetMemory(c, read), UNCHANGED <<past, mirror, cut, heard>>
    PROVE  OrderInv'
<1> DEFINE k == read.key
           new == [read EXCEPT !.saw = Visible(k), !.expiring = Expired(k)]
<1>1. k \in Key /\ Visible(k) \in 0..MaxCalls /\ Expired(k) \in BOOLEAN
    <2>1. k \in Key
        BY DEF CallRecord
    <2> QED
        BY <2>1, MemoryAssumption DEF HistoryInv, MemoryTypeOK, Visible, Expired
<1>2. /\ new \in CallRecord /\ new.stage = "read" /\ new.key = k
      /\ new.commit = 0 /\ new.op = read.op
    BY <1>1 DEF CallRecord
<1>3. call' = [call EXCEPT ![c] = new] /\ ToBack(c)
    BY DEF GetMemory
<1> HIDE DEF new
<1>4. call[c] = NoCall /\ c \notin Commits /\ c \notin InFlight
    BY NoCallIsNone DEF MayStart, Commits, InFlight
<1>5. /\ call'[c] = new /\ (\A b \in Call : b # c => call'[b] = call[b])
      /\ InFlight' = InFlight \cup {c} /\ Commits' = Commits
    <2>1. /\ call'[c] = new /\ (\A b \in Call : b # c => call'[b] = call[b])
          /\ InFlight' = IF new.stage = "done" THEN InFlight \ {c} ELSE InFlight \cup {c}
          /\ Commits' = IF new.commit # 0 THEN Commits \cup {c} ELSE Commits \ {c}
        BY <1>2, <1>3, OneCallMoves DEF HistoryInv
    <2> QED
        BY <1>2, <1>4, <2>1
<1>6. Commits \subseteq Call /\ InFlight \subseteq Call
    BY DEF Commits, InFlight
<1>7. \A b \in Call : b # c => ahead'[b] = ahead[b] \ {c}
    BY <1>3, WaitsBehind DEF HistoryInv
<1>8. UNCHANGED store \/ (Remove({k}, "expired") /\ Expired(k))
    BY DEF GetMemory
<1>9. /\ \A j \in Key : row'[j] = row[j] \/ (row'[j] = 0 /\ Expired(j))
    BY <1>8 DEF store, Remove
<1>10. RowIsNewest'
    BY RemovalKeepsNewest DEF Harmless, OrderInv
<1>11. StagesInv'
    <2>1. \A b, d \in InFlight' : b # d => call'[b].op = "ws" /\ call'[d].op = "ws"
        BY <1>2, <1>4, <1>5, <1>6 DEF MayStart, OrderInv, StagesInv
    <2>2. c \notin past /\ c \notin Commits' /\ call'[c].stage = "read"
        BY <1>2, <1>4, <1>5 DEF ExpiryInv
    <2>3. ASSUME NEW b \in InFlight
          PROVE  /\ b \notin past
                 /\ b \in Commits <=> call[b].stage \in {"set", "reread"}
                 /\ b \in Commits => ~call[b].expiring /\ row'[call[b].key] # 0
                 /\ call[b].stage = "reread" /\ row'[call[b].key] = b => call[b].saw = b
                 /\ call[b].stage = "deleted" => call[b].op = "delete" /\ row'[call[b].key] = 0
        <3>1. call[b].key \in Key /\ b # 0
            BY InFlightIsCall DEF HistoryInv, CallRecord, Call
        <3>2. b \in Commits => ~Expired(call[b].key)
            BY RowIsInFlight
        <3> QED
            BY <1>9, <3>1, <3>2 DEF OrderInv, StagesInv
    <2> QED
        BY <1>4, <1>5, <1>6, <2>1, <2>2, <2>3 DEF StagesInv
<1>12. FinishInOrder'
    BY <1>4, <1>5, <1>6, <1>7 DEF OrderInv, FinishInOrder
<1>13. SettledInv'
    BY <1>4, <1>5, <1>6, RemovalKeepsSettled DEF Harmless, OrderInv
<1>14. UnmirroredInv'
    <2>1. {k} \in SUBSET Key
        BY <1>1
    <2> QED
        BY <1>4, <1>5, <1>6, <1>8, <2>1, RemovalKeepsUnmirrored DEF HistoryInv, OrderInv
<1> QED
    BY <1>10, <1>11, <1>12, <1>13, <1>14, NoCopyMoves DEF OrderInv

(* The transaction makes its write the newest, behind all others committed.  *)
LEMMA SetMemoryKeepsOrder ==
    ASSUME InProcess, HistoryInv, OrderInv, NEW c \in Call, SetMemory(c)
    PROVE  OrderInv'
<1> DEFINE k == call[c].key
<1>1. PICK n \in 1..MaxCalls :
        /\ NextCommit(n)
        /\ call' = [call EXCEPT ![c].stage = "set", ![c].expiring = FALSE,
                                ![c].duplicate = IsDuplicate(c), ![c].commit = n]
    BY DEF SetMemory
<1>2. /\ c \in InFlight /\ call[c] \in CallRecord /\ call[c].stage = "read"
      /\ c \notin Commits /\ k \in Key /\ c # 0
    BY InFlightIsCall DEF SetMemory, HasAnswer, Resumes, HistoryInv, OrderInv, StagesInv,
       CallRecord, Call
<1> DEFINE new == [call[c] EXCEPT !.stage = "set", !.expiring = FALSE,
                                  !.duplicate = IsDuplicate(c), !.commit = n]
<1>3. /\ new \in CallRecord /\ new.stage = "set" /\ new.key = k /\ ~new.expiring
      /\ new.commit = n /\ n # 0 /\ new.op = call[c].op
    <2>1. IsDuplicate(c) \in BOOLEAN /\ n \in 0..MaxCalls /\ n # 0
        BY MemoryAssumption DEF IsDuplicate
    <2>2. new \in CallRecord
        BY <1>2, <2>1 DEF CallRecord
    <2> QED
        BY <1>2, <2>1, <2>2 DEF CallRecord
<1>4. call' = [call EXCEPT ![c] = new]
    BY <1>1 DEF HistoryInv, MemoryTypeOK
<1> HIDE DEF new
<1>5. /\ call'[c] = new /\ (\A b \in Call : b # c => call'[b] = call[b])
      /\ InFlight' = InFlight /\ Commits' = Commits \cup {c}
    <2>1. /\ call'[c] = new /\ (\A b \in Call : b # c => call'[b] = call[b])
          /\ InFlight' = IF new.stage = "done" THEN InFlight \ {c} ELSE InFlight \cup {c}
          /\ Commits' = IF new.commit # 0 THEN Commits \cup {c} ELSE Commits \ {c}
        BY <1>3, <1>4, OneCallMoves DEF HistoryInv
    <2> QED
        BY <1>2, <1>3, <2>1
<1>6. Commits \subseteq Call /\ InFlight \subseteq Call
    BY DEF Commits, InFlight
<1>7. /\ \A b \in Call : b # c => ahead'[b] = ahead[b] \ {c}
      /\ ahead'[c] = InFlight \ {c}
    BY <1>3, <1>5, WaitsBehind DEF HistoryInv, SetMemory
<1>8. \A b \in Commits : call[b].commit < n
    BY <1>1, NextIsNewest DEF HistoryInv
<1>9. row'[k] = c /\ \A j \in Key : j # k => row'[j] = row[j]
    BY <1>2 DEF SetMemory, HistoryInv, MemoryTypeOK
<1>10. UNCHANGED <<past, mirror, cut, heard, removed>>
    BY DEF SetMemory
<1>11. \A j \in Key : row[j] # 0 => row[j] \in Commits
    BY DEF HistoryInv, StoredIsCommitted
<1> HIDE DEF k
<1>12. RowIsNewest'
    BY <1>2, <1>3, <1>5, <1>6, <1>8, <1>9, <1>11 DEF OrderInv, RowIsNewest
<1>13. StagesInv'
    <2>1. \A b, d \in InFlight' : b # d => call'[b].op = "ws" /\ call'[d].op = "ws"
        BY <1>2, <1>3, <1>5, <1>6 DEF OrderInv, StagesInv
    <2>2. /\ c \notin past /\ c \in Commits' /\ call'[c].stage = "set"
          /\ ~call'[c].expiring /\ row'[call'[c].key] # 0
        BY <1>2, <1>3, <1>5, <1>9 DEF OrderInv, StagesInv
    <2>3. ASSUME NEW b \in InFlight, b # c
          PROVE  /\ b \notin past
                 /\ b \in Commits <=> call[b].stage \in {"set", "reread"}
                 /\ b \in Commits => ~call[b].expiring /\ row'[call[b].key] # 0
                 /\ call[b].stage = "reread" /\ row'[call[b].key] = b => call[b].saw = b
                 /\ call[b].stage # "deleted"
        <3>1. call[b].key \in Key
            BY InFlightIsCall DEF HistoryInv, CallRecord
        <3>2. call[b].op = "ws"
            BY <1>2, <2>3 DEF OrderInv, StagesInv
        <3> QED
            BY <1>2, <1>9, <2>3, <3>1, <3>2 DEF OrderInv, StagesInv
    <2> QED
        BY <1>5, <1>6, <1>10, <2>1, <2>2, <2>3 DEF StagesInv
<1>14. FinishInOrder'
    <2> SUFFICES ASSUME NEW b \in Commits', NEW d \in Commits', d \in InFlight,
                        call'[d].commit < call'[b].commit
                 PROVE  /\ b \in InFlight
                        /\ call'[b].stage = "reread" => call'[d].stage = "reread"
                        /\ call'[b].stage = call'[d].stage => d \in ahead'[b]
        BY <1>5 DEF FinishInOrder
    <2>1. CASE b = c
        <3>1. d # c
            <4>1. n \in Nat
                OBVIOUS
            <4> QED
                BY <1>3, <1>5, <2>1, <4>1
        <3> QED
            BY <1>2, <1>3, <1>5, <1>7, <2>1, <3>1
    <2>2. CASE b # c /\ d = c
        <3>1. call[b].commit < n /\ n < call[b].commit /\ call[b].commit \in Nat
            BY <1>3, <1>5, <1>6, <1>8, <2>2 DEF HistoryInv, MemoryTypeOK, CallRecord, Commits
        <3> QED
            BY <3>1
    <2>3. CASE b # c /\ d # c
        BY <1>5, <1>6, <1>7, <2>3 DEF OrderInv, FinishInOrder
    <2> QED
        BY <2>1, <2>2, <2>3
<1>15. SettledInv'
    BY <1>2, <1>3, <1>5, <1>6, <1>9, <1>10, <1>11 DEF OrderInv, SettledInv, Serves
<1>16. UnmirroredInv'
    BY <1>2, <1>5, <1>6, <1>9, <1>10 DEF OrderInv, UnmirroredInv, Unserved
<1> QED
    BY <1>10, <1>12, <1>13, <1>14, <1>15, <1>16, NoCopyMoves DEF OrderInv

(* The read back finds the row: the call's own or a later one.               *)
LEMMA RereadKeepsOrder ==
    ASSUME InProcess, HistoryInv, OrderInv, Harmless, NEW c \in Call, Reread(c)
    PROVE  OrderInv'
<1> DEFINE k == call[c].key
           new == [call[c] EXCEPT !.stage = "reread", !.saw = Visible(k), !.expiring = Expired(k)]
<1>1. /\ c \in InFlight /\ call[c] \in CallRecord /\ call[c].stage = "set"
      /\ c \in Commits /\ k \in Key
    BY InFlightIsCall DEF Reread, Resumes, HistoryInv, OrderInv, StagesInv, CallRecord
<1>2. Expired(k) = FALSE /\ Visible(k) = row[k] /\ row[k] \in 0..MaxCalls
    BY <1>1, RowIsInFlight DEF Visible, Expired, HistoryInv, MemoryTypeOK
<1>3. /\ new \in CallRecord /\ new.stage = "reread" /\ new.key = k /\ new.saw = row[k]
      /\ ~new.expiring /\ new.commit = call[c].commit /\ new.op = call[c].op
    BY <1>1, <1>2 DEF CallRecord
<1>4. call' = [call EXCEPT ![c] = new] /\ ToBack(c)
    BY <1>1 DEF Reread, GetMemory, CallRecord
<1> HIDE DEF new
<1>5. UNCHANGED <<store, past, mirror, cut, heard>>
    BY <1>1, <1>2 DEF Reread, GetMemory, CallRecord
<1>6. /\ call'[c] = new /\ (\A b \in Call : b # c => call'[b] = call[b])
      /\ InFlight' = InFlight /\ Commits' = Commits
    <2>1. call[c].commit # 0
        BY <1>1 DEF Commits
    <2>2. /\ call'[c] = new /\ (\A b \in Call : b # c => call'[b] = call[b])
          /\ InFlight' = IF new.stage = "done" THEN InFlight \ {c} ELSE InFlight \cup {c}
          /\ Commits' = IF new.commit # 0 THEN Commits \cup {c} ELSE Commits \ {c}
        BY <1>3, <1>4, OneCallMoves DEF HistoryInv
    <2> QED
        BY <1>1, <1>3, <2>1, <2>2
<1>7. Commits \subseteq Call /\ InFlight \subseteq Call
    BY DEF Commits, InFlight
<1>8. /\ \A b \in Call : b # c => ahead'[b] = ahead[b] \ {c}
      /\ ahead'[c] = InFlight \ {c}
    BY <1>3, <1>4, <1>6, WaitsBehind DEF HistoryInv
<1>9. RowIsNewest'
    BY RemovalKeepsNewest DEF Harmless, OrderInv
<1> HIDE DEF k
<1>10. StagesInv'
    BY <1>1, <1>3, <1>5, <1>6, <1>7 DEF OrderInv, StagesInv, store, k
<1>11. FinishInOrder'
    <2> SUFFICES ASSUME NEW b \in Commits, NEW d \in Commits, d \in InFlight,
                        call'[d].commit < call'[b].commit
                 PROVE  /\ b \in InFlight
                        /\ call'[b].stage = "reread" => call'[d].stage = "reread"
                        /\ call'[b].stage = call'[d].stage => d \in ahead'[b]
        BY <1>6 DEF FinishInOrder
    <2>1. call[d].commit < call[b].commit
        BY <1>3, <1>6, <1>7
    <2>2. /\ b \in InFlight
          /\ call[b].stage = "reread" => call[d].stage = "reread"
          /\ call[b].stage = call[d].stage => d \in ahead[b]
        BY <2>1 DEF OrderInv, FinishInOrder
    <2>3. b # d
        <3>1. call[b].commit \in Nat
            BY DEF Commits, HistoryInv, MemoryTypeOK, CallRecord
        <3> QED
            BY <2>1, <3>1
    <2>4. CASE b = c
        <3>1. d \notin ahead[c]
            BY CommittedGoFirst DEF OrderInv, Reread
        <3>2. call[d].stage = "reread"
            BY <1>1, <2>2, <2>4, <3>1 DEF OrderInv, StagesInv
        <3> QED
            BY <1>1, <1>6, <1>7, <1>8, <2>3, <2>4, <3>2
    <2>5. CASE d = c
        <3>1. call'[b] = call[b] /\ call'[c].stage = "reread"
            BY <1>3, <1>6, <1>7, <2>3, <2>5
        <3>2. call[b].stage # "reread"
            BY <1>1, <2>2, <2>5
        <3> QED
            BY <2>2, <2>5, <3>1, <3>2
    <2>6. CASE b # c /\ d # c
        BY <1>6, <1>7, <1>8, <2>2, <2>6
    <2> QED
        BY <2>4, <2>5, <2>6
<1>12. SettledInv'
    BY <1>3, <1>5, <1>6, <1>7, RemovalKeepsSettled DEF Harmless, OrderInv
<1>13. UnmirroredInv'
    BY <1>1, <1>5, <1>6, <1>7, RemovalKeepsUnmirrored DEF HistoryInv, OrderInv
<1> QED
    BY <1>5, <1>9, <1>10, <1>11, <1>12, <1>13, NoCopyMoves DEF OrderInv

(* The write that finishes is copied and announced last only if it prevails: *)
(* a later one of its key finishes after it.                                *)
LEMMA FinishWriteKeepsOrder ==
    ASSUME InProcess, HistoryInv, OrderInv, Harmless, NEW c \in Call, FinishWrite(c)
    PROVE  OrderInv'
<1> DEFINE k == call[c].key
           new == [call[c] EXCEPT !.stage = "done"]
<1>1. /\ c \in InFlight /\ call[c] \in CallRecord /\ call[c].stage = "reread"
      /\ c \in Commits /\ k \in Key /\ c # 0 /\ row[k] # 0
    BY InFlightIsCall DEF FinishWrite, HasAnswer, Resumes, HistoryInv, OrderInv, StagesInv,
       CallRecord, Call
<1>2. /\ new \in CallRecord /\ new.stage = "done" /\ new.key = k
      /\ new.commit = call[c].commit /\ new.op = call[c].op
    BY <1>1 DEF CallRecord
<1>3. call' = [call EXCEPT ![c] = new] /\ ToBack(c)
    BY DEF FinishWrite, HistoryInv, MemoryTypeOK
<1> HIDE DEF new
<1>4. /\ call'[c] = new /\ (\A b \in Call : b # c => call'[b] = call[b])
      /\ InFlight' = InFlight \ {c} /\ Commits' = Commits
    BY <1>1, <1>2, <1>3, OneCallMoves DEF HistoryInv, Commits
<1>5. Commits \subseteq Call /\ InFlight \subseteq Call
    BY DEF Commits, InFlight
<1>6. \A b \in Call : b # c => ahead'[b] = ahead[b] \ {c}
    BY <1>3, WaitsBehind DEF HistoryInv
<1>7. UNCHANGED <<row, past, removed>>
    BY DEF FinishWrite, store
<1>8. /\ mirror'[k] = Synced(c) /\ k \notin cut'
      /\ heard' = IF Announces(c) THEN [heard EXCEPT ![k] = call[c].saw] ELSE heard
      /\ \A j \in Key : j # k => /\ mirror'[j] = mirror[j] /\ heard'[j] = heard[j]
                               /\ (j \in cut => j \in cut')
    BY <1>1 DEF FinishWrite, HistoryInv, MemoryTypeOK
<1>9. RowIsNewest'
    BY RemovalKeepsNewest DEF Harmless, OrderInv
<1>10. StagesInv'
    BY <1>4, <1>5, <1>7 DEF OrderInv, StagesInv
<1>11. \A d \in Commits : d \in InFlight => ~(call[d].commit < call[c].commit)
    <2>1. \A d \in Commits : d \in InFlight => d \notin ahead[c]
        BY CommittedGoFirst DEF OrderInv, FinishWrite, HasAnswer
    <2> QED
        BY <1>1, <2>1 DEF OrderInv, FinishInOrder
<1>12. FinishInOrder'
    BY <1>2, <1>4, <1>5, <1>6, <1>11 DEF OrderInv, FinishInOrder
<1>13. SettledInv'
    <2> SUFFICES ASSUME NEW j \in Key, row[j] # 0, call'[row[j]].stage = "done"
                 PROVE  /\ Serves(j, row[j])'
                        /\ call'[row[j]].op = "ws" => heard'[j] = row[j]
        BY <1>7 DEF SettledInv
    <2>1. row[j] \in Commits /\ call[row[j]].key = j
        BY DEF HistoryInv, StoredIsCommitted, OrderInv, RowIsNewest
    <2>2. CASE row[j] = c
        <3>1. j = k /\ call[c].saw = c
            BY <1>1, <2>1, <2>2 DEF OrderInv, StagesInv
        <3>2. call[c].op = "ws" => heard'[k] = c
            BY <1>1, <1>8, <3>1 DEF Announces, HistoryInv, MemoryTypeOK
        <3>3. mirror'[j] # <<>> /\ mirror'[j][1] = row[j]
            BY <1>1, <1>8, <2>2, <3>1, SyncedNodes DEF HistoryInv
        <3>4. Serves(j, row[j])'
            BY <1>7, <3>3 DEF Serves
        <3> QED
            BY <1>2, <1>4, <2>2, <3>1, <3>2, <3>4
    <2>3. CASE row[j] # c
        <3>1. call'[row[j]] = call[row[j]]
            BY <1>4, <1>5, <2>1, <2>3
        <3>2. j # k
            <4>1. ASSUME j = k
                  PROVE  row[j] \in InFlight
                BY <1>1, <2>1, <2>3, <4>1 DEF OrderInv, RowIsNewest, FinishInOrder
            <4> QED
                BY <3>1, <4>1 DEF InFlight
        <3> QED
            BY <1>7, <1>8, <3>1, <3>2 DEF OrderInv, SettledInv, Serves
    <2> QED
        BY <2>2, <2>3
<1>14. UnmirroredInv'
    BY <1>1, <1>4, <1>5, <1>7, <1>8 DEF OrderInv, UnmirroredInv, Unserved
<1>15. CopyIsOldest'
    BY <1>1, <1>8, SyncedNodes DEF HistoryInv, OrderInv, CopyIsOldest
<1> QED
    BY <1>9, <1>10, <1>12, <1>13, <1>14, <1>15 DEF OrderInv

(* A delete runs alone.                                                      *)
LEMMA DeletesAlone ==
    ASSUME StagesInv, NEW c \in InFlight, call[c].op = "delete"
    PROVE  InFlight = {c}
BY DEF StagesInv

(* The row goes, and the delete that took it is about to remove the copy.    *)
LEMMA DeleteRowKeepsOrder ==
    ASSUME InProcess, HistoryInv, OrderInv, Harmless, NEW c \in Call, DeleteRow(c)
    PROVE  OrderInv'
<1> DEFINE k == call[c].key
           found == call[c].saw # 0
           stage == IF found /\ row[k] # 0 THEN "deleted" ELSE "done"
           new == [call[c] EXCEPT !.stage = stage, !.expiring = FALSE]
<1>1. /\ c \in InFlight /\ call[c] \in CallRecord /\ call[c].stage = "read"
      /\ c \notin Commits /\ k \in Key /\ call[c].op = "delete" /\ call[c].commit = 0
    BY InFlightIsCall DEF DeleteRow, HasAnswer, Resumes, HistoryInv, OrderInv, StagesInv,
       CallRecord, Commits, Call, ReadersHaveNotCommitted, NoCall
<1>2. InFlight = {c}
    BY <1>1, DeletesAlone DEF OrderInv
<1>3. /\ new \in CallRecord /\ new.stage = stage /\ new.key = k
      /\ new.commit = 0 /\ new.op = "delete"
    BY <1>1 DEF CallRecord
<1>4. call' = [call EXCEPT ![c] = new]
    BY DEF DeleteRow, HistoryInv, MemoryTypeOK
<1> HIDE DEF new
<1>5. /\ call'[c] = new /\ (\A b \in Call : b # c => call'[b] = call[b])
      /\ InFlight' = (IF stage = "done" THEN {} ELSE {c}) /\ Commits' = Commits
    <2>1. /\ call'[c] = new /\ (\A b \in Call : b # c => call'[b] = call[b])
          /\ InFlight' = IF new.stage = "done" THEN InFlight \ {c} ELSE InFlight \cup {c}
          /\ Commits' = IF new.commit # 0 THEN Commits \cup {c} ELSE Commits \ {c}
        BY <1>3, <1>4, OneCallMoves DEF HistoryInv
    <2> QED
        BY <1>1, <1>2, <1>3, <2>1
<1>6. Commits \subseteq Call
    BY DEF Commits
<1>7. UNCHANGED <<past, mirror, cut, heard>> /\ IF found THEN Remove({k}, "deleted") ELSE UNCHANGED store
    BY DEF DeleteRow
<1>8. /\ found => row'[k] = 0
      /\ \A j \in Key : j # k \/ stage = "done" => row'[j] = row[j] /\ removed'[j] = removed[j]
    BY <1>1, <1>7 DEF Remove, store, HistoryInv, MemoryTypeOK
<1> HIDE DEF k
<1>9. RowIsNewest'
    BY RemovalKeepsNewest DEF Harmless, OrderInv
<1>10. StagesInv'
    <2>1. c \notin past
        BY <1>1 DEF OrderInv, StagesInv
    <2> QED
        BY <1>1, <1>3, <1>5, <1>7, <1>8, <2>1 DEF StagesInv
<1>11. FinishInOrder'
    BY <1>1, <1>5 DEF FinishInOrder
<1>12. SettledInv'
    BY <1>1, <1>5, <1>6, <1>7, RemovalKeepsSettled DEF Harmless, OrderInv
<1>13. UnmirroredInv'
    <2>1. ASSUME NEW j \in Key, row[j] = 0, removed[j] = "deleted"
          PROVE  Unserved(j)
        BY <1>1, <1>2, <2>1 DEF OrderInv, UnmirroredInv
    <2> QED
        BY <1>3, <1>5, <1>7, <1>8, <2>1 DEF UnmirroredInv, Unserved
<1> QED
    BY <1>7, <1>9, <1>10, <1>11, <1>12, <1>13, NoCopyMoves DEF OrderInv

(* The copy goes too; nothing was stored meanwhile.                          *)
LEMMA FinishDeleteKeepsOrder ==
    ASSUME InProcess, HistoryInv, OrderInv, Harmless, NEW c \in Call, FinishDelete(c)
    PROVE  OrderInv'
<1> DEFINE k == call[c].key
           new == [call[c] EXCEPT !.stage = "done"]
<1>1. /\ c \in InFlight /\ call[c] \in CallRecord /\ call[c].stage = "deleted"
      /\ c \notin Commits /\ k \in Key /\ call[c].op = "delete" /\ row[k] = 0
    BY InFlightIsCall DEF FinishDelete, Resumes, HistoryInv, OrderInv, StagesInv, CallRecord
<1>2. InFlight = {c}
    BY <1>1, DeletesAlone DEF OrderInv
<1>3. new \in CallRecord /\ new.stage = "done" /\ new.commit = call[c].commit
    BY <1>1 DEF CallRecord
<1>4. call' = [call EXCEPT ![c] = new]
    BY DEF FinishDelete, HistoryInv, MemoryTypeOK
<1> HIDE DEF new
<1>5. /\ \A b \in Call : b # c => call'[b] = call[b]
      /\ InFlight' = {} /\ Commits' = Commits
    <2>1. call[c].commit = 0
        BY <1>1, NoCallIsNone DEF Commits
    <2>2. /\ call'[c] = new /\ (\A b \in Call : b # c => call'[b] = call[b])
          /\ InFlight' = IF new.stage = "done" THEN InFlight \ {c} ELSE InFlight \cup {c}
          /\ Commits' = IF new.commit # 0 THEN Commits \cup {c} ELSE Commits \ {c}
        BY <1>3, <1>4, OneCallMoves DEF HistoryInv
    <2> QED
        BY <1>1, <1>2, <1>3, <2>1, <2>2
<1>6. Commits \subseteq Call
    BY DEF Commits
<1>7. /\ UNCHANGED <<row, removed, heard, cut>>
      /\ mirror'[k] = Unmirrored(c) /\ \A j \in Key : j # k => mirror'[j] = mirror[j]
    BY <1>1 DEF FinishDelete, store, HistoryInv, MemoryTypeOK
<1>8. RowIsNewest'
    BY RemovalKeepsNewest DEF Harmless, OrderInv
<1>9. StagesInv' /\ FinishInOrder'
    BY <1>5 DEF StagesInv, FinishInOrder
<1>10. SettledInv'
    BY <1>1, <1>5, <1>6, <1>7 DEF OrderInv, SettledInv, Serves, HistoryInv, StoredIsCommitted
<1>11. \A n \in DOMAIN mirror'[k] : mirror'[k][n] = 0
    BY <1>1, <1>7, UnmirroredNodes DEF HistoryInv, OrderInv, CopyIsOldest
<1>12. UnmirroredInv'
    BY <1>1, <1>2, <1>5, <1>7, <1>11 DEF OrderInv, UnmirroredInv, Unserved
<1>13. CopyIsOldest'
    BY <1>7, <1>11 DEF OrderInv, CopyIsOldest
<1> QED
    BY <1>8, <1>9, <1>10, <1>12, <1>13 DEF OrderInv

(* Time, sweeps and evictions find no call in flight.                        *)
LEMMA TableStepKeepsOrder ==
    ASSUME InProcess, HistoryInv, ExpiryInv, OrderInv, Harmless,
           \/ \E k \in Key : Expire(k) \/ ReadExpired(k) \/ ReadDeletes(k) \/ Evict(k)
           \/ CleanupExpired
    PROVE  OrderInv'
<1>1. /\ InFlight = {}
      /\ UNCHANGED <<call, ahead, mirror, cut, heard>>
      /\ \/ UNCHANGED store
         \/ \E K \in SUBSET Key, why \in {"expired", "evicted"} : Remove(K, why)
    <2>1. ASSUME NEW k \in Key, Expire(k)
          PROVE  InFlight = {} /\ UNCHANGED <<call, ahead, mirror, cut, heard>> /\ UNCHANGED store
        BY <2>1 DEF Expire, Between
    <2>2. ASSUME NEW k \in Key, ReadExpired(k) \/ ReadDeletes(k)
          PROVE  FALSE
        BY <2>2 DEF ReadExpired, ReadDeletes, ExpiryInv
    <2>3. ASSUME NEW k \in Key, Evict(k)
          PROVE  /\ InFlight = {} /\ UNCHANGED <<call, ahead, mirror, cut, heard>>
                 /\ {k} \in SUBSET Key /\ Remove({k}, "evicted")
        BY <2>3 DEF Evict, Between
    <2>4. CASE CleanupExpired
        <3> DEFINE K == {k \in Key : Expired(k)}
        <3>1. /\ InFlight = {} /\ UNCHANGED <<call, ahead, mirror, cut, heard>>
              /\ K \in SUBSET Key /\ Remove(K, "expired")
            BY <2>4 DEF CleanupExpired, Between
        <3> HIDE DEF K
        <3> QED
            BY <3>1
    <2> QED
        BY <2>1, <2>2, <2>3, <2>4
<1>2. InFlight' = {} /\ Commits' = Commits
    BY <1>1 DEF InFlight, Commits
<1>3. RowIsNewest'
    BY RemovalKeepsNewest DEF Harmless, OrderInv
<1>4. StagesInv' /\ FinishInOrder'
    BY <1>2 DEF StagesInv, FinishInOrder
<1>5. SettledInv'
    BY <1>1, RemovalKeepsSettled DEF Harmless, OrderInv
<1>6. UnmirroredInv'
    BY <1>1, RemovalKeepsUnmirrored DEF HistoryInv, OrderInv
<1> QED
    BY <1>1, <1>3, <1>4, <1>5, <1>6, NoCopyMoves DEF OrderInv

(* Clients find no call in flight either.  What they add is not the oldest   *)
(* copy, and what is left when they remove a node was not copied, or is the *)
(* oldest still.                                                            *)
LEMMA GraphStepKeepsOrder ==
    ASSUME InProcess, HistoryInv, OrderInv, Harmless, GraphStep
    PROVE  OrderInv'
<1>1. PICK k \in Key : AddNode(k) \/ \E n \in DOMAIN mirror[k] : RemoveNode(k, n)
    BY DEF GraphStep
<1>2. InFlight = {} /\ UNCHANGED <<store, past, call, ahead, doomed, heard>>
    BY <1>1 DEF AddNode, RemoveNode, Between
<1>3. InFlight' = {} /\ Commits' = Commits
    BY <1>2 DEF InFlight, Commits
<1>4. \A j \in Key : j # k => mirror'[j] = mirror[j] /\ (j \in cut' <=> j \in cut)
    BY <1>1 DEF AddNode, RemoveNode, HistoryInv, MemoryTypeOK
<1>5. /\ \A n \in DOMAIN mirror'[k] : n # 1 => mirror'[k][n] = 0
      /\ Unserved(k) => Unserved(k)'
      /\ \A v : v # 0 /\ Serves(k, v) => Serves(k, v)'
    <2> DEFINE nodes == mirror[k]
    <2>1. nodes \in Seq(0..MaxCalls) /\ \A n \in DOMAIN nodes : n # 1 => nodes[n] = 0
        BY DEF HistoryInv, MemoryTypeOK, OrderInv, CopyIsOldest
    <2>2. CASE AddNode(k)
        <3>1. mirror'[k] = Append(nodes, 0) /\ cut' = cut
            BY <2>2 DEF AddNode, HistoryInv, MemoryTypeOK
        <3>2. /\ Len(nodes) \in Nat /\ DOMAIN Append(nodes, 0) = 1..(Len(nodes) + 1)
              /\ DOMAIN nodes = 1..Len(nodes)
              /\ \A n \in 1..Len(nodes) : Append(nodes, 0)[n] = nodes[n]
              /\ Append(nodes, 0)[Len(nodes) + 1] = 0
              /\ nodes # <<>> => 1 \in 1..Len(nodes)
              /\ Append(nodes, 0) # <<>>
            <4>1. 0 \in 0..MaxCalls
                BY MemoryAssumption
            <4>2. /\ Append(nodes, 0) \in Seq(0..MaxCalls) /\ Len(Append(nodes, 0)) = Len(nodes) + 1
                  /\ \A n \in 1..Len(nodes) : Append(nodes, 0)[n] = nodes[n]
                  /\ Append(nodes, 0)[Len(nodes) + 1] = 0
                BY <2>1, <4>1, AppendProperties
            <4> HIDE DEF nodes
            <4>3. Len(nodes) \in Nat /\ DOMAIN nodes = 1..Len(nodes)
                  /\ DOMAIN Append(nodes, 0) = 1..(Len(nodes) + 1)
                BY <2>1, <4>2
            <4>4. nodes # <<>> => 1 \in 1..Len(nodes)
                BY <2>1, <4>3
            <4>5. Append(nodes, 0) # <<>>
                BY <4>2, <4>3
            <4> QED
                BY <4>2, <4>3, <4>4, <4>5
        <3> HIDE DEF nodes
        <3>3. \A n \in 1..(Len(nodes) + 1) : n \in 1..Len(nodes) \/ n = Len(nodes) + 1
            BY <3>2
        <3> QED
            BY <2>1, <3>1, <3>2, <3>3 DEF Unserved, Serves, nodes
    <2>3. ASSUME NEW n \in DOMAIN nodes, RemoveNode(k, n)
          PROVE  /\ \A m \in DOMAIN mirror'[k] : m # 1 => mirror'[k][m] = 0
                 /\ Unserved(k) => Unserved(k)'
                 /\ \A v : v # 0 /\ Serves(k, v) => Serves(k, v)'
        <3> DEFINE left == Seqs!RemoveAt(nodes, n)
        <3>1. mirror'[k] = left /\ cut' = IF n = 1 THEN cut \cup {k} ELSE cut
            BY <2>3 DEF RemoveNode, HistoryInv, MemoryTypeOK
        <3>2. /\ left \in Seq(0..MaxCalls) /\ DOMAIN left = 1..(Len(nodes) - 1)
              /\ \A m \in 1..(Len(nodes) - 1) : left[m] = IF m < n THEN nodes[m] ELSE nodes[m + 1]
            BY <2>1, <2>3, OthersCloseUp
        <3>3. Len(nodes) \in Nat /\ DOMAIN nodes = 1..Len(nodes) /\ n \in 1..Len(nodes)
            BY <2>1, <2>3
        <3> HIDE DEF nodes, left
        <3>4. \A m \in 1..(Len(nodes) - 1) : /\ m \in 1..Len(nodes) /\ m + 1 \in 1..Len(nodes)
                                             /\ m + 1 # 1
            BY <3>3
        <3>5. \A m \in DOMAIN left : m # 1 => left[m] = 0
            BY <2>1, <3>2, <3>3, <3>4
        <3>6. Unserved(k) => Unserved(k)'
            BY <3>1, <3>2, <3>3, <3>4 DEF Unserved, nodes
        <3>7. ASSUME n # 1
              PROVE  left # <<>> /\ left[1] = nodes[1]
            <4>1. 1 \in 1..(Len(nodes) - 1) /\ 1 < n
                BY <3>3, <3>7
            <4> QED
                BY <3>2, <4>1
        <3>8. \A v : v # 0 /\ Serves(k, v) => Serves(k, v)'
            BY <1>1, <3>1, <3>7 DEF Serves, nodes
        <3> QED
            BY <3>1, <3>5, <3>6, <3>8
    <2> QED
        BY <1>1, <2>2, <2>3
<1>6. RowIsNewest'
    BY RemovalKeepsNewest DEF Harmless, OrderInv
<1>7. StagesInv' /\ FinishInOrder'
    BY <1>3 DEF StagesInv, FinishInOrder
<1>8. SettledInv'
    <2>1. \A j \in Key : \A v : v # 0 /\ Serves(j, v) => Serves(j, v)'
        BY <1>4, <1>5 DEF Serves
    <2> QED
        BY <1>2, <2>1 DEF store, OrderInv, SettledInv
<1>9. CopyIsOldest'
    BY <1>4, <1>5 DEF OrderInv, CopyIsOldest
<1>10. UnmirroredInv'
    <2>1. \A j \in Key : Unserved(j) => Unserved(j)'
        BY <1>4, <1>5 DEF Unserved
    <2> QED
        BY <1>2, <2>1 DEF store, OrderInv, UnmirroredInv
<1> QED
    BY <1>6, <1>7, <1>8, <1>9, <1>10 DEF OrderInv

(* No step in process disturbs the order: the two that could, a rejected     *)
(* call and the second statement of an expiry, do not occur.                *)
LEMMA OrderKept ==
    ASSUME InProcess, ~DbMayFail, HistoryInv, ExpiryInv, OrderInv, [Next]_vars
    PROVE  OrderInv'
<1>1. ASSUME NEW c \in Call, NEW k \in Key, NEW op \in Route, NEW v \in Value,
             NEW ttl \in BOOLEAN, StartWrite(c, op, k, v, ttl)
      PROVE  OrderInv'
    <2> DEFINE read == [stage |-> "read", op |-> op, key |-> k, value |-> v,
                        ttl |-> ttl, saw |-> 0, expiring |-> FALSE,
                        duplicate |-> FALSE, commit |-> 0]
    <2>1. read \in CallRecord /\ read.stage = "read" /\ read.commit = 0 /\ read.op = op
        BY MemoryAssumption, RoutesWrite DEF CallRecord
    <2>2. MayStart(c, op) /\ GetMemory(c, read) /\ UNCHANGED <<past, mirror, cut, heard>>
        BY <1>1 DEF StartWrite
    <2> HIDE DEF read
    <2> QED
        BY <1>1, <2>1, <2>2, RoutesWrite, StartWriteIsHarmless, StartKeepsOrder
<1>2. ASSUME NEW c \in Call, NEW k \in Key, StartDelete(c, k)
      PROVE  OrderInv'
    <2> DEFINE read == [stage |-> "read", op |-> "delete", key |-> k, value |-> NoValue,
                        ttl |-> FALSE, saw |-> 0, expiring |-> FALSE,
                        duplicate |-> FALSE, commit |-> 0]
    <2>1. read \in CallRecord /\ read.stage = "read" /\ read.commit = 0 /\ read.op = "delete"
        BY MemoryAssumption DEF CallRecord
    <2>2. MayStart(c, "delete") /\ GetMemory(c, read) /\ UNCHANGED <<past, mirror, cut, heard>>
        BY <1>2 DEF StartDelete
    <2> HIDE DEF read
    <2> QED
        BY <1>2, <2>1, <2>2, StartDeleteIsHarmless, StartKeepsOrder
<1>3. ASSUME NEW c \in Call, DeleteExpired(c) \/ DbFails(c)
      PROVE  FALSE
    BY <1>3 DEF DeleteExpired, DbFails
<1>4. ASSUME NEW c \in Call, SetMemory(c)
      PROVE  OrderInv'
    BY <1>4, SetMemoryKeepsOrder
<1>5. ASSUME NEW c \in Call, Reread(c)
      PROVE  OrderInv'
    BY <1>5, RereadIsHarmless, RereadKeepsOrder
<1>6. ASSUME NEW c \in Call, FinishWrite(c)
      PROVE  OrderInv'
    BY <1>6, FinishWriteIsHarmless, FinishWriteKeepsOrder
<1>7. ASSUME NEW c \in Call, DeleteRow(c)
      PROVE  OrderInv'
    BY <1>7, DeleteRowIsHarmless, DeleteRowKeepsOrder
<1>8. ASSUME NEW c \in Call, FinishDelete(c)
      PROVE  OrderInv'
    BY <1>8, FinishDeleteIsHarmless, FinishDeleteKeepsOrder
<1>9. CASE \/ \E k \in Key : Expire(k) \/ ReadExpired(k) \/ ReadDeletes(k) \/ Evict(k)
           \/ CleanupExpired
    BY <1>9, TableStepIsHarmless, TableStepKeepsOrder
<1>10. CASE GraphStep
    BY <1>10, GraphStepIsHarmless, GraphStepKeepsOrder
<1>11. CASE UNCHANGED vars
    BY <1>11 DEF vars, store, OrderInv, RowIsNewest, StagesInv, FinishInOrder, SettledInv,
       Serves, CopyIsOldest, UnmirroredInv, Unserved, InFlight, Commits
<1> QED
    BY <1>1, <1>2, <1>3, <1>4, <1>5, <1>6, <1>7, <1>8, <1>9, <1>10, <1>11
    DEF Next, GraphStep

(* In process, with a database that answers, the order of the calls holds.   *)
THEOREM OrderInvariant == ASSUME InProcess, ~DbMayFail PROVE Spec => []OrderInv
<1>1. Init => ExpiryInv
    BY DEF Init, ExpiryInv
<1>2. Init => OrderInv
    <2> SUFFICES ASSUME Init
                 PROVE  OrderInv
        OBVIOUS
    <2>1. InFlight = {} /\ Commits = {}
        BY DEF Init, InFlight, Commits, NoCall
    <2> QED
        BY <2>1 DEF Init, OrderInv, RowIsNewest, StagesInv, FinishInOrder, SettledInv,
           CopyIsOldest, UnmirroredInv
<1>3. HistoryInv /\ ExpiryInv /\ [Next]_vars => ExpiryInv'
    BY ExpiryKept
<1>4. HistoryInv /\ ExpiryInv /\ OrderInv /\ [Next]_vars => OrderInv'
    BY OrderKept
<1> QED
    BY <1>1, <1>2, <1>3, <1>4, HistoryInvariant, PTL DEF Spec

(* The write of the row of a key that has settled is done.                   *)
LEMMA QuietRowIsDone ==
    ASSUME HistoryInv, OrderInv, NEW k \in Key, Quiet(k), row[k] # 0
    PROVE  row[k] \in Call /\ call[row[k]] \in CallRecord /\ call[row[k]].stage = "done"
<1>1. row[k] \in Commits /\ call[row[k]].key = k
    BY DEF HistoryInv, StoredIsCommitted, OrderInv, RowIsNewest
<1>2. row[k] \in Call /\ call[row[k]] \in CallRecord
    BY <1>1 DEF Commits, HistoryInv, MemoryTypeOK
<1>3. call[row[k]].stage # "none"
    BY <1>2 DEF CallRecord
<1> QED
    BY <1>1, <1>2, <1>3 DEF Quiet, InFlight

(* Of overlapping writes of agents the one that prevails is announced last.  *)
THEOREM AnnouncedIsCurrentHolds ==
    ASSUME InProcess, ~DbMayFail PROVE Spec => []AnnouncedIsCurrent
<1>1. HistoryInv /\ OrderInv => AnnouncedIsCurrent
    BY QuietRowIsDone DEF OrderInv, SettledInv, AnnouncedIsCurrent, SameValue
<1> QED
    BY <1>1, HistoryInvariant, OrderInvariant, PTL

(* The graph store ends up with the value the table has.                     *)
THEOREM MirrorIsCurrentHolds ==
    ASSUME InProcess, ~DbMayFail PROVE Spec => []MirrorIsCurrent
<1>1. HistoryInv /\ OrderInv => MirrorIsCurrent
    BY QuietRowIsDone DEF OrderInv, SettledInv, Serves, MirrorIsCurrent, SameValue
<1> QED
    BY <1>1, HistoryInvariant, OrderInvariant, PTL

(* A deleted value is gone from the graph store as well.                     *)
THEOREM DeletedIsUnmirroredHolds ==
    ASSUME InProcess, ~DbMayFail PROVE Spec => []DeletedIsUnmirrored
<1>1. OrderInv => DeletedIsUnmirrored
    BY DEF OrderInv, UnmirroredInv, Unserved, DeletedIsUnmirrored, Quiet
<1> QED
    BY <1>1, OrderInvariant, PTL
=============================================================================
