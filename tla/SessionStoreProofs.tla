------------------------- MODULE SessionStoreProofs -------------------------
(***************************************************************************)
(* Proofs about SessionStore, for any sessions, agents and bounds: its     *)
(* types, what holds with SQLite, and that it implements SessionRecords.   *)
(***************************************************************************)
EXTENDS SessionStore, TLAPS

LEMMA ClampType == \A i \in Int : Clamp(i) \in Importance
BY DEF Clamp, Importance

LEMMA MergeType ==
  ASSUME NEW op \in Op, NEW r \in Record
  PROVE  Merge(op, r) \in Record /\ Merge(op, r) \in Records!Changed(r)
<1>0. r.importance \in Importance /\ r.count \in Int /\ r.flagged \in BOOLEAN
  BY DEF Record
<1>1. ASSUME NEW i \in Importance, NEW n \in PutCount \cup {r.count}, NEW b \in BOOLEAN
      PROVE  Records!Updated(r, i, n, b) \in Record /\ Records!Updated(r, i, n, b) \in Records!Changed(r)
  <2>1. n \in Int
    BY <1>0, <1>1, StoreAssumption
  <2>2. Records!Updated(r, i, n, b) \in Record
    <3> DEFINE q == [r EXCEPT !.importance = i]
    <3>1. q \in Record
      BY DEF Record
    <3>2. [q EXCEPT !.count = n] \in Record
      BY <2>1, <3>1 DEF Record
    <3> DEFINE p == [q EXCEPT !.count = n]
    <3> HIDE DEF p
    <3>3. [p EXCEPT !.flagged = b] \in Record
      BY <3>2 DEF p, Record
    <3> QED
      BY <3>3 DEF p, Records!Updated
  <2>3. i \in Records!Importance
    BY DEF Records!Importance, Importance
  <2>4. Records!Updated(r, i, n, b) \in Records!Changed(r)
    <3> DEFINE All == {Records!Updated(r, x, y, z) : x \in Records!Importance,
                                                      y \in PutCount \cup {r.count}, z \in BOOLEAN}
    <3>1. Records!Updated(r, i, n, b) \in All
      BY <1>1, <2>3
    <3> QED
      BY <3>1 DEF Records!Changed
  <2> QED
    BY <2>2, <2>4
<1>2. CASE op.kind = "get"
  BY <1>2 DEF Merge, Record, Records!Changed
<1>3. CASE op.kind = "update"
  <2> DEFINE i == IF op.importance = Absent THEN r.importance ELSE Clamp(op.importance)
             n == Given(op.count, r.count)
             b == Given(op.flagged, r.flagged)
  <2>1. /\ op.importance \in Score \cup {Absent} /\ op.count \in PutCount \cup {Absent}
        /\ op.flagged \in BOOLEAN \cup {Absent}
    BY <1>3 DEF Op
  <2>2. i \in Importance /\ n \in PutCount \cup {r.count} /\ b \in BOOLEAN
    BY <1>0, <2>1, ClampType, StoreAssumption DEF Given
  <2>3. Merge(op, r) = Records!Updated(r, i, n, b)
    BY <1>3 DEF Merge, Records!Updated
  <2> HIDE DEF i, n, b
  <2> QED
    BY <1>1, <2>2, <2>3
<1>4. CASE op.kind = "flag"
  <2>1. op.flagged \in BOOLEAN
    BY <1>4 DEF Op
  <2>2. Merge(op, r) = Records!Updated(r, r.importance, r.count, op.flagged)
    BY <1>4 DEF Merge, Record, Records!Updated
  <2> QED
    BY <1>0, <1>1, <2>1, <2>2
<1> QED
  BY <1>2, <1>3, <1>4 DEF Op

-----------------------------------------------------------------------------
(* What a request read is a record the session has had.                      *)
ReadsAreReal ==
  \A c \in Call : call[c].stage = "write" =>
    call[c].read # NoRecord /\ call[c].read \in past[call[c].session]

(* With SQLite at most one request, or one eviction run, is under way, and   *)
(* what it saw is what there is.                                            *)
OneAtATime ==
  storage = "sqlite" =>
    /\ \A b, c \in InFlight : b = c
    /\ InFlight = {} \/ chosen = {}
    /\ \A c \in Call : call[c].stage = "write" => call[c].read = row[call[c].session]
    /\ \A p, q \in chosen : p[1] = q[1] => p = q
    /\ \A s \in Session : row[s] # NoRecord => row[s].count = base[s] + reads[s]
    /\ EvictsWhatItSaw

RowsArePast == \A s \in Session : row[s] # NoRecord => row[s] \in past[s]

StoreInv == SessionTypeOK /\ RowsArePast /\ ReadsAreReal /\ OneAtATime

LEMMA RegisterKeeps ==
  ASSUME StoreInv, NEW s \in Session, NEW a \in Agent, NEW i \in Score,
         RegisterSession(s, a, i)
  PROVE  StoreInv'
<1> DEFINE r == [agent |-> a, importance |-> Clamp(i), count |-> 0, flagged |-> FALSE]
<1>1. r \in Record
  <2>1. Clamp(i) \in Importance
    BY ClampType, StoreAssumption
  <2> QED
    BY <2>1 DEF Record
<1>2. SessionTypeOK'
  <2>1. posts' \in 0..MaxPosts
    BY StoreAssumption DEF StoreInv, SessionTypeOK, RegisterSession
  <2>2. row' \in [Session -> Record \cup {NoRecord}] /\ past' \in [Session -> SUBSET Record]
    BY <1>1 DEF StoreInv, SessionTypeOK, RegisterSession, SetSession
  <2>3. base' \in [Session -> Int] /\ reads' \in [Session -> Nat]
    BY DEF StoreInv, SessionTypeOK, RegisterSession, CountFrom
  <2> QED
    BY <2>1, <2>2, <2>3 DEF StoreInv, SessionTypeOK, RegisterSession
<1>3. RowsArePast' /\ ReadsAreReal'
  <2>1. /\ row' = [row EXCEPT ![s] = r] /\ past' = [past EXCEPT ![s] = @ \cup {r}]
        /\ call' = call
    BY DEF RegisterSession, SetSession
  <2>2. \A t \in Session : past[t] \subseteq past'[t]
    BY <2>1 DEF StoreInv, SessionTypeOK
  <2>3. RowsArePast'
    BY <2>1, <2>2 DEF StoreInv, SessionTypeOK, RowsArePast
  <2>4. \A c \in Call : call[c].stage = "write" => call[c].session \in Session
    BY DEF StoreInv, SessionTypeOK, CallRecord, NoCall, Done
  <2>5. ReadsAreReal'
    BY <2>1, <2>2, <2>4 DEF StoreInv, ReadsAreReal
  <2> QED
    BY <2>3, <2>5
<1>4. OneAtATime'
  <2>1. CASE storage = "sqlite"
    <3>1. InFlight = {} /\ InFlight' = {} /\ chosen' = {}
      BY <2>1 DEF RegisterSession, MayStart, InFlight
    <3>2. \A c \in Call : call'[c].stage # "write"
      BY <3>1 DEF InFlight
    <3>3. \A t \in Session : row'[t] # NoRecord => row'[t].count = base'[t] + reads'[t]
      BY <2>1 DEF StoreInv, SessionTypeOK, OneAtATime, RegisterSession, SetSession, CountFrom
    <3> QED
      BY <3>1, <3>2, <3>3 DEF OneAtATime, EvictsWhatItSaw
  <2>2. CASE storage # "sqlite"
    BY <2>2 DEF OneAtATime, RegisterSession
  <2> QED
    BY <2>1, <2>2
<1> QED
  BY <1>2, <1>3, <1>4 DEF StoreInv

LEMMA StartKeeps ==
  ASSUME StoreInv, NEW c \in Call, NEW s \in Session, NEW op \in Op, Start(c, s, op)
  PROVE  StoreInv'
<1> DEFINE new == IF row[s] = NoRecord THEN Done
                  ELSE [stage |-> IF op.kind = "get" THEN "again" ELSE "write",
                        op |-> op, session |-> s, read |-> row[s]]
<1>0. /\ call' = [call EXCEPT ![c] = new] /\ call'[c] = new
      /\ \A b \in Call \ {c} : call'[b] = call[b]
      /\ UNCHANGED <<storage, row, chosen, posts, runs, past, base, reads>>
  BY DEF Start, StoreInv, SessionTypeOK
<1>1. /\ new \in {Done} \cup CallRecord
      /\ new.stage = "write" => new.read = row[s] /\ row[s] # NoRecord /\ new.session = s
  BY DEF CallRecord, StoreInv, SessionTypeOK, Done
<1>2. SessionTypeOK'
  BY <1>0, <1>1 DEF StoreInv, SessionTypeOK
<1>3. RowsArePast' /\ ReadsAreReal'
  BY <1>0, <1>1 DEF StoreInv, RowsArePast, ReadsAreReal
<1>4. OneAtATime'
  <2>1. CASE storage = "sqlite"
    <3>1. InFlight = {} /\ chosen = {} /\ InFlight' \subseteq {c}
      BY <1>0, <2>1 DEF Start, MayStart, InFlight
    <3>2. \A b \in Call : call'[b].stage = "write" => call'[b].read = row'[call'[b].session]
      BY <1>0, <1>1, <3>1 DEF InFlight
    <3> QED
      BY <1>0, <2>1, <3>1, <3>2 DEF StoreInv, OneAtATime, EvictsWhatItSaw
  <2>2. CASE storage # "sqlite"
    BY <1>0, <2>2 DEF OneAtATime
  <2> QED
    BY <2>1, <2>2
<1> QED
  BY <1>2, <1>3, <1>4 DEF StoreInv

(* A request that only reads or ends. *)
LEMMA ReadKeeps ==
  ASSUME StoreInv, NEW c \in Call, ReadAgain(c) \/ DbFails(c)
  PROVE  StoreInv'
<1>0. /\ c \in InFlight /\ call[c] \in CallRecord
      /\ \A b \in Call \ {c} : call'[b] = call[b]
      /\ UNCHANGED <<storage, row, chosen, posts, runs, past, base, reads>>
  BY DEF ReadAgain, DbFails, InFlight, NoCall, Done, StoreInv, SessionTypeOK
<1>1. /\ call'[c] \in {Done} \cup CallRecord
      /\ call'[c].stage = "write" => /\ call'[c].session = call[c].session
                                    /\ call'[c].read = row[call[c].session]
                                    /\ call'[c].read # NoRecord
  <2>1. call[c].session \in Session
    BY <1>0 DEF CallRecord
  <2> DEFINE r == row[call[c].session]
             new == [call[c] EXCEPT !.stage = "write", !.read = r]
  <2>2. r # NoRecord => r \in Record
    BY <2>1 DEF StoreInv, SessionTypeOK
  <2>4. new.stage = "write" /\ new.session = call[c].session /\ new.read = r
    BY <1>0 DEF CallRecord
  <2>5. r # NoRecord => new \in CallRecord
    BY <1>0, <2>2 DEF CallRecord
  <2>6. call'[c] = Done \/ (call'[c] = new /\ r # NoRecord)
    BY <1>0 DEF ReadAgain, DbFails, StoreInv, SessionTypeOK
  <2> HIDE DEF new
  <2> QED
    BY <2>4, <2>5, <2>6 DEF Done
<1>2. SessionTypeOK'
  <2>1. call' \in [Call -> {NoCall, Done} \cup CallRecord]
    BY <1>0, <1>1 DEF ReadAgain, DbFails, StoreInv, SessionTypeOK
  <2> QED
    BY <1>0, <2>1 DEF StoreInv, SessionTypeOK
<1>3. call[c].session \in Session
  BY <1>0 DEF CallRecord
<1>4. RowsArePast' /\ ReadsAreReal'
  BY <1>0, <1>1, <1>3 DEF StoreInv, RowsArePast, ReadsAreReal
<1>5. InFlight' \subseteq InFlight
  BY <1>0 DEF InFlight
<1>6. OneAtATime'
  BY <1>0, <1>1, <1>5 DEF StoreInv, OneAtATime, EvictsWhatItSaw
<1> QED
  BY <1>2, <1>4, <1>6 DEF StoreInv

LEMMA WriteKeeps ==
  ASSUME StoreInv, NEW c \in Call, WriteBack(c)
  PROVE  StoreInv'
<1> DEFINE s == call[c].session
           r == Merge(call[c].op, call[c].read)
<1>0. /\ c \in InFlight /\ call[c] \in CallRecord /\ s \in Session /\ call[c].op \in Op
      /\ call[c].read \in Record /\ call[c].read # NoRecord
  <2>1. call[c] \in CallRecord
    BY DEF WriteBack, NoCall, Done, StoreInv, SessionTypeOK
  <2>2. call[c].read \in past[s] /\ call[c].read # NoRecord
    BY DEF WriteBack, StoreInv, ReadsAreReal
  <2> QED
    BY <2>1, <2>2 DEF WriteBack, InFlight, CallRecord, StoreInv, SessionTypeOK
<1>1. r \in Record
  BY <1>0, MergeType
<1>2. /\ row' = [row EXCEPT ![s] = r] /\ past' = [past EXCEPT ![s] = @ \cup {r}]
      /\ call' = [call EXCEPT ![c] = Done]
      /\ UNCHANGED <<storage, chosen, posts, runs>>
  BY DEF WriteBack, SetSession
(* The history follows what the request makes of the count. *)
<1>9. /\ base' \in [Session -> Int] /\ reads' \in [Session -> Nat]
      /\ \A t \in Session \ {s} : base'[t] = base[t] /\ reads'[t] = reads[t]
      /\ call[c].read.count = base[s] + reads[s] => r.count = base'[s] + reads'[s]
  <2>1. /\ call[c].read.count \in Int /\ base \in [Session -> Int] /\ reads \in [Session -> Nat]
        /\ call[c].op.kind \in {"get", "update", "flag"}
    BY <1>0 DEF Record, Op, StoreInv, SessionTypeOK
  <2>2. CASE call[c].op.kind = "get"
    <3>1. reads' = [reads EXCEPT ![s] = @ + 1] /\ base' = base
      BY <2>2 DEF WriteBack
    <3>2. r.count = call[c].read.count + 1
      BY <1>0, <2>2 DEF Merge, Record
    <3> QED
      BY <1>0, <2>1, <3>1, <3>2
  <2>3. CASE call[c].op.kind = "update" /\ call[c].op.count # Absent
    <3>1. CountFrom(s, call[c].op.count) /\ call[c].op.count \in Int
      BY <1>0, <2>3, StoreAssumption DEF WriteBack, Op
    <3>2. r.count = call[c].op.count
      BY <1>0, <2>3 DEF Merge, Given, Record
    <3> QED
      BY <1>0, <2>1, <3>1, <3>2 DEF CountFrom
  <2>4. CASE call[c].op.kind = "flag" \/ (call[c].op.kind = "update" /\ call[c].op.count = Absent)
    <3>1. base' = base /\ reads' = reads
      BY <2>4 DEF WriteBack
    <3>2. r.count = call[c].read.count
      BY <1>0, <2>4 DEF Merge, Given, Record
    <3> QED
      BY <2>1, <3>1, <3>2
  <2> QED
    BY <2>1, <2>2, <2>3, <2>4
<1>3. SessionTypeOK'
  <2>1. call' \in [Call -> {NoCall, Done} \cup CallRecord]
    BY <1>2 DEF StoreInv, SessionTypeOK
  <2>2. row' \in [Session -> Record \cup {NoRecord}] /\ past' \in [Session -> SUBSET Record]
    BY <1>0, <1>1, <1>2 DEF StoreInv, SessionTypeOK
  <2> QED
    BY <1>2, <1>9, <2>1, <2>2 DEF StoreInv, SessionTypeOK
<1>4. \A t \in Session : past[t] \subseteq past'[t]
  BY <1>2 DEF StoreInv, SessionTypeOK
<1>5. RowsArePast'
  BY <1>2, <1>4 DEF StoreInv, SessionTypeOK, RowsArePast
<1>6. /\ call'[c].stage = "done" /\ \A b \in Call \ {c} : call'[b] = call[b]
  BY <1>0, <1>2 DEF StoreInv, SessionTypeOK, Done
<1>7. ReadsAreReal'
  <2>1. ASSUME NEW b \in Call, call'[b].stage = "write"
        PROVE  call[b].session \in Session /\ call'[b] = call[b] /\ call[b].stage = "write"
    <3>1. call'[b] = call[b] /\ call[b].stage = "write"
      BY <1>6, <2>1
    <3> QED
      BY <3>1 DEF StoreInv, SessionTypeOK, CallRecord, NoCall, Done
  <2> QED
    BY <1>4, <2>1 DEF StoreInv, ReadsAreReal
<1>8. OneAtATime'
  <2>1. CASE storage = "sqlite"
    <3>1. InFlight = {c} /\ InFlight' = {} /\ chosen = {}
      BY <1>0, <1>6, <2>1 DEF StoreInv, OneAtATime, InFlight
    <3>2. \A b \in Call : call'[b].stage # "write"
      BY <3>1 DEF InFlight
    <3>3. r.count = base'[s] + reads'[s]
      BY <1>0, <1>9, <2>1 DEF StoreInv, OneAtATime, WriteBack
    <3>4. \A t \in Session : row'[t] # NoRecord => row'[t].count = base'[t] + reads'[t]
      BY <1>0, <1>2, <1>9, <2>1, <3>3 DEF StoreInv, SessionTypeOK, OneAtATime
    <3> QED
      BY <1>2, <3>1, <3>2, <3>4 DEF OneAtATime, EvictsWhatItSaw
  <2>2. CASE storage # "sqlite"
    BY <1>2, <2>2 DEF OneAtATime
  <2> QED
    BY <2>1, <2>2
<1> QED
  BY <1>3, <1>5, <1>7, <1>8 DEF StoreInv

(* A session is removed, by a client or by an eviction run. *)
LEMMA RemoveKeeps ==
  ASSUME StoreInv,
         (\E s \in Session : DeleteSession(s)) \/ (\E p \in chosen : Evict(p))
  PROVE  StoreInv'
<1>0. /\ chosen' \subseteq chosen
      /\ UNCHANGED <<storage, call, posts, runs, past, base, reads>>
  BY DEF DeleteSession, Evict
<1>1. PICK s \in Session : row' = [row EXCEPT ![s] = NoRecord] \/ row' = row
  BY DEF DeleteSession, Evict, StoreInv, SessionTypeOK
<1>2. SessionTypeOK'
  BY <1>0, <1>1 DEF StoreInv, SessionTypeOK
<1>3. \A t \in Session : row'[t] = row[t] \/ row'[t] = NoRecord
  BY <1>1 DEF StoreInv, SessionTypeOK
<1>4. RowsArePast' /\ ReadsAreReal'
  BY <1>0, <1>3 DEF StoreInv, RowsArePast, ReadsAreReal
<1>5. OneAtATime'
  <2>1. CASE storage = "sqlite"
    <3>1. InFlight = {} /\ InFlight' = {}
      BY <1>0, <2>1 DEF DeleteSession, Evict, MayStart, InFlight, StoreInv, OneAtATime
    <3>2. \A c \in Call : call'[c].stage # "write"
      BY <3>1 DEF InFlight
    <3>3. \A p \in chosen' : row'[p[1]] = row[p[1]]
      <4>1. CASE \E t \in Session : DeleteSession(t)
        BY <1>0, <2>1, <4>1 DEF DeleteSession, MayStart
      <4>2. CASE \E p \in chosen : Evict(p)
        <5>1. PICK p \in chosen : Evict(p)
          BY <4>2
        <5>2. \A q \in chosen' : q \in chosen /\ q[1] # p[1] /\ q[1] \in Session
          BY <2>1, <5>1 DEF Evict, StoreInv, OneAtATime, SessionTypeOK
        <5> QED
          BY <5>1, <5>2 DEF Evict, StoreInv, SessionTypeOK
      <4> QED
        BY <4>1, <4>2
    <3>4. \A p \in chosen' : row'[p[1]] = p[2] /\ p[2].importance < Floor
      BY <1>0, <2>1, <3>3 DEF StoreInv, OneAtATime, EvictsWhatItSaw
    <3>5. \A t \in Session : row'[t] # NoRecord => row'[t].count = base'[t] + reads'[t]
      BY <1>0, <1>3, <2>1 DEF StoreInv, OneAtATime
    <3> QED
      BY <1>0, <2>1, <3>1, <3>2, <3>4, <3>5 DEF StoreInv, OneAtATime, EvictsWhatItSaw
  <2>2. CASE storage # "sqlite"
    BY <1>0, <2>2 DEF OneAtATime
  <2> QED
    BY <2>1, <2>2
<1> QED
  BY <1>2, <1>4, <1>5 DEF StoreInv

LEMMA EvictionKeeps ==
  ASSUME StoreInv, StartEviction
  PROVE  StoreInv'
<1>0. UNCHANGED <<storage, row, call, posts, past, base, reads>>
  BY DEF StartEviction
<1>1. PICK C \in SUBSET Unimportant : chosen' = chosen \cup {<<s, row[s], runs + 1>> : s \in C}
  BY DEF StartEviction
<1>2. runs' \in 0..MaxRuns /\ runs + 1 \in 1..MaxRuns
  BY StoreAssumption DEF StartEviction, StoreInv, SessionTypeOK
<1>3. \A s \in C : s \in Session /\ row[s] \in Record /\ row[s].importance < Floor
  BY DEF Unimportant, StoreInv, SessionTypeOK
<1>4. chosen' \in SUBSET (Session \X Record \X (1..MaxRuns))
  BY <1>1, <1>2, <1>3 DEF StoreInv, SessionTypeOK
<1>5. SessionTypeOK' /\ RowsArePast' /\ ReadsAreReal'
  BY <1>0, <1>2, <1>4 DEF StoreInv, SessionTypeOK, RowsArePast, ReadsAreReal
<1>6. OneAtATime'
  <2>1. CASE storage = "sqlite"
    <3>1. chosen = {} /\ InFlight = {} /\ InFlight' = {}
      BY <1>0, <2>1 DEF StartEviction, MayStart, InFlight
    <3>2. \A p \in chosen' : \E s \in C : p = <<s, row[s], runs + 1>>
      BY <1>1, <3>1
    <3>3. \A p \in chosen' : row[p[1]] = p[2] /\ p[2].importance < Floor
      BY <1>3, <3>2
    <3>4. \A p, q \in chosen' : p[1] = q[1] => p = q
      BY <3>2
    <3> QED
      BY <1>0, <2>1, <3>1, <3>3, <3>4 DEF StoreInv, OneAtATime, EvictsWhatItSaw
  <2>2. CASE storage # "sqlite"
    BY <1>0, <2>2 DEF OneAtATime
  <2> QED
    BY <2>1, <2>2
<1> QED
  BY <1>5, <1>6 DEF StoreInv

THEOREM StoreInvariant == Spec => []StoreInv
<1>1. Init => StoreInv
  <2> SUFFICES ASSUME Init PROVE StoreInv
    OBVIOUS
  <2>1. SessionTypeOK
    BY StoreAssumption DEF Init, SessionTypeOK
  <2>2. RowsArePast /\ ReadsAreReal /\ OneAtATime
    BY DEF Init, RowsArePast, ReadsAreReal, OneAtATime, InFlight, NoCall, EvictsWhatItSaw
  <2> QED
    BY <2>1, <2>2 DEF StoreInv
<1>2. StoreInv /\ [Next]_vars => StoreInv'
  <2> SUFFICES ASSUME StoreInv, [Next]_vars PROVE StoreInv'
    OBVIOUS
  <2>1. CASE UNCHANGED vars
    BY <2>1 DEF vars, StoreInv, SessionTypeOK, RowsArePast, ReadsAreReal, OneAtATime, InFlight,
       EvictsWhatItSaw
  <2> QED
    BY <2>1, RegisterKeeps, StartKeeps, ReadKeeps, WriteKeeps, RemoveKeeps, EvictionKeeps DEF Next
<1> QED
  BY <1>1, <1>2, PTL DEF Spec

(* Rows, requests and eviction runs keep their types. *)
THEOREM SessionTyping == Spec => []SessionTypeOK
<1>1. StoreInv => SessionTypeOK
  BY DEF StoreInv
<1> QED
  BY <1>1, StoreInvariant, PTL

(* With SQLite no answered read goes uncounted, however requests, deletions  *)
(* and eviction runs follow each other.                                     *)
THEOREM EveryReadCountsHolds == Spec => []EveryReadCounts
<1>1. StoreInv => EveryReadCounts
  BY DEF StoreInv, OneAtATime, EveryReadCounts
<1> QED
  BY <1>1, StoreInvariant, PTL

(* With SQLite an eviction run deletes what it saw, and nothing else. *)
THEOREM EvictsWhatItSawHolds == Spec => []EvictsWhatItSaw
<1>1. StoreInv => EvictsWhatItSaw
  BY DEF StoreInv, OneAtATime, EvictsWhatItSaw
<1> QED
  BY <1>1, StoreInvariant, PTL

-----------------------------------------------------------------------------
LEMMA RecordsStep ==
  ASSUME StoreInv, [Next]_vars
  PROVE  [Records!Next]_(Records!vars)
<1> USE DEF Records!vars, StoreInv, SessionTypeOK
<1>0. (storage = "sqlite")' = (storage = "sqlite")
  BY DEF Next, vars, RegisterSession, Start, DeleteSession, ReadAgain, WriteBack, DbFails,
     StartEviction, Evict
<1>1. ASSUME NEW s \in Session, NEW a \in Agent, NEW i \in Score, RegisterSession(s, a, i)
      PROVE  Records!Next
  <2>1. Clamp(i) \in Records!Importance
    BY ClampType, StoreAssumption DEF Records!Importance, Importance
  <2>2. Records!Store(s, Records!Fresh(a, Clamp(i)))
    BY <1>0, <1>1 DEF RegisterSession, SetSession, Records!Store, Records!Fresh
  <2> QED
    BY <2>1, <2>2 DEF Records!Register, Records!Next
<1>2. ASSUME NEW c \in Call, WriteBack(c)
      PROVE  Records!Next
  <2> DEFINE s == call[c].session
             r == call[c].read
  <2>1. call[c] \in CallRecord
    BY <1>2 DEF WriteBack, NoCall, Done
  <2>2. s \in Session /\ call[c].op \in Op /\ r \in past[s] /\ r # NoRecord
    BY <1>2, <2>1 DEF WriteBack, CallRecord, ReadsAreReal
  <2>3. Merge(call[c].op, r) \in Records!Changed(r)
    BY <2>2, MergeType
  <2>4. r \in Records!Bases(s)
    BY <1>2, <2>2 DEF Records!Bases, WriteBack, OneAtATime
  <2>5. Records!Store(s, Merge(call[c].op, r))
    BY <1>0, <1>2 DEF WriteBack, SetSession, Records!Store
  <2> QED
    BY <2>2, <2>3, <2>4, <2>5 DEF Records!Change, Records!Next
<1>3. ASSUME NEW s \in Session, row' = [row EXCEPT ![s] = NoRecord], past' = past
      PROVE  [Records!Next]_(Records!vars)
  <2>1. CASE row[s] = NoRecord
    <3>1. row' = row
      BY <1>3, <2>1
    <3> QED
      BY <1>0, <1>3, <3>1
  <2>2. CASE row[s] # NoRecord
    BY <1>0, <1>3, <2>2 DEF Records!Remove, Records!Next
  <2> QED
    BY <2>1, <2>2
<1>4. ASSUME row' = row, past' = past
      PROVE  [Records!Next]_(Records!vars)
  BY <1>0, <1>4
<1>5. \A p \in chosen : p[1] \in Session
  OBVIOUS
<1> QED
  BY <1>1, <1>2, <1>3, <1>4, <1>5 DEF Next, vars, Start, DeleteSession, ReadAgain, DbFails,
     StartEviction, Evict

(* The store implements SessionRecords: with SQLite its requests are atomic, *)
(* with MySQL each still writes a record that is one change away from one   *)
(* the session has had, and never gives it to another agent's.              *)
THEOREM StoreImplementsRecords == Spec => RecordsSpec
<1>1. Init => Records!Init
  BY DEF Init, Records!Init
<1>2. StoreInv /\ [Next]_vars => [Records!Next]_(Records!vars)
  BY RecordsStep
<1> QED
  BY <1>1, <1>2, StoreInvariant, PTL DEF Spec, RecordsSpec, Records!Spec

=============================================================================
