------------------------ MODULE MutationDriverProofs ------------------------
(***************************************************************************)
(* Proofs about MutationDriver, for every number of drivers and files and  *)
(* every discipline, or, where it says so, every discipline that restores,  *)
(* separates its arms, preserves edits or recovers (MCMatrix has TLC check  *)
(* these of the 22 scripts).                                                *)
(*                                                                         *)
(* The process part of the state is treated apart from the files: most     *)
(* actions end in Stop, Leave, Raise or RestoreThen, and one lemma each    *)
(* says what these do to it.                                               *)
(***************************************************************************)
EXTENDS MutationDriver, TLAPS

(* What the proofs use of a discipline. *)
LEMMA DisciplineFacts ==
  ASSUME driver \in Drivers
  PROVE  /\ D.owned \in SUBSET Files /\ D.arms \in SUBSET Arms
         /\ D.keep \in {"no", "early", "late"}
         /\ D.expects \in {"snapshot", "reread", "gate"}
<1>1. D \in Disciplines
  BY DisciplineAssumption DEF D
<1> QED
  BY <1>1, Zenon DEF Disciplines

(* The driver that is run, and with it the discipline, never changes. *)
LEMMA SameDriver == [Next]_vars => driver' = driver /\ D' = D
<1>1. [Next]_vars => driver' = driver
  BY DEF Next, Step, Suite, Agent, vars, Start, Recover, Gate, ReadSnapshot, ReadExpected, Keep, BeginArm,
     Plant, Restore, NeedleMissing, RunSuite, Restored, CheckRestored, EndArms, Control,
     SuiteEnds, EndControl, Interrupt, Terminate, Kill, Commit, Edit, Stage, Checkout
<1> QED
  BY <1>1 DEF D

-----------------------------------------------------------------------------
(* Types. *)

ProcessOK ==
  /\ pc \in PCs
  /\ snap \in [Files -> Content] /\ expect \in [Files -> Content]
  /\ todo \in SUBSET Files /\ writing \in SUBSET (Files \X Content)
  /\ arm \in Arms \cup {NoArm}
  /\ left \in 0..MaxArms
  /\ way \in {"arm", "skip", "plant", "endcontrol", "exit"}
  /\ exit \in Ends \cup {"never"}
  /\ bad \in BOOLEAN /\ uncovered \in BOOLEAN

(* What an action that ends in one of these leaves to be checked. *)
LEMMA RestTypes ==
  ASSUME TypeOK, ProcessOK', UNCHANGED <<driver, tree, git, runs>>,
         kept' \in [Files -> Content], ctl' \in BOOLEAN, sham' \in BOOLEAN,
         lost' \in SUBSET (1..MaxEdits)
  PROVE  TypeOK'
BY DEF TypeOK, ProcessOK, git

(* The records that stand for a clean, a truncated and an absent file. *)
LEMMA ContentFacts ==
  /\ Clean \in Content /\ Torn \in Content /\ NoCopy \in Content
  /\ Pristine(Clean) /\ ~Pristine(Torn) /\ ~Pristine(NoCopy)
BY DEF Content, Clean, Torn, NoCopy, Pristine

LEMMA PhaseFacts ==
  /\ {"off", "recover", "gate", "read", "expect", "keep", "control", "arms", "endcontrol",
      "plant", "suite", "restore", "check"} = PCs
  /\ "ok" \in Ends /\ "fail" \in Ends /\ "exception" \in Ends /\ "interrupted" \in Ends
  /\ "term" \in Ends /\ "kill" \in Ends
BY DEF PCs, ArmPhase, Ends

LEMMA StopTypes ==
  ASSUME TypeOK, NEW kind \in Ends, Stop(kind)
  PROVE  ProcessOK'
<1>1. (uncovered \/ kind \in Uncovered) \in BOOLEAN
  OBVIOUS
<1> QED
  BY <1>1, BoundsAssumption, ContentFacts, PhaseFacts DEF Stop, ProcessOK, TypeOK

LEMMA RestoreThenTypes ==
  ASSUME TypeOK, NEW next \in {"arm", "skip", "plant", "endcontrol", "exit"}, NEW files \in SUBSET Files,
         RestoreThen(next, files)
  PROVE  /\ pc' \in PCs /\ todo' \in SUBSET Files /\ writing' \in SUBSET (Files \X Content)
         /\ way' \in {"arm", "skip", "plant", "endcontrol", "exit"}
BY PhaseFacts DEF RestoreThen

LEMMA LeaveTypes ==
  ASSUME TypeOK, NEW kind \in Ends, Leave(kind)
  PROVE  ProcessOK'
<1>1. D.owned \in SUBSET Files
  BY DisciplineFacts DEF TypeOK
<1>2. CASE D.runFinally /\ Guarded
  BY <1>1, <1>2, RestoreThenTypes DEF Leave, ProcessOK, TypeOK
<1>3. CASE ~(D.runFinally /\ Guarded)
  BY <1>3, StopTypes DEF Leave
<1> QED
  BY <1>2, <1>3

LEMMA ScopeType == TypeOK => Scope \in SUBSET Files
BY DisciplineFacts DEF TypeOK, Scope, Arms, NoArm

LEMMA RaiseTypes ==
  ASSUME TypeOK, NEW kind \in Ends, Raise(kind)
  PROVE  ProcessOK'
<1>1. CASE D.armFinally /\ ~D.runFinally
  BY <1>1, ScopeType, RestoreThenTypes DEF Raise, ProcessOK, TypeOK
<1>2. CASE ~(D.armFinally /\ ~D.runFinally)
  BY <1>2, LeaveTypes DEF Raise
<1> QED
  BY <1>1, <1>2

LEMMA WriteTypes ==
  ASSUME TypeOK, NEW f \in Files, NEW c \in Content, NEW torn, Write(f, c, torn)
  PROVE  /\ tree' \in [Files -> Content]
         /\ todo' \in SUBSET Files /\ writing' \in SUBSET (Files \X Content)
         /\ lost' \in SUBSET (1..MaxEdits)
<1>0. /\ tree \in [Files -> Content] /\ index \in [Files -> Content]
      /\ todo \in SUBSET Files /\ writing \in SUBSET (Files \X Content)
      /\ lost \in SUBSET (1..MaxEdits)
  BY DEF TypeOK
<1>1. tree[f].edits \in SUBSET (1..MaxEdits)
  BY <1>0 DEF Content
<1>2. tree' \in [Files -> Content]
  BY <1>0, ContentFacts DEF Write
<1>3. lost' \in SUBSET (1..MaxEdits)
  BY <1>0, <1>1 DEF Write
<1>4. todo' \in SUBSET Files /\ writing' \in SUBSET (Files \X Content)
  BY <1>0 DEF Write
<1> QED
  BY <1>2, <1>3, <1>4

(* The other agent keeps the files what they are. *)
LEMMA AgentTypes ==
  ASSUME TypeOK, Agent
  PROVE  TypeOK'
<1> USE BoundsAssumption
<1>1. ASSUME NEW f \in Files, Edit(f)
      PROVE  TypeOK'
  <2>1. /\ edits + 1 \in 1..MaxEdits
        /\ tree[f] \in Content
    BY <1>1 DEF Edit, TypeOK
  <2>2. [tree[f] EXCEPT !.edits = @ \cup {edits + 1}] \in Content
    BY <2>1 DEF Content
  <2>3. tree' \in [Files -> Content]
    BY <1>1, <2>2 DEF Edit, TypeOK
  <2>4. when' \in [1..MaxEdits -> {"never", "rest", "stale", "run", "gap", "arm"}]
    BY <1>1, <2>1 DEF Edit, TypeOK
  <2>5. edits' \in 0..MaxEdits
    BY <1>1, <2>1 DEF Edit
  <2> QED
    BY <1>1, <2>3, <2>4, <2>5 DEF Edit, TypeOK, proc, hist
<1>2. ASSUME NEW f \in Files, Stage(f)
      PROVE  TypeOK'
  BY <1>2 DEF Stage, TypeOK, proc, hist
<1>3. ASSUME NEW f \in Files, Checkout(f)
      PROVE  TypeOK'
  BY <1>3 DEF Checkout, TypeOK, proc, hist, git
<1>4. ASSUME Commit
      PROVE  TypeOK'
  BY <1>4 DEF Commit, TypeOK, proc, hist
<1> QED
  BY <1>1, <1>2, <1>3, <1>4 DEF Agent

(* The steps that come before the arms. *)
LEMMA StartTypes ==
  ASSUME TypeOK, Start \/ Recover \/ Gate \/ ReadSnapshot \/ ReadExpected \/ Keep
  PROVE  TypeOK'
<1> USE BoundsAssumption, PhaseFacts, ContentFacts
<1>0. D.owned \in SUBSET Files /\ AfterRead \in PCs /\ AfterExpected \in PCs
  BY DisciplineFacts DEF TypeOK, AfterRead, AfterExpected
<1>1. CASE Start
  <2>1. /\ pc' \in PCs /\ todo' \in SUBSET Files /\ left' \in 0..MaxArms
        /\ runs' \in 0..MaxRuns
    BY <1>0, <1>1 DEF Start, TypeOK
  <2> QED
    BY <1>1, <2>1 DEF Start, TypeOK, git
<1>2. CASE Recover
  <2>1. ASSUME NEW f \in todo, Write(f, kept[f], D.tornRestore)
        PROVE  /\ tree' \in [Files -> Content] /\ todo' \in SUBSET Files
               /\ writing' \in SUBSET (Files \X Content) /\ lost' \in SUBSET (1..MaxEdits)
    BY <2>1, WriteTypes DEF TypeOK
  <2>2. kept' \in [Files -> Content] /\ pc' \in PCs
    BY <1>2 DEF Recover, Drop, TypeOK
  <2>3. /\ tree' \in [Files -> Content] /\ todo' \in SUBSET Files
        /\ writing' \in SUBSET (Files \X Content) /\ lost' \in SUBSET (1..MaxEdits)
    BY <1>2, <2>1 DEF Recover, TypeOK
  <2> QED
    BY <1>2, <2>2, <2>3 DEF Recover, TypeOK, git, proc
<1>3. CASE Gate
  <2>1. ProcessOK'
    BY <1>0, <1>3, StopTypes DEF Gate, ProcessOK, TypeOK
  <2> QED
    BY <1>3, <2>1, RestTypes DEF Gate, TypeOK, hist
<1>4. CASE ReadSnapshot \/ ReadExpected
  BY <1>0, <1>4 DEF ReadSnapshot, ReadExpected, TypeOK, git, hist
<1>5. CASE Keep
  <2>1. kept' \in [Files -> Content] /\ todo' \in SUBSET Files /\ pc' \in PCs
    BY <1>5 DEF Keep, TypeOK
  <2> QED
    BY <1>5, <2>1 DEF Keep, TypeOK, git, proc, hist
<1> QED
  BY <1>1, <1>2, <1>3, <1>4, <1>5

(* What the control, the arms and the end of a run do to the process: each   *)
(* ends it, writes files back, or moves on.                                  *)
LEMMA ControlTypes ==
  ASSUME TypeOK, NEW o, Control(o) \/ EndControl(o) \/ EndArms
  PROVE  TypeOK'
<1> USE PhaseFacts, ContentFacts
<1>0. D.owned \in SUBSET Files
  BY DisciplineFacts DEF TypeOK
<1>1. CASE Control(o)
  <2>1. CASE \E kind \in Ends : Leave(kind)
    <3>1. ProcessOK'
      BY <2>1, LeaveTypes
    <3>2. kept' \in [Files -> Content]
      BY <1>1 DEF Control, Drop, TypeOK
    <3> QED
      BY <1>1, <3>1, <3>2, RestTypes DEF Control, TypeOK
  <2>2. CASE RestoreThen("exit", D.owned) /\ exit' = "fail" /\ UNCHANGED <<snap, expect, arm, left, bad, uncovered, kept>>
    <3>1. ProcessOK'
      BY <1>0, <2>2, RestoreThenTypes DEF ProcessOK, TypeOK
    <3> QED
      BY <1>1, <2>2, <3>1, RestTypes DEF Control, TypeOK
  <2>3. CASE pc' \in {"keep", "arms"} /\ UNCHANGED <<proc, kept, todo, writing, uncovered>>
    BY <1>1, <2>3 DEF Control, TypeOK, git, proc
  <2> QED
    BY <1>1, <2>1, <2>2, <2>3 DEF Control
<1>2. CASE EndControl(o) \/ EndArms
  <2>1. ASSUME NEW fail, Finish(fail)
        PROVE  ProcessOK' /\ kept' \in [Files -> Content]
    <3>1. \E kind \in Ends : Leave(kind)
      BY <2>1 DEF Finish
    <3>2. kept' \in [Files -> Content]
      BY <2>1 DEF Finish, Drop, TypeOK
    <3> QED
      BY <3>1, <3>2, LeaveTypes
  <2>2. ProcessOK' /\ kept' \in [Files -> Content]
    <3>1. CASE EndControl(o)
      BY <2>1, <3>1, LeaveTypes DEF EndControl, TypeOK
    <3>2. CASE EndArms
      <4>1. CASE RestoreThen("endcontrol", D.owned) /\ UNCHANGED <<snap, expect, arm, left, bad, exit, uncovered, kept>>
        BY <1>0, <4>1, RestoreThenTypes DEF ProcessOK, TypeOK
      <4> QED
        BY <2>1, <3>2, <4>1 DEF EndArms, ProcessOK, TypeOK, proc
    <3> QED
      BY <1>2, <3>1, <3>2
  <2> QED
    BY <1>2, <2>2, RestTypes DEF EndControl, EndArms, TypeOK, hist
<1> QED
  BY <1>1, <1>2

(* An arm under way is counted in what is left, so the count never gets      *)
(* below zero.                                                               *)
InArm == pc \in {"plant", "suite", "check"} \/ (pc = "restore" /\ way \notin {"endcontrol", "exit"})
TypeInv == TypeOK /\ (InArm => left > 0)

LEMMA NextArmTypes ==
  ASSUME TypeInv, InArm, NextArm
  PROVE  pc' \in PCs /\ left' \in 0..MaxArms /\ arm' \in Arms \cup {NoArm}
BY BoundsAssumption, PhaseFacts DEF TypeInv, TypeOK, NextArm

LEMMA BeginArmTypes ==
  ASSUME TypeInv, NEW a \in Arms, BeginArm(a)
  PROVE  TypeOK'
<1> USE PhaseFacts
<1>0. D.owned \in SUBSET Files /\ a.files \in SUBSET Files
  BY DisciplineFacts DEF TypeInv, TypeOK, Arms
<1>1. ProcessOK'
  <2>1. CASE Leave("fail")
    BY <2>1, LeaveTypes DEF TypeInv
  <2>2. ASSUME NEW next \in {"exit", "plant"}, RestoreThen(next, D.owned)
        PROVE  ProcessOK'
    <3>1. UNCHANGED <<snap, expect, left, bad, uncovered>> /\ arm' \in {arm, a} /\ exit' \in {exit, "fail"}
      BY <2>2 DEF BeginArm, RestoreThen, Leave, Stop
    <3> QED
      BY <1>0, <2>2, <3>1, RestoreThenTypes DEF ProcessOK, TypeInv, TypeOK
  <2>3. CASE pc' = "plant" /\ todo' = a.files /\ arm' = a
             /\ UNCHANGED <<snap, expect, left, way, bad, exit, uncovered, writing>>
    BY <1>0, <2>3 DEF ProcessOK, TypeInv, TypeOK
  <2> QED
    BY <2>1, <2>2, <2>3 DEF BeginArm
<1> QED
  BY <1>1, RestTypes DEF BeginArm, TypeInv, TypeOK, hist

(* The steps of an arm: planting, the suite, writing back, the check. *)
LEMMA PlantTypes ==
  ASSUME TypeInv, NEW f \in Files, Plant(f) \/ Restore(f)
  PROVE  TypeOK'
<1>1. \E c \in Content : \E torn : Write(f, c, torn)
  <2>1. tree[f] \in Content /\ snap[f] \in Content /\ index[f] \in Content
    BY DEF TypeInv, TypeOK
  <2>2. /\ [tree[f] EXCEPT !.planted = TRUE] \in Content
        /\ [snap[f] EXCEPT !.planted = TRUE] \in Content
    BY <2>1 DEF Content
  <2> QED
    BY <2>1, <2>2 DEF Plant, Restore
<1>2. /\ tree' \in [Files -> Content]
      /\ todo' \in SUBSET Files /\ writing' \in SUBSET (Files \X Content)
      /\ lost' \in SUBSET (1..MaxEdits)
  BY <1>1, WriteTypes DEF TypeInv
<1> QED
  BY <1>2 DEF Plant, Restore, TypeInv, TypeOK, git, proc

LEMMA NeedleTypes ==
  ASSUME TypeInv, NeedleMissing
  PROVE  TypeOK'
<1> USE PhaseFacts
<1>1. ProcessOK'
  <2>1. CASE Raise("exception")
    BY <2>1, RaiseTypes DEF TypeInv
  <2>2. CASE RestoreThen(Unscored, Scope) /\ bad' = TRUE
             /\ UNCHANGED <<snap, expect, arm, left, exit, uncovered>>
    BY <2>2, ScopeType, RestoreThenTypes DEF Unscored, ProcessOK, TypeInv, TypeOK
  <2>3. CASE NextArm /\ bad' = TRUE /\ todo' = {}
             /\ UNCHANGED <<snap, expect, way, exit, uncovered, writing>>
    <3>1. InArm
      BY DEF InArm, NeedleMissing
    <3> QED
      BY <2>3, <3>1, NextArmTypes DEF ProcessOK, TypeInv, TypeOK
  <2>4. D.miss = "skip" \/ D.miss = "skiprestore" \/ D.miss = "abort"
    <3>1. D \in Disciplines
      BY DisciplineAssumption DEF D, TypeInv, TypeOK
    <3> QED
      BY <3>1, Zenon DEF Disciplines
  <2>5. CASE D.miss = "skip"
    BY <2>3, <2>5 DEF NeedleMissing
  <2>6. CASE D.miss = "skiprestore"
    BY <2>2, <2>6 DEF NeedleMissing
  <2>7. CASE D.miss = "abort"
    BY <2>1, <2>7 DEF NeedleMissing
  <2> QED
    BY <2>4, <2>5, <2>6, <2>7
<1> QED
  BY <1>1, RestTypes DEF NeedleMissing, TypeInv, TypeOK

LEMMA SuiteTypes ==
  ASSUME TypeInv, RunSuite \/ \E o \in Outcomes : SuiteEnds(o)
  PROVE  TypeOK'
<1> USE PhaseFacts
<1>1. CASE RunSuite
  BY <1>1 DEF RunSuite, TypeInv, TypeOK, git, proc, hist
<1>2. ASSUME NEW o \in Outcomes, SuiteEnds(o)
      PROVE  TypeOK'
  <2>1. ProcessOK'
    <3>1. CASE Raise("exception")
      BY <3>1, RaiseTypes DEF TypeInv
    <3>2. CASE ~Raise("exception")
      <4>0. InArm /\ bad' \in BOOLEAN
        BY <1>2, <3>2 DEF SuiteEnds, InArm, TypeInv, TypeOK
      <4>1. ASSUME NEW next \in {"arm", "skip"}, RestoreThen(next, Scope), UNCHANGED <<arm, left, snap, expect, exit, uncovered>>
            PROVE  ProcessOK'
        BY <4>0, <4>1, ScopeType, RestoreThenTypes DEF ProcessOK, TypeInv, TypeOK
      <4>2. CASE NextArm /\ UNCHANGED <<todo, writing, way, snap, expect, exit, uncovered>>
        BY <4>0, <4>2, NextArmTypes DEF ProcessOK, TypeInv, TypeOK
      <4> QED
        BY <1>2, <3>2, <4>1, <4>2 DEF SuiteEnds, Unscored
    <3> QED
      BY <3>1, <3>2
  <2>2. sham' \in BOOLEAN
    BY <1>2 DEF SuiteEnds, TypeInv, TypeOK
  <2> QED
    BY <1>2, <2>1, <2>2, RestTypes DEF SuiteEnds, TypeInv, TypeOK
<1> QED
  BY <1>1, <1>2

LEMMA RestoredTypes ==
  ASSUME TypeInv, Restored \/ CheckRestored
  PROVE  TypeOK'
<1> USE PhaseFacts
<1>1. CASE Restored
  <2>1. kept' \in [Files -> Content]
    BY <1>1, ContentFacts DEF Restored, Drop, TypeInv, TypeOK
  <2>2. ProcessOK'
    <3>1. CASE way = "exit"
      <4>1. exit \in Ends \cup {"never"} /\ (IF exit = "ok" /\ StillDiffers THEN "fail" ELSE exit) \in Ends \cup {"never"}
        BY DEF TypeInv, TypeOK
      <4> QED
        BY <1>1, <3>1, <4>1, BoundsAssumption, ContentFacts DEF Restored, Stop, ProcessOK, TypeInv, TypeOK
    <3>2. CASE way \in {"plant", "endcontrol"}
      BY <1>1, <3>2 DEF Restored, ProcessOK, TypeInv, TypeOK, proc, Arms, NoArm
    <3>3. CASE way \in {"arm", "skip"}
      <4>1. InArm
        BY <1>1, <3>3 DEF Restored, InArm
      <4>2. pc' \in PCs /\ left' \in 0..MaxArms /\ arm' \in Arms \cup {NoArm}
        BY <1>1, <3>3, <4>1, NextArmTypes DEF Restored, TypeInv, TypeOK
      <4>3. UNCHANGED <<snap, expect, way, bad, exit, todo, writing, uncovered>>
        BY <1>1, <3>3 DEF Restored
      <4> QED
        BY <4>2, <4>3 DEF ProcessOK, TypeInv, TypeOK
    <3> QED
      BY <3>1, <3>2, <3>3 DEF TypeInv, TypeOK
  <2> QED
    BY <1>1, <2>1, <2>2, RestTypes DEF Restored, TypeInv, TypeOK, hist
<1>2. CASE CheckRestored
  <2>1. ProcessOK'
    <3>1. CASE Leave("fail")
      BY <3>1, LeaveTypes DEF TypeInv
    <3>2. CASE NextArm /\ bad' \in BOOLEAN /\ UNCHANGED <<snap, expect, way, exit, todo, writing, uncovered>>
      BY <1>2, <3>2, NextArmTypes DEF CheckRestored, InArm, ProcessOK, TypeInv, TypeOK
    <3> QED
      BY <1>2, <3>1, <3>2 DEF CheckRestored, TypeInv, TypeOK
  <2> QED
    BY <1>2, <2>1, RestTypes DEF CheckRestored, TypeInv, TypeOK, hist
<1> QED
  BY <1>1, <1>2

LEMMA SignalTypes ==
  ASSUME TypeInv, Interrupt \/ Terminate \/ Kill
  PROVE  TypeOK'
<1>1. ProcessOK'
  BY PhaseFacts, StopTypes, LeaveTypes, RaiseTypes DEF Interrupt, Terminate, Kill, TypeInv
<1> QED
  BY <1>1, RestTypes DEF Interrupt, Terminate, Kill, TypeInv, TypeOK, hist

(* An arm begins only while one is left, and is counted when it is over. *)
LEMMA ArmsLeftStep ==
  ASSUME TypeInv, [Next]_vars
  PROVE  InArm' => left' > 0
<1> DEFINE Keeps == InArm' => left' > 0
<1>1. ASSUME NEW kind, Stop(kind)
      PROVE  Keeps
  BY <1>1 DEF Stop, InArm
<1>2. ASSUME NEW kind, Leave(kind) \/ Raise(kind)
      PROVE  Keeps
  BY <1>1, <1>2 DEF Leave, Raise, RestoreThen, InArm
<1>3. CASE UNCHANGED vars
  BY <1>3 DEF vars, proc, InArm, TypeInv
<1>4. CASE Agent
  BY <1>4 DEF Agent, Edit, Stage, Commit, Checkout, proc, InArm, TypeInv
<1>5. CASE Start \/ Recover \/ Gate \/ ReadSnapshot \/ ReadExpected \/ Keep
  BY <1>1, <1>5 DEF Start, Recover, Gate, ReadSnapshot, ReadExpected, Keep, AfterRead, AfterExpected, InArm
<1>6. ASSUME NEW o, Control(o) \/ EndControl(o) \/ EndArms
      PROVE  Keeps
  BY <1>2, <1>6 DEF Control, EndControl, EndArms, Finish, RestoreThen, InArm
<1>7. ASSUME NEW a \in Arms, BeginArm(a)
      PROVE  Keeps
  BY <1>2, <1>7 DEF BeginArm, RestoreThen, InArm, TypeInv, TypeOK
<1>8. CASE RunSuite \/ (\E f \in Files : Plant(f) \/ Restore(f))
  BY <1>8 DEF RunSuite, Plant, Restore, proc, InArm, TypeInv
<1>9. CASE NeedleMissing
  BY <1>2, <1>9 DEF NeedleMissing, NextArm, RestoreThen, InArm, TypeInv
<1>10. ASSUME NEW o \in Outcomes, SuiteEnds(o)
       PROVE  Keeps
  BY <1>2, <1>10 DEF SuiteEnds, NextArm, RestoreThen, InArm, TypeInv
<1>11. CASE Restored \/ CheckRestored
  BY <1>1, <1>2, <1>11 DEF Restored, CheckRestored, NextArm, proc, InArm, TypeInv
<1>12. CASE Interrupt \/ Terminate \/ Kill
  BY <1>1, <1>2, <1>12 DEF Interrupt, Terminate, Kill
<1> QED
  BY <1>3, <1>4, <1>5, <1>6, <1>7, <1>8, <1>9, <1>10, <1>11, <1>12 DEF Next, Step, Suite

LEMMA InitTypes == Init => TypeInv
<1> SUFFICES ASSUME Init
             PROVE  TypeOK /\ ~InArm
  BY DEF TypeInv
<1>1. /\ tree \in [Files -> Content] /\ index \in [Files -> Content]
      /\ head \in [Files -> Content] /\ snap \in [Files -> Content]
      /\ expect \in [Files -> Content] /\ kept \in [Files -> Content]
  BY ContentFacts DEF Init
<1>2. /\ pc \in PCs /\ exit \in Ends \cup {"never"} /\ left \in 0..MaxArms
      /\ runs \in 0..MaxRuns /\ commits \in 0..MaxCommits /\ edits \in 0..MaxEdits
      /\ way \in {"arm", "skip", "plant", "endcontrol", "exit"}
  BY BoundsAssumption, PhaseFacts DEF Init
<1>3. when \in [1..MaxEdits -> {"never", "rest", "stale", "run", "gap", "arm"}]
  BY DEF Init
<1>4. ~InArm
  BY DEF Init, InArm
<1> QED
  BY <1>1, <1>2, <1>3, <1>4 DEF Init, TypeOK

THEOREM TypeInvariant == Spec => []TypeInv
<1>1. TypeInv /\ [Next]_vars => TypeInv'
  <2> SUFFICES ASSUME TypeInv, [Next]_vars
               PROVE  TypeOK'
    BY ArmsLeftStep DEF TypeInv
  <2>1. TypeOK
    BY DEF TypeInv
  <2>2. CASE UNCHANGED vars
    BY <2>1, <2>2 DEF vars, proc, git, hist, TypeOK
  <2> QED
    BY <2>1, <2>2, AgentTypes, StartTypes, ControlTypes, BeginArmTypes, PlantTypes, NeedleTypes,
       SuiteTypes, RestoredTypes, SignalTypes DEF Next, Step, Suite
<1> QED
  BY <1>1, InitTypes, PTL DEF Spec

(* Every driver's process, files and counters keep their types. *)
THEOREM MatrixTyping == Spec => []TypeOK
<1>1. TypeInv => TypeOK
  BY DEF TypeInv
<1> QED
  BY <1>1, TypeInvariant, PTL

-----------------------------------------------------------------------------
(* The exit status. *)

(* The process is gone, or all it has left to do is to write the files back. *)
Ending == pc = "off" \/ (pc = "restore" /\ way = "exit")

(* Status 0 is decided at the end only, and by what the verdicts were; up to *)
(* then an arm that went wrong has made its verdict wrong as well, unless it *)
(* raised an exception, which leads to another status.                      *)
PassInv ==
  /\ exit = "ok" => Ending
  /\ exit = "ok" /\ D.honest => ~bad
  /\ Discerning /\ sham /\ ~bad => exit # "ok" /\ Ending

LEMMA EndFacts ==
  ASSUME NEW kind, Stop(kind) \/ Leave(kind) \/ Raise(kind)
  PROVE  Ending' /\ exit' = kind /\ bad' = bad
BY DEF Stop, Leave, Raise, RestoreThen, Ending

(* Three ways of keeping PassInv: nothing it speaks of changes, the process  *)
(* ends with another status, or the run goes on.                            *)
LEMMA PassKept ==
  ASSUME PassInv, D' = D,
         \/ UNCHANGED <<exit, bad, sham>> /\ (Ending => Ending')
         \/ exit' # "ok" /\ Ending'
         \/ ~Ending /\ exit' = exit /\ (Discerning /\ sham' => bad')
  PROVE  PassInv'
BY DEF PassInv, Discerning

LEMMA FinishPasses ==
  ASSUME PassInv, D' = D, ~Ending, sham' = sham, bad \in BOOLEAN, NEW fail, Finish(fail)
  PROVE  PassInv'
<1>1. Ending' /\ bad' = bad /\ (exit' = "fail" \/ (exit' = "ok" /\ (D.honest => ~bad)))
  <2>1. Leave("fail") \/ (Leave("ok") /\ (D.honest => ~bad))
    BY DEF Finish
  <2> QED
    BY <2>1, EndFacts
<1>2. Discerning /\ sham => bad
  BY DEF PassInv
<1> QED
  BY <1>1, <1>2 DEF PassInv, Discerning

LEMMA PassStep ==
  ASSUME TypeInv, PassInv, [Next]_vars
  PROVE  PassInv'
<1> USE SameDriver, PassKept
<1>0. bad \in BOOLEAN /\ sham \in BOOLEAN
  BY DEF TypeInv, TypeOK
<1>1. CASE UNCHANGED vars
  BY <1>1 DEF vars, proc, hist, Ending
<1>2. CASE Agent
  BY <1>2 DEF Agent, Edit, Stage, Commit, Checkout, proc, hist, Ending
<1>3. CASE Start
  BY <1>3 DEF Start, PassInv
<1>4. CASE Gate
  BY <1>4, EndFacts DEF Gate, proc, hist, Ending
<1>5. CASE Recover \/ ReadSnapshot \/ ReadExpected \/ Keep \/ RunSuite \/ \E f \in Files : Plant(f) \/ Restore(f)
  BY <1>5 DEF Recover, ReadSnapshot, ReadExpected, Keep, RunSuite, Plant, Restore, proc, hist, Ending
<1>6. ASSUME NEW o, Control(o)
      PROVE  PassInv'
  BY <1>6, EndFacts DEF Control, RestoreThen, proc, Ending, PassInv
<1>7. ASSUME NEW o, EndControl(o) \/ EndArms
      PROVE  PassInv'
  <2>1. sham' = sham /\ ~Ending
    BY <1>7 DEF EndControl, EndArms, hist, Ending
  <2>2. CASE \E fail : Finish(fail)
    BY <1>0, <2>1, <2>2, FinishPasses
  <2>3. CASE ~\E fail : Finish(fail)
    BY <1>7, <2>1, <2>3, EndFacts DEF EndControl, EndArms, proc, PassInv
  <2> QED
    BY <2>2, <2>3
<1>8. ASSUME NEW a \in Arms, BeginArm(a)
      PROVE  PassInv'
  BY <1>8, EndFacts DEF BeginArm, RestoreThen, hist, Ending, PassInv
<1>9. CASE NeedleMissing
  <2>1. ~Ending
    BY <1>9 DEF NeedleMissing, Ending
  <2>2. CASE Raise("exception")
    BY <2>2, EndFacts
  <2>3. CASE ~Raise("exception")
    BY <1>9, <2>1, <2>3 DEF NeedleMissing
  <2> QED
    BY <2>2, <2>3
<1>10. ASSUME NEW o \in Outcomes, SuiteEnds(o)
       PROVE  PassInv'
  <2>1. ~Ending
    BY <1>10 DEF SuiteEnds, Ending
  <2>2. CASE Raise("exception")
    BY <2>2, EndFacts
  <2>3. CASE ~Raise("exception")
    <3>1. /\ bad' = (bad \/ Verdict(o) # arm.expect)
          /\ sham' = (sham \/ Verdict(o) # arm.expect \/ ~Earned(o))
          /\ exit' = exit
      BY <1>10, <2>3 DEF SuiteEnds
    <3>2. Discerning => Earned(o)
      BY DEF Discerning, Earned, Verdict
    <3> QED
      BY <1>0, <2>1, <3>1, <3>2 DEF PassInv
  <2> QED
    BY <2>2, <2>3
<1>11. CASE Restored
  BY <1>11, EndFacts DEF Restored, proc, hist, Ending, NextArm, PassInv
<1>12. CASE CheckRestored
  BY <1>0, <1>12, EndFacts DEF CheckRestored, hist, Ending, NextArm, PassInv
<1>13. CASE Interrupt \/ Terminate \/ Kill
  BY <1>13, EndFacts DEF Interrupt, Terminate, Kill
<1> QED
  BY <1>1, <1>2, <1>3, <1>4, <1>5, <1>6, <1>7, <1>8, <1>9, <1>10, <1>11, <1>12, <1>13
  DEF Next, Step, Suite

(* Whatever a driver does about its files, if its parser scores only suites  *)
(* that ran and its status stands for its verdicts, then status 0 means that *)
(* every arm ended as expected, through any errors and signals.             *)
THEOREM PassIsEarnedHolds == Spec => []PassIsEarned
<1>1. Init => PassInv
  BY DEF Init, PassInv
<1>2. PassInv => PassIsEarned
  BY DEF PassInv, PassIsEarned
<1> QED
  BY <1>1, <1>2, PassStep, TypeInvariant, PTL DEF Spec

-----------------------------------------------------------------------------
(* The baseline. *)

Early == {"off", "recover", "gate", "read"}
Gated == D.gate # "none" /\ D.gateFirst

(* Until the other agent stages a damaged file, git holds none; so what has  *)
(* passed the gate is whole, and so is what is read after it.               *)
BaselineInv ==
  tainted \/
    /\ \A f \in Files : Pristine(index[f]) /\ Pristine(head[f])
    /\ (Gated /\ pc = "read") => \A f \in D.owned : Pristine(tree[f])
    /\ (Gated /\ pc \notin Early) => \A f \in D.owned : Pristine(snap[f])

(* Once the snapshot is read, a step of the driver ends the process or       *)
(* leaves the snapshot as it is.                                            *)
LEMMA LateSteps ==
  ASSUME pc \notin Early, Start \/ Step \/ Suite \/ Interrupt \/ Terminate \/ Kill
  PROVE  pc' = "off" \/ (pc' \notin Early /\ snap' = snap)
<1> DEFINE Goal == pc' = "off" \/ (pc' \notin Early /\ snap' = snap)
<1> USE DEF Early
<1>1. ASSUME NEW kind, Leave(kind) \/ Raise(kind) \/ Stop(kind)
      PROVE  Goal
  BY <1>1 DEF Leave, Raise, Stop, RestoreThen
<1>2. ASSUME NEW o, Control(o) \/ SuiteEnds(o) \/ EndControl(o)
      PROVE  Goal
  BY <1>1, <1>2 DEF Control, SuiteEnds, EndControl, Finish, RestoreThen, NextArm, proc
<1>3. ASSUME NEW a \in Arms, BeginArm(a)
      PROVE  Goal
  BY <1>1, <1>3 DEF BeginArm, RestoreThen
<1>4. CASE NeedleMissing \/ CheckRestored \/ Interrupt \/ Terminate \/ Kill
  BY <1>1, <1>4 DEF NeedleMissing, CheckRestored, Interrupt, Terminate, Kill,
     RestoreThen, NextArm, proc
<1>5. CASE EndArms
  BY <1>1, <1>5 DEF EndArms, Finish, RestoreThen, proc
<1>6. CASE Start \/ Recover \/ Gate \/ ReadSnapshot \/ ReadExpected \/ Keep \/ RunSuite
           \/ \E f \in Files : Plant(f) \/ Restore(f)
  BY <1>6 DEF Start, Recover, Gate, ReadSnapshot, ReadExpected, Keep, AfterExpected, RunSuite, Plant,
     Restore, proc
<1>7. CASE Restored
  BY <1>1, <1>7 DEF Restored, NextArm, proc
<1> QED
  BY <1>2, <1>3, <1>4, <1>5, <1>6, <1>7 DEF Step, Suite

LEMMA BaselineStep ==
  ASSUME TypeInv, BaselineInv, [Next]_vars
  PROVE  BaselineInv'
<1>0. D' = D /\ D.owned \in SUBSET Files /\ (Gated' <=> Gated)
  BY SameDriver, DisciplineFacts DEF TypeInv, TypeOK, Gated
<1>1. CASE UNCHANGED vars
  BY <1>0, <1>1 DEF vars, git, proc, BaselineInv, Pristine
<1>2. CASE Agent
  <2>1. ASSUME NEW f \in Files, Edit(f)
        PROVE  BaselineInv'
    <3>1. tree[f] \in Content
      BY DEF TypeInv, TypeOK
    <3>2. \A g \in Files : Pristine(tree[g]) => Pristine(tree'[g])
      BY <2>1, <3>1 DEF Edit, TypeInv, TypeOK, Content, Pristine
    <3> QED
      BY <1>0, <2>1, <3>2 DEF Edit, BaselineInv, Pristine, proc
  <2>2. ASSUME NEW f \in Files, Stage(f), ~tainted'
        PROVE  \A g \in Files : Pristine(index'[g]) /\ Pristine(head'[g])
    BY <2>2 DEF Stage, BaselineInv, Pristine, TypeInv, TypeOK
  <2>3. ASSUME NEW f \in Files, Stage(f)
        PROVE  BaselineInv'
    BY <1>0, <2>2, <2>3 DEF Stage, BaselineInv, proc, Pristine
  <2>4. CASE Commit
    BY <1>0, <2>4 DEF Commit, BaselineInv, proc, Pristine
  <2>5. ASSUME NEW f \in Files, Checkout(f)
        PROVE  BaselineInv'
    BY <1>0, <2>5 DEF Checkout, BaselineInv, git, proc, Pristine, TypeInv, TypeOK
  <2> QED
    BY <1>2, <2>1, <2>3, <2>4, <2>5 DEF Agent
<1>3. CASE ~Agent /\ Next
  <2>1. UNCHANGED <<index, head, tainted>>
    BY <1>3 DEF Next, Step, Suite, Start, Recover, Gate, ReadSnapshot, ReadExpected, Keep, BeginArm,
       Plant, Restore, NeedleMissing, RunSuite, Restored, CheckRestored, EndArms, Control,
       SuiteEnds, EndControl, Interrupt, Terminate, Kill, git
  <2>2. CASE pc \notin Early
    <3>1. pc' = "off" \/ (pc' \notin Early /\ snap' = snap)
      BY <1>3, <2>2, LateSteps DEF Next
    <3> QED
      BY <1>0, <2>1, <2>2, <3>1 DEF BaselineInv, Early, Pristine
  <2>3. CASE pc \in Early /\ ~Gated
    BY <1>0, <2>1, <2>3 DEF BaselineInv, Pristine
  <2>4. CASE pc \in Early /\ Gated /\ ~tainted
    <3>1. CASE pc' = "off"
      BY <1>0, <2>1, <2>4, <3>1 DEF BaselineInv, Early, Pristine
    <3>2. CASE Start \/ Recover
      <4>1. pc' \in {"recover", "gate"}
        BY <2>4, <3>2 DEF Start, Recover, Gated
      <4> QED
        BY <1>0, <2>1, <2>4, <4>1 DEF BaselineInv, Early, Pristine
    <3>3. CASE Gate /\ pc' # "off"
      <4>1. pc' = "read" /\ tree' = tree /\ \A f \in D.owned : AtBaseline(f)
        BY <2>4, <3>3 DEF Gate, Stop, Gated
      <4>2. D.gate \in {"index", "status", "head"}
        <5>1. D \in Disciplines
          BY DisciplineAssumption DEF D, TypeInv, TypeOK
        <5>2. D.gate \in {"none", "index", "status", "head"}
          BY <5>1, Zenon DEF Disciplines
        <5> QED
          BY <2>4, <5>2 DEF Gated
      <4>3. \A f \in D.owned : Pristine(tree[f])
        BY <1>0, <2>4, <4>1, <4>2 DEF AtBaseline, BaselineInv
      <4> QED
        BY <1>0, <2>1, <2>4, <4>1, <4>3 DEF BaselineInv, Early, Pristine
    <3>4. CASE ReadSnapshot
      <4>1. pc = "read" /\ pc' \notin Early /\ snap' = tree
        BY <2>4, <3>4 DEF ReadSnapshot, Early, Gated, AfterRead, AfterExpected
      <4> QED
        BY <1>0, <2>1, <2>4, <4>1 DEF BaselineInv, Early, Pristine
    <3>5. pc' = "off" \/ Start \/ Recover \/ Gate \/ ReadSnapshot
      BY <1>3, <2>4 DEF Early, Next, Step, Suite, ReadExpected, Keep, BeginArm, Plant, Restore, NeedleMissing,
         RunSuite, Restored, CheckRestored, EndArms, Control, SuiteEnds, EndControl, Interrupt,
         Terminate, Kill, Stop, Leave, Guarded, ArmPhase
    <3> QED
      BY <3>1, <3>2, <3>3, <3>4, <3>5
  <2>5. CASE tainted
    BY <2>1, <2>5 DEF BaselineInv
  <2> QED
    BY <2>2, <2>3, <2>4, <2>5
<1> QED
  BY <1>1, <1>2, <1>3

(* A driver that asks git before it reads its files never takes a planted or *)
(* truncated file for its baseline, whatever earlier runs left behind.      *)
THEOREM BaselineIsPristineHolds == Spec => []BaselineIsPristine
<1>1. Init => BaselineInv
  BY ContentFacts DEF Init, BaselineInv, Early
<1>2. BaselineInv => BaselineIsPristine
  BY DEF BaselineInv, BaselineIsPristine, Gated, Early
<1> QED
  BY <1>1, <1>2, BaselineStep, TypeInvariant, PTL DEF Spec

-----------------------------------------------------------------------------
(* Residue.  As long as the other agent stages no damaged file and no        *)
(* process is ended where its script has no cover, one can say at every     *)
(* point of a run which files may be damaged: Damageable.  Whatever ends    *)
(* the run there writes at least these back.                                *)

BeingWritten == {p[1] : p \in writing}

Damageable ==
  IF pc = "recover" THEN BeingWritten
  ELSE IF D.perArm
  THEN IF pc = "plant" THEN (arm.files \ todo) \cup BeingWritten
       ELSE IF pc = "suite" THEN arm.files
       ELSE IF pc = "restore" THEN todo ELSE {}
  ELSE IF pc = "restore" /\ way \in {"exit", "plant"} THEN todo
       ELSE IF pc \in ArmPhase \cup {"arms", "endcontrol"} THEN D.owned ELSE {}

Sources ==
  \A f \in Files : Pristine(index[f]) /\ Pristine(head[f]) /\ Pristine(snap[f])

Copies ==
  \A f \in Files : \/ kept[f] = NoCopy \/ Pristine(kept[f])
                   \/ pc = "keep" /\ f \in todo /\ kept[f] = Torn

Damage == \A f \in Files : Pristine(tree[f]) \/ f \in Damageable

(* The write loops: what they have to do is owned, one file is truncated at  *)
(* a time, and what is being written back is pristine.                      *)
Loops ==
  /\ pc \in {"recover", "keep"} => D.keep # "no"
  /\ pc = "recover" => \A f \in todo : kept[f] # NoCopy
  /\ pc = "plant" => todo \subseteq arm.files
  /\ arm.files \subseteq D.owned /\ todo \subseteq D.owned
  /\ \A p \in writing : p[1] \in todo /\ (pc \in {"recover", "restore"} => Pristine(p[2]))
  /\ \A p, q \in writing : p = q
  /\ writing # {} => \/ pc \in {"recover", "restore"} /\ D.tornRestore
                     \/ pc = "plant" /\ D.tornPlant

Sound == Sources /\ Copies /\ Damage /\ Loops
ResidueInv == tainted \/ uncovered \/ Sound

LEMMA RestoringFacts ==
  ASSUME TypeInv, Restoring
  PROVE  /\ D.owned \in SUBSET Files
         /\ \A a \in D.arms : a.files \subseteq D.owned
         /\ D.perArm \/ D.runFinally
         /\ D.onTerm => D.runFinally /\ D.keep = "no"
BY DisciplineFacts DEF Restoring, TypeInv, TypeOK, D

(* Only owned files are ever damaged. *)
LEMMA DamageOwned ==
  ASSUME Sound
  PROVE  Damageable \subseteq D.owned
BY DEF Sound, Loops, Damageable, BeingWritten

(* What remains to be shown of a step that touches no file. *)
LEMMA StillSound ==
  ASSUME Sound, UNCHANGED <<tree, index, head>>,
         (kept' = kept /\ pc # "keep") \/ Drop,
         \A f \in Files : Pristine(snap'[f]),
         \A f \in Files : Pristine(tree[f]) \/ f \in Damageable',
         Loops'
  PROVE  Sound'
<1>1. Sources'
  BY DEF Sound, Sources, Pristine
<1>2. Copies'
  BY DEF Sound, Copies, Pristine, Drop
<1>3. Damage'
  BY DEF Damage, Pristine
<1> QED
  BY <1>1, <1>2, <1>3 DEF Sound

(* A process may end where no file is damaged. *)
LEMMA StopSound ==
  ASSUME TypeInv, Sound, Restoring, D' = D, NEW kind, Stop(kind), UNCHANGED <<tree, index, head>>,
         (kept' = kept /\ pc # "keep") \/ Drop,
         \A f \in Files : Pristine(tree[f])
  PROVE  Sound'
<1>1. Loops'
  BY DEF Stop, Loops, NoArm
<1>2. \A f \in Files : Pristine(snap'[f])
  BY ContentFacts DEF Stop
<1> QED
  BY <1>1, <1>2, StillSound

(* A restore over at least the damaged files. *)
LEMMA RestoreSound ==
  ASSUME TypeInv, Sound, Restoring, D' = D, NEW next \in {"arm", "skip", "plant", "endcontrol", "exit"},
         NEW files \in SUBSET D.owned, RestoreThen(next, files), snap' = snap,
         arm' = arm \/ arm' \in D.arms, UNCHANGED <<tree, index, head>>,
         (kept' = kept /\ pc # "keep") \/ Drop,
         \A f \in Files : Pristine(tree[f]) \/ f \in files
  PROVE  Sound'
<1>1. todo' \subseteq D.owned /\ arm'.files \subseteq D.owned
  BY RestoringFacts DEF RestoreThen, Sound, Loops
<1>2. Loops'
  BY <1>1 DEF RestoreThen, Loops
<1>3. \A f \in Files : Pristine(snap[f])
  BY DEF Sound, Sources
<1>4. \A f \in Files : Pristine(tree[f]) \/ f \in todo'
  BY <1>3 DEF RestoreThen
<1>5. \A f \in Files : Pristine(tree[f]) \/ f \in Damageable'
  BY <1>1, <1>4 DEF RestoreThen, Damageable, ArmPhase
<1> QED
  BY <1>2, <1>3, <1>5, StillSound

(* Outside the arms nothing is damaged, or every way out writes back.       *)
LEMMA LeaveSound ==
  ASSUME TypeInv, Sound, Restoring, D' = D, NEW kind, Leave(kind),
         pc \in {"gate", "read", "expect", "control", "arms", "endcontrol", "check"},
         UNCHANGED <<tree, index, head>>, kept' = kept \/ Drop
  PROVE  Sound'
<1>1. CASE D.runFinally /\ Guarded
  <2>1. RestoreThen("exit", D.owned) /\ snap' = snap /\ arm' = arm
    BY <1>1 DEF Leave
  <2>2. \A f \in Files : Pristine(tree[f]) \/ f \in D.owned
    BY DamageOwned DEF Sound, Damage
  <2> QED
    BY <2>1, <2>2, RestoreSound
<1>2. CASE ~(D.runFinally /\ Guarded)
  <2>1. Damageable = {}
    BY <1>2, RestoringFacts DEF Guarded, ArmPhase, Damageable
  <2>2. \A f \in Files : Pristine(tree[f])
    BY <2>1 DEF Sound, Damage
  <2> QED
    BY <1>2, <2>2, StopSound DEF Leave
<1> QED
  BY <1>1, <1>2

(* Inside an arm, the finally block of the arm or of the run writes back.   *)
LEMMA RaiseSound ==
  ASSUME TypeInv, Sound, Restoring, D' = D, Raise("exception"),
         pc \in {"plant", "suite", "check"} \/ (pc = "restore" /\ D.runFinally),
         UNCHANGED <<tree, index, head, kept>>
  PROVE  uncovered' \/ Sound'
<1> USE RestoringFacts
<1>1. CASE D.runFinally
  <2>1. RestoreThen("exit", D.owned) /\ snap' = snap /\ arm' = arm
    BY <1>1 DEF Raise, Leave, Guarded, ArmPhase
  <2>2. \A f \in Files : Pristine(tree[f]) \/ f \in D.owned
    BY DamageOwned DEF Sound, Damage
  <2> QED
    BY <2>1, <2>2, RestoreSound
<1>2. CASE D.armFinally /\ ~D.runFinally
  <2>1. RestoreThen("exit", Scope) /\ snap' = snap /\ arm' = arm
    BY <1>2 DEF Raise
  <2>2. arm.files \subseteq D.owned /\ Scope \subseteq D.owned /\ arm.files \subseteq Scope
    BY DEF Sound, Loops, Scope
  <2>3. Damageable \subseteq arm.files
    BY <1>2 DEF Damageable, BeingWritten, Sound, Loops
  <2>4. \A f \in Files : Pristine(tree[f]) \/ f \in Scope
    BY <2>2, <2>3 DEF Sound, Damage
  <2> QED
    BY <1>2, <2>1, <2>2, <2>4, RestoreSound
<1>3. CASE ~D.armFinally /\ ~D.runFinally
  BY <1>3 DEF Raise, Leave, Stop, Uncovered
<1> QED
  BY <1>1, <1>2, <1>3

(* The restore of an arm. *)
LEMMA ArmRestoreSound ==
  ASSUME TypeInv, Sound, Restoring, D' = D, NEW next \in {"arm", "skip"},
         RestoreThen(next, Scope), pc \in {"plant", "suite"},
         UNCHANGED <<tree, index, head, kept, snap, arm>>
  PROVE  Sound'
<1>1. arm.files \subseteq D.owned /\ Scope \subseteq D.owned /\ arm.files \subseteq Scope
  BY DEF Sound, Loops, Scope
<1>2. CASE D.perArm
  <2>1. Damageable \subseteq arm.files
    BY <1>2 DEF Damageable, BeingWritten, Sound, Loops
  <2>2. \A f \in Files : Pristine(tree[f]) \/ f \in Scope
    BY <1>1, <2>1 DEF Sound, Damage
  <2> QED
    BY <1>1, <2>2, RestoreSound
<1>3. CASE ~D.perArm
  <2>1. Loops'
    BY <1>1 DEF RestoreThen, Sound, Loops
  <2>2. \A f \in Files : Pristine(tree[f]) \/ f \in Damageable'
    BY <1>3, DamageOwned DEF Sound, Damage, RestoreThen, Damageable, ArmPhase
  <2>3. \A f \in Files : Pristine(snap'[f])
    BY DEF Sound, Sources
  <2> QED
    BY <2>1, <2>2, <2>3, StillSound
<1> QED
  BY <1>2, <1>3

(* Writing pristine bytes back, in one step or two. *)
LEMMA WriteBackSound ==
  ASSUME TypeInv, Sound, D' = D, NEW f \in todo, NEW c, Pristine(c),
         Write(f, c, D.tornRestore), pc \in {"recover", "restore"},
         UNCHANGED <<pc, index, head, snap, kept, arm, way>>
  PROVE  Sound'
<1>0. f \in Files /\ tree \in [Files -> Content] /\ todo \subseteq Files
  BY DEF TypeInv, TypeOK
<1>1. Loops
  BY DEF Sound
<1>2. Sources' /\ Copies'
  BY DEF Sound, Sources, Copies, Pristine
<1>3. CASE D.tornRestore /\ writing = {} /\ tree' = [tree EXCEPT ![f] = Torn]
           /\ writing' = {<<f, c>>} /\ todo' = todo
  <2>1. Loops'
    BY <1>1, <1>3 DEF Loops, Pristine
  <2>2. f \in BeingWritten' /\ BeingWritten = {}
    BY <1>3 DEF BeingWritten
  <2>3. f \in Damageable' /\ Damageable \subseteq Damageable'
    BY <1>1, <1>3, <2>2 DEF Damageable, Loops, ArmPhase
  <2>4. Damage'
    BY <1>0, <1>3, <2>3 DEF Sound, Damage, Pristine
  <2> QED
    BY <1>2, <2>1, <2>4 DEF Sound
<1>4. CASE /\ \A p \in writing : p[1] = f
           /\ \E b : Pristine(b) /\ tree' = [tree EXCEPT ![f] = b]
           /\ todo' = todo \ {f} /\ writing' = {}
  <2>1. Loops'
    BY <1>1, <1>4 DEF Loops
  <2>2. BeingWritten \subseteq {f}
    BY <1>4 DEF BeingWritten
  <2>3. Damageable \subseteq Damageable' \cup {f}
    BY <1>4, <2>2 DEF Damageable
  <2>4. Pristine(tree'[f]) /\ \A g \in Files \ {f} : tree'[g] = tree[g]
    BY <1>0, <1>4
  <2>5. Damage'
    BY <2>3, <2>4 DEF Sound, Damage, Pristine
  <2> QED
    BY <1>2, <2>1, <2>5 DEF Sound
<1>5. writing = {} \/ \E p \in writing : p[1] = f /\ Write(f, c, D.tornRestore)
  BY <1>1 DEF Write, Loops
<1> QED
  <2>1. \A p \in writing : Pristine(p[2]) /\ \A q \in writing : p = q
    BY <1>1 DEF Loops
  <2>2. writing # {} => D.tornRestore
    BY <1>1 DEF Loops
  <2> QED
    BY <1>3, <1>4, <2>1, <2>2 DEF Write

(* Planting damages files of the arm, and only those. *)
LEMMA PlantSound ==
  ASSUME TypeInv, Sound, D' = D, NEW f \in todo, NEW c,
         Write(f, c, D.tornPlant), pc = "plant",
         UNCHANGED <<pc, index, head, snap, kept, arm, way>>
  PROVE  Sound'
<1>0. f \in Files /\ tree \in [Files -> Content]
  BY DEF TypeInv, TypeOK
<1>1. Loops /\ f \in arm.files /\ f \in D.owned
  BY DEF Sound, Loops
<1>2. Sources' /\ Copies'
  BY DEF Sound, Sources, Copies, Pristine
<1>3. \A g \in Files \ {f} : tree'[g] = tree[g]
  BY <1>0 DEF Write
<1>4. CASE D.tornPlant /\ writing = {} /\ writing' = {<<f, c>>} /\ todo' = todo
  <2>1. Loops'
    BY <1>1, <1>4 DEF Loops
  <2>2. f \in BeingWritten' /\ BeingWritten = {}
    BY <1>4 DEF BeingWritten
  <2>3. f \in Damageable' /\ Damageable \subseteq Damageable'
    BY <1>1, <1>4, <2>2 DEF Damageable, ArmPhase
  <2> QED
    BY <1>2, <1>3, <2>1, <2>3 DEF Sound, Damage, Pristine
<1>5. CASE (\A p \in writing : p[1] = f) /\ todo' = todo \ {f} /\ writing' = {}
  <2>1. Loops'
    BY <1>1, <1>5 DEF Loops
  <2>2. BeingWritten \subseteq {f}
    BY <1>5 DEF BeingWritten
  <2>3. f \in Damageable' /\ Damageable \subseteq Damageable'
    BY <1>1, <1>5, <2>2 DEF Damageable, ArmPhase
  <2> QED
    BY <1>2, <1>3, <2>1, <2>3 DEF Sound, Damage, Pristine
<1> QED
  <2>1. \A p, q \in writing : p = q
    BY <1>1 DEF Loops
  <2>2. writing # {} => D.tornPlant
    BY <1>1 DEF Loops
  <2> QED
    BY <1>4, <1>5, <2>1, <2>2 DEF Write

(* The other agent damages no file, and while it stages none that is damaged *)
(* git stays pristine.                                                      *)
LEMMA AgentSound ==
  ASSUME TypeInv, Sound, D' = D, Agent
  PROVE  tainted' \/ Sound'
<1>0. /\ tree \in [Files -> Content] /\ index \in [Files -> Content]
      /\ \A f \in Files : Pristine(index[f]) /\ Pristine(head[f])
  BY DEF TypeInv, TypeOK, Sound, Sources
<1>1. UNCHANGED <<pc, proc, kept, todo, writing>>
  BY DEF Agent, Edit, Stage, Commit, Checkout
<1>2. Damageable' = Damageable /\ Loops' /\ Copies'
  BY <1>1 DEF Damageable, BeingWritten, Sound, Loops, Copies, Pristine, proc
<1>3. ASSUME NEW f \in Files, Edit(f)
      PROVE  Sound'
  <2>1. \A g \in Files : Pristine(tree[g]) => Pristine(tree'[g])
    <3>1. tree[f] \in Content
      BY <1>0
    <3> QED
      BY <1>0, <1>3, <3>1 DEF Edit, Content, Pristine
  <2>2. Sources'
    BY <1>1, <1>3 DEF Edit, Sound, Sources, Pristine, proc
  <2> QED
    BY <1>2, <2>1, <2>2 DEF Sound, Damage
<1>4. ASSUME NEW f \in Files, Stage(f), ~tainted'
      PROVE  Sound'
  <2>1. Sources'
    BY <1>0, <1>1, <1>4 DEF Stage, Sound, Sources, Pristine, proc
  <2>2. tree' = tree
    BY <1>4 DEF Stage
  <2> QED
    BY <1>2, <2>1, <2>2 DEF Sound, Damage, Pristine
<1>5. CASE Commit
  BY <1>0, <1>1, <1>2, <1>5 DEF Commit, Sound, Sources, Damage, Pristine, proc
<1>6. ASSUME NEW f \in Files, Checkout(f)
      PROVE  Sound'
  BY <1>0, <1>1, <1>2, <1>6 DEF Checkout, Sound, Sources, Damage, Pristine, proc, git
<1> QED
  BY <1>3, <1>4, <1>5, <1>6 DEF Agent

(* The start of a run, up to the arms. *)
LEMMA StartSound ==
  ASSUME TypeInv, Sound, Restoring, D' = D, Start \/ Recover \/ Gate \/ ReadSnapshot \/ ReadExpected \/ Keep
  PROVE  Sound'
<1> USE RestoringFacts
<1>0. Loops /\ Copies /\ Damage /\ Sources
  BY DEF Sound
<1>1. CASE Start
  <2>1. pc' \in {"recover", "gate", "read"} /\ (pc' = "recover" => D.keep # "no") /\ writing = {}
    BY <1>0, <1>1 DEF Start, Loops
  <2>2. Loops'
    BY <1>0, <1>1, <2>1 DEF Start, Loops
  <2>3. Damageable = {}
    BY <1>1 DEF Start, Damageable, ArmPhase
  <2>4. \A f \in Files : Pristine(snap'[f])
    BY <1>0, <1>1 DEF Start, Sources
  <2> QED
    BY <1>0, <1>1, <2>2, <2>3, <2>4, StillSound DEF Start, git, Damage
<1>2. CASE Recover
  <2>1. ASSUME NEW f \in todo, Write(f, kept[f], D.tornRestore), UNCHANGED <<pc, kept>>
        PROVE  Sound'
    <3>1. Pristine(kept[f])
      BY <1>0, <1>2 DEF Recover, Loops, Copies, TypeInv, TypeOK
    <3> QED
      BY <1>2, <2>1, <3>1, WriteBackSound DEF Recover, git, proc
  <2>2. CASE todo = {} /\ Drop
    <3>1. writing = {} /\ Damageable = {}
      BY <1>0, <1>2, <2>2 DEF Recover, Loops, Damageable, BeingWritten
    <3>2. pc' \in {"gate", "read"} /\ UNCHANGED <<tree, todo, writing, index, head, snap, arm>>
      BY <1>2, <2>2 DEF Recover, git, proc
    <3>3. Loops'
      BY <1>0, <3>1, <3>2 DEF Loops
    <3>4. \A f \in Files : Pristine(snap'[f])
      BY <1>0, <3>2 DEF Sources
    <3> QED
      BY <1>0, <2>2, <3>1, <3>2, <3>3, <3>4, StillSound DEF Damage
  <2> QED
    BY <1>2, <2>1, <2>2 DEF Recover
<1>3. CASE Gate
  <2>1. \A f \in Files : Pristine(tree[f])
    BY <1>0, <1>3 DEF Gate, Damage, Damageable, ArmPhase
  <2>2. CASE Stop("fail")
    BY <1>3, <2>1, <2>2, StopSound DEF Gate, git
  <2>3. CASE pc' \in {"read", AfterRead} /\ UNCHANGED <<snap, arm, todo, writing>>
    <3>1. writing = {} /\ pc' \in {"read", "expect", "keep", "arms", "control"} /\ (pc' = "keep" => D.keep # "no")
      BY <1>0, <1>3, <2>3 DEF Gate, Loops, AfterRead, AfterExpected
    <3>2. Loops'
      BY <1>0, <2>3, <3>1 DEF Loops
    <3>3. \A f \in Files : Pristine(snap'[f])
      BY <1>0, <2>3 DEF Sources
    <3> QED
      BY <1>3, <2>1, <3>2, <3>3, StillSound DEF Gate, git
  <2> QED
    BY <1>3, <2>2, <2>3 DEF Gate
<1>4. CASE ReadSnapshot \/ ReadExpected
  <2>1. \A f \in Files : Pristine(tree[f])
    BY <1>0, <1>4 DEF ReadSnapshot, ReadExpected, Damage, Damageable, ArmPhase
  <2>2. writing = {} /\ pc' \in {"gate", "expect", "keep", "arms", "control"} /\ (pc' = "keep" => D.keep # "no")
    BY <1>0, <1>4 DEF ReadSnapshot, ReadExpected, Loops, AfterRead, AfterExpected
  <2>3. Loops'
    BY <1>0, <1>4, <2>2 DEF ReadSnapshot, ReadExpected, Loops
  <2>4. snap' \in {tree, snap} /\ pc \in {"read", "expect"} /\ UNCHANGED <<tree, index, head, kept>>
    BY <1>4 DEF ReadSnapshot, ReadExpected, git
  <2>5. \A f \in Files : Pristine(snap'[f])
    BY <1>0, <2>1, <2>4 DEF Sources
  <2> QED
    BY <2>1, <2>3, <2>4, <2>5, StillSound
<1>5. CASE Keep
  <2>1. \A f \in Files : Pristine(tree[f])
    BY <1>0, <1>5 DEF Keep, Damage, Damageable, ArmPhase
  <2>2. writing = {} /\ pc' \in {"keep", "arms", "control"} /\ D.keep # "no"
    BY <1>0, <1>5 DEF Keep, Loops
  <2>3. todo' \subseteq todo /\ UNCHANGED <<tree, index, head, snap, arm, writing>>
    BY <1>5 DEF Keep, git, proc
  <2>4. Loops'
    BY <1>0, <2>2, <2>3 DEF Loops
  <2>5. Copies'
    <3>1. ASSUME NEW f \in todo, kept' = [kept EXCEPT ![f] = snap[f]], todo' = todo \ {f}, pc' = pc
          PROVE  Copies'
      BY <1>0, <1>5, <3>1 DEF Copies, Sources, Pristine, TypeInv, TypeOK
    <3>2. ASSUME NEW f \in todo, kept' = [kept EXCEPT ![f] = Torn], todo' = todo, pc' = pc
          PROVE  Copies'
      BY <1>0, <1>5, <3>2 DEF Keep, Copies, Pristine, TypeInv, TypeOK
    <3>3. CASE todo = {} /\ kept' = kept
      BY <1>0, <3>3 DEF Copies, Pristine
    <3> QED
      BY <1>5, <3>1, <3>2, <3>3 DEF Keep
  <2>6. Sources' /\ Damage'
    BY <1>0, <2>1, <2>3 DEF Sources, Damage, Pristine
  <2> QED
    BY <2>4, <2>5, <2>6 DEF Sound
<1> QED
  BY <1>1, <1>2, <1>3, <1>4, <1>5

(* The controls and the end of a run. *)
LEMMA ControlSound ==
  ASSUME TypeInv, Sound, Restoring, D' = D, NEW o, Control(o) \/ EndControl(o) \/ EndArms
  PROVE  Sound'
<1> USE RestoringFacts
<1>0. Loops /\ Copies /\ Damage /\ Sources /\ UNCHANGED <<tree, index, head>>
  BY DEF Sound, Control, EndControl, EndArms, git
<1>1. pc \in {"control", "arms", "endcontrol"} /\ writing = {}
  BY <1>0 DEF Control, EndControl, EndArms, Loops
<1>2. CASE (\E kind : Leave(kind)) /\ (kept' = kept \/ Drop)
  BY <1>0, <1>1, <1>2, LeaveSound
<1>3. ASSUME NEW next \in {"endcontrol", "exit"}, RestoreThen(next, D.owned), UNCHANGED <<snap, arm, kept>>
      PROVE  Sound'
  BY <1>0, <1>1, <1>3, DamageOwned, RestoreSound DEF Damage
<1>4. CASE UNCHANGED <<proc, todo, writing, kept>> /\ pc' \in {"keep", "arms", "endcontrol"}
           /\ (pc' = "keep" => D.keep # "no" /\ pc = "control")
  <2>1. Loops'
    BY <1>0, <1>1, <1>4 DEF Loops, proc
  <2>2. Damageable \subseteq Damageable'
    BY <1>1, <1>4 DEF Damageable, ArmPhase
  <2>3. \A f \in Files : Pristine(snap'[f])
    BY <1>0, <1>4 DEF Sources, proc
  <2>4. \A f \in Files : Pristine(tree[f]) \/ f \in Damageable'
    BY <1>0, <2>2 DEF Damage
  <2> QED
    BY <1>0, <1>1, <1>4, <2>1, <2>3, <2>4, StillSound
<1> QED
  BY <1>2, <1>3, <1>4 DEF Control, EndControl, EndArms, Finish

(* The beginning of an arm. *)
LEMMA BeginArmSound ==
  ASSUME TypeInv, Sound, Restoring, D' = D, NEW a \in Arms, BeginArm(a)
  PROVE  Sound'
<1> USE RestoringFacts
<1>0. /\ Loops /\ Damage /\ Sources /\ UNCHANGED <<tree, index, head, kept>>
      /\ pc = "arms" /\ a.files \subseteq D.owned /\ writing = {}
  BY DEF Sound, BeginArm, git, Loops
<1>1. CASE Leave("fail")
  BY <1>0, <1>1, LeaveSound
<1>2. CASE RestoreThen("exit", D.owned) /\ UNCHANGED <<snap, arm>>
  BY <1>0, <1>2, DamageOwned, RestoreSound DEF Damage
<1>3. CASE RestoreThen("plant", D.owned) /\ arm' = a /\ snap' = snap
  <2>1. a \in D.arms
    BY DEF BeginArm
  <2> QED
    BY <1>0, <1>3, <2>1, DamageOwned, RestoreSound DEF Damage
<1>4. CASE pc' = "plant" /\ todo' = a.files /\ arm' = a /\ UNCHANGED <<snap, writing>>
  <2>1. Loops'
    BY <1>0, <1>4 DEF Loops
  <2>2. Damageable \subseteq Damageable'
    BY <1>0, <1>4 DEF Damageable, ArmPhase
  <2>3. \A f \in Files : Pristine(snap'[f])
    BY <1>0, <1>4 DEF Sources
  <2>4. \A f \in Files : Pristine(tree[f]) \/ f \in Damageable'
    BY <1>0, <2>2 DEF Damage
  <2> QED
    BY <1>0, <2>1, <2>3, <2>4, StillSound
<1> QED
  BY <1>1, <1>2, <1>3, <1>4 DEF BeginArm

(* The next arm begins where the last one left no damage. *)
LEMMA NextArmSound ==
  ASSUME TypeInv, Sound, Restoring, D' = D, NextArm,
         UNCHANGED <<tree, index, head, kept, snap>>,
         pc \in ArmPhase, writing' = {}, todo' \subseteq todo,
         ~D.perArm \/ \A f \in Files : Pristine(tree[f])
  PROVE  Sound'
<1>1. Loops'
  BY DEF NextArm, Sound, Loops, NoArm
<1>2. \A f \in Files : Pristine(tree[f]) \/ f \in Damageable'
  BY DamageOwned DEF Sound, Damage, NextArm, Damageable
<1>3. pc # "keep" /\ \A f \in Files : Pristine(snap'[f])
  BY DEF Sound, Sources, ArmPhase
<1> QED
  BY <1>1, <1>2, <1>3, StillSound

LEMMA NeedleSound ==
  ASSUME TypeInv, Sound, Restoring, D' = D, NeedleMissing
  PROVE  uncovered' \/ Sound'
<1> USE RestoringFacts
<1>0. /\ Loops /\ Damage /\ Sources /\ UNCHANGED <<tree, index, head, kept>>
      /\ pc = "plant" /\ writing = {} /\ BeingWritten = {}
  BY DEF Sound, NeedleMissing, git, BeingWritten
<1>1. CASE Raise("exception")
  BY <1>0, <1>1, RaiseSound
<1>2. CASE RestoreThen(Unscored, Scope) /\ UNCHANGED <<snap, arm>>
  BY <1>0, <1>2, ArmRestoreSound DEF Unscored
<1>3. CASE todo = arm.files /\ NextArm /\ todo' = {} /\ UNCHANGED <<snap, writing>>
  <2>1. D.perArm => Damageable = {}
    BY <1>0, <1>3 DEF Damageable
  <2> QED
    BY <1>0, <1>3, <2>1, NextArmSound DEF Damage, ArmPhase
<1> QED
  BY <1>1, <1>2, <1>3 DEF NeedleMissing

LEMMA SuiteSound ==
  ASSUME TypeInv, Sound, Restoring, D' = D, RunSuite \/ \E o \in Outcomes : SuiteEnds(o)
  PROVE  uncovered' \/ Sound'
<1> USE RestoringFacts
<1>0. /\ Loops /\ Damage /\ Sources /\ UNCHANGED <<tree, index, head, kept>>
      /\ pc \in {"plant", "suite"}
  BY DEF Sound, RunSuite, SuiteEnds, git
<1>1. CASE RunSuite
  <2>1. writing = {} /\ todo = {} /\ BeingWritten = {}
    BY <1>0, <1>1 DEF RunSuite, Loops, BeingWritten
  <2>2. Loops'
    BY <1>0, <1>1, <2>1 DEF RunSuite, Loops, proc
  <2>3. Damageable' = Damageable
    BY <1>1, <2>1 DEF RunSuite, Damageable, ArmPhase, proc
  <2>4. \A f \in Files : Pristine(snap'[f])
    BY <1>0, <1>1 DEF RunSuite, Sources, proc
  <2> QED
    BY <1>0, <2>2, <2>3, <2>4, StillSound DEF Damage
<1>2. CASE pc = "suite" /\ Raise("exception")
  BY <1>0, <1>2, RaiseSound
<1>3. CASE (\E next \in {"arm", "skip"} : RestoreThen(next, Scope)) /\ UNCHANGED <<snap, arm>>
  BY <1>0, <1>3, ArmRestoreSound
<1>4. CASE pc = "suite" /\ ~D.perArm /\ NextArm /\ UNCHANGED <<snap, todo, writing>>
  <2>1. writing = {}
    BY <1>0, <1>4 DEF Loops
  <2> QED
    BY <1>0, <1>4, <2>1, NextArmSound DEF ArmPhase
<1> QED
  BY <1>1, <1>2, <1>3, <1>4 DEF SuiteEnds, Unscored

LEMMA RestoredSound ==
  ASSUME TypeInv, Sound, Restoring, D' = D, Restored \/ CheckRestored
  PROVE  uncovered' \/ Sound'
<1> USE RestoringFacts
<1>0. /\ Loops /\ Damage /\ Sources /\ UNCHANGED <<tree, index, head>>
      /\ pc \in {"restore", "check"} /\ writing = {}
  BY DEF Sound, Restored, CheckRestored, git, Loops
<1>1. ~(~D.perArm /\ (way \in {"arm", "skip", "endcontrol"} \/ pc = "check")) => Damageable = {}
  BY <1>0 DEF Restored, CheckRestored, Damageable, ArmPhase, TypeInv, TypeOK
<1>2. CASE Restored /\ way = "exit"
  <2>1. Damageable = {} /\ pc = "restore"
    BY <1>1, <1>2 DEF Restored
  <2>2. \E kind : Stop(kind)
    BY <1>2 DEF Restored
  <2>3. kept' = kept \/ kept' = [f \in Files |-> NoCopy]
    BY <1>2 DEF Restored, Drop
  <2> QED
    BY <1>0, <2>1, <2>2, <2>3, StopSound DEF Damage, Drop
<1>7. CASE Restored /\ way = "endcontrol" /\ pc' = "endcontrol"
  <2>1. UNCHANGED <<snap, arm, writing, kept, todo>> /\ pc = "restore"
    BY <1>7 DEF Restored, proc
  <2>2. Loops'
    BY <1>0, <1>7, <2>1 DEF Loops
  <2>3. Damageable \subseteq Damageable'
    BY <1>0, <1>1, <1>7, <2>1 DEF Damageable, ArmPhase
  <2>4. \A f \in Files : Pristine(snap'[f])
    BY <1>0, <2>1 DEF Sources
  <2> QED
    BY <1>0, <1>7, <2>1, <2>2, <2>3, <2>4, StillSound DEF Damage
<1>3. CASE Restored /\ way = "plant"
  <2>1. /\ pc' = "plant" /\ todo' = arm.files /\ UNCHANGED <<snap, expect, arm, writing, kept>>
    BY <1>3 DEF Restored, proc
  <2>0. Damageable = {} /\ pc = "restore"
    BY <1>1, <1>3 DEF Restored
  <2>2. Loops'
    BY <1>0, <2>1 DEF Loops
  <2>3. \A f \in Files : Pristine(snap'[f])
    BY <1>0, <2>1 DEF Sources
  <2> QED
    BY <1>0, <2>0, <2>1, <2>2, <2>3, StillSound DEF Damage
<1>4. CASE Restored /\ way \in {"arm", "skip"} /\ pc' = "check"
  <2>1. UNCHANGED <<snap, expect, arm, writing, kept, todo>> /\ pc = "restore"
    BY <1>4 DEF Restored, NextArm
  <2>2. Loops'
    BY <1>0, <1>4, <2>1 DEF Loops
  <2>3. Damageable \subseteq Damageable'
    BY <1>1, <1>4, <2>1, DamageOwned DEF Damageable, ArmPhase
  <2>4. \A f \in Files : Pristine(snap'[f])
    BY <1>0, <2>1 DEF Sources
  <2> QED
    BY <1>0, <2>1, <2>2, <2>3, <2>4, StillSound DEF Damage
<1>5. CASE NextArm /\ UNCHANGED <<snap, todo, writing, kept>> /\ (Restored => way \in {"arm", "skip"})
  BY <1>0, <1>1, <1>5, NextArmSound DEF ArmPhase, Damage
<1>6. CASE CheckRestored /\ Leave("fail")
  BY <1>0, <1>6, LeaveSound DEF CheckRestored
<1> QED
  BY <1>2, <1>3, <1>4, <1>5, <1>6, <1>7 DEF Restored, CheckRestored, TypeInv, TypeOK

LEMMA SignalSound ==
  ASSUME TypeInv, Sound, Restoring, D' = D, Interrupt \/ Terminate \/ Kill
  PROVE  uncovered' \/ Sound'
<1> USE RestoringFacts
<1>0. /\ Loops /\ Damage /\ Sources /\ UNCHANGED <<tree, index, head, kept>>
      /\ pc # "off" /\ pc \in PCs
  BY DEF Sound, Interrupt, Terminate, Kill, git, TypeInv, TypeOK
<1>1. CASE Stop("interrupted") \/ Stop("kill") \/ (Stop("term") /\ ~D.onTerm)
  BY <1>1 DEF Stop, Uncovered
<1>2. CASE Interrupt /\ ~Stop("interrupted")
  <2>1. CASE pc \in ArmPhase
    <3>1. pc \in {"plant", "suite", "check"} \/ (pc = "restore" /\ D.runFinally)
      BY <1>2, <2>1 DEF Interrupt, ArmPhase
    <3> QED
      BY <1>0, <1>2, <2>1, <3>1, RaiseSound DEF Interrupt, ArmPhase
  <2>2. CASE pc \notin ArmPhase
    <3>1. pc \in {"gate", "read", "expect", "control", "arms", "endcontrol"}
      BY <1>0, <1>2, <2>2, PhaseFacts DEF Interrupt, ArmPhase
    <3> QED
      BY <1>0, <1>2, <2>2, <3>1, LeaveSound DEF Interrupt, ArmPhase
  <2> QED
    BY <2>1, <2>2
<1>3. CASE D.onTerm /\ ~Guarded /\ Stop("term")
  <2>1. Damageable = {} /\ pc # "keep"
    BY <1>0, <1>3, PhaseFacts DEF Loops, Guarded, ArmPhase, Damageable
  <2> QED
    BY <1>0, <1>3, <2>1, StopSound DEF Damage
<1>4. CASE D.onTerm /\ Guarded /\ Leave("term")
  <2>1. RestoreThen("exit", D.owned) /\ snap' = snap /\ arm' = arm
    BY <1>4 DEF Leave
  <2>2. pc # "keep"
    BY <1>4 DEF Guarded, ArmPhase
  <2> QED
    BY <1>0, <2>1, <2>2, DamageOwned, RestoreSound DEF Damage
<1> QED
  BY <1>1, <1>2, <1>3, <1>4 DEF Terminate, Kill

LEMMA ResidueStep ==
  ASSUME TypeInv, ResidueInv, Restoring, [Next]_vars
  PROVE  ResidueInv'
<1>0. D' = D
  BY SameDriver
<1>1. (tainted => tainted') /\ (uncovered => uncovered')
  <2> USE DEF vars, git, Commit, Edit, Stage, Checkout, Start, Recover, Gate, ReadSnapshot, ReadExpected, Keep,
          BeginArm, Plant, Restore, NeedleMissing, RunSuite, Restored, CheckRestored, EndArms,
          Control, SuiteEnds, EndControl, Interrupt, Terminate, Kill, Finish
  <2>1. ASSUME NEW kind, Stop(kind) \/ Leave(kind) \/ Raise(kind)
        PROVE  uncovered => uncovered'
    BY <2>1 DEF Stop, Leave, Raise
  <2>2. CASE Agent \/ UNCHANGED vars
    <3>1. uncovered' = uncovered
      BY <2>2 DEF Agent
    <3>2. ASSUME NEW f \in Files, Stage(f)
          PROVE  tainted => tainted'
      BY <3>2, Zenon
    <3>3. tainted' = tainted \/ \E f \in Files : Stage(f)
      BY <2>2 DEF Agent
    <3> QED
      BY <3>1, <3>2, <3>3
  <2>3. CASE Start \/ Step \/ Suite \/ Interrupt \/ Terminate \/ Kill
    <3>1. tainted' = tainted
      BY <2>3 DEF Step, Suite
    <3>2. (\E kind : Stop(kind) \/ Leave(kind) \/ Raise(kind)) \/ uncovered' = uncovered
      BY <2>3 DEF Step, Suite
    <3> QED
      BY <2>1, <3>1, <3>2
  <2> QED
    BY <2>2, <2>3 DEF Next
<1>2. CASE Sound
  <2>1. CASE UNCHANGED vars
    <3>1. UNCHANGED <<pc, tree, index, head, snap, kept, arm, way, todo, writing>>
      BY <2>1 DEF vars, git, proc
    <3>2. Damageable' = Damageable
      BY <1>0, <3>1 DEF Damageable, BeingWritten
    <3>3. Loops' /\ Sources' /\ Copies' /\ Damage'
      BY <1>0, <1>2, <3>1, <3>2 DEF Sound, Sources, Copies, Damage, Loops, Pristine
    <3> QED
      BY <3>3 DEF Sound, ResidueInv
  <2>2. ASSUME NEW f \in Files, Plant(f)
        PROVE  Sound'
    BY <1>0, <1>2, <2>2, PlantSound DEF Plant, git, proc
  <2>3. ASSUME NEW f \in Files, Restore(f)
        PROVE  Sound'
    <3>1. Pristine(index[f]) /\ Pristine(snap[f])
      BY <1>2 DEF Sound, Sources
    <3> QED
      BY <1>0, <1>2, <2>3, <3>1, WriteBackSound DEF Restore, git, proc
  <2> QED
    BY <1>0, <1>2, <2>1, <2>2, <2>3, AgentSound, StartSound, ControlSound, BeginArmSound,
       NeedleSound, SuiteSound, RestoredSound, SignalSound
    DEF ResidueInv, Next, Step, Suite
<1> QED
  BY <1>1, <1>2 DEF ResidueInv

(* Whatever is killed or interrupted and whatever the other agent commits,   *)
(* no owned file is left with a defect or empty, unless a process was ended *)
(* where its script has no cover or a damaged file was staged.              *)
THEOREM NoResidueAtRestHolds ==
  ASSUME Restoring
  PROVE  Spec => []NoResidueAtRest
<1>1. Init => ResidueInv
  BY ContentFacts DEF Init, ResidueInv, Sound, Sources, Copies, Damage, Loops, NoArm
<1>2. TypeInv /\ ResidueInv => NoResidueAtRest
  <2>1. TypeInv => D.owned \subseteq Files
    BY DisciplineFacts DEF TypeInv, TypeOK
  <2> QED
    BY <2>1 DEF ResidueInv, NoResidueAtRest, Sound, Damage, Damageable, ArmPhase
<1>3. TypeInv /\ ResidueInv /\ [Next]_vars => ResidueInv'
  BY ResidueStep
<1> QED
  BY <1>1, <1>2, <1>3, TypeInvariant, PTL DEF Spec

-----------------------------------------------------------------------------
(* Verdicts.  From the reading of the snapshot to the end of the arms one    *)
(* can say which files may hold a defect that the snapshot does not: those  *)
(* of the arm, or what has still to be written back.                        *)

Measuring ==
  \/ pc \in {"expect", "keep", "control", "arms", "plant", "suite", "check"}
  \/ pc = "restore" /\ way \notin {"exit", "endcontrol"}
  \/ pc = "gate" /\ ~D.gateFirst

(* From when the checks have what they compare the files with.             *)
Settled == /\ Measuring /\ D.expects # "gate"
           /\ pc \in {"gate", "expect"} => D.expects = "snapshot"

PlantedOver == \A a \in D.arms : a.files = D.owned

MayHold ==
  IF PlantedOver THEN D.owned
  ELSE IF pc = "plant" THEN arm.files \ todo
  ELSE IF pc = "suite" THEN arm.files
  ELSE IF pc = "restore" /\ (way = "plant" \/ D.perArm) THEN todo
  ELSE IF pc \in {"restore", "check", "arms"} /\ ~D.perArm THEN D.owned
  ELSE {}

(* What a defect may be written from: the snapshot may hold one already. *)
NoNewDefect(f, c) == c.planted => snap[f].planted

HoldInv ==
  /\ InArm => arm \in D.arms
  /\ pc = "plant" => todo \subseteq arm.files
  /\ pc = "restore" => \A p \in writing : NoNewDefect(p[1], p[2])
  /\ Measuring => \A f \in D.owned : NoNewDefect(f, tree[f]) \/ f \in MayHold
  /\ Settled => PlantedOver \/ \A f \in D.owned : NoNewDefect(f, expect[f])

(* A control that comes first has been green wherever a run is past it. *)
ControlPassed ==
  D.control = "first" /\ ( \/ pc \in {"arms", "plant", "suite", "check"}
                           \/ pc = "restore" /\ way \notin {"exit", "endcontrol"}
                           \/ pc = "keep" /\ D.keep # "early" ) => ctl

AttributeInv == ControlPassed /\ (tainted \/ HoldInv)

LEMMA SeparatingFacts ==
  ASSUME TypeInv, Separating
  PROVE  /\ D.owned \in SUBSET Files /\ D.arms \in SUBSET Arms
         /\ \A a \in D.arms : a.files \subseteq D.owned
         /\ \/ D.perArm \/ D.before = "restore"
            \/ D.before \in {"assert", "overwrite"} /\ D.restoreAll /\ D.expects # "gate"
            \/ PlantedOver
BY DisciplineFacts DEF Separating, TypeInv, TypeOK, D, PlantedOver

(* Wherever a process ends, or writes back to end, nothing is measured. *)
LEMMA EndHolds ==
  ASSUME \/ \E kind : Stop(kind) \/ Leave(kind) \/ Raise(kind)
         \/ \E files, next : RestoreThen(next, files) /\ next \in {"exit", "endcontrol"}
  PROVE  HoldInv'
BY DEF Stop, Leave, Raise, RestoreThen, HoldInv, InArm, Measuring, Settled

(* What remains to be shown of a step that leaves the files and the snapshot. *)
LEMMA StillHolds ==
  ASSUME HoldInv, D' = D, UNCHANGED <<tree, snap>>, Measuring,
         Settled' => Settled /\ expect' = expect,
         InArm' => arm' \in D.arms,
         pc' = "plant" => todo' \subseteq arm'.files,
         pc' = "restore" => writing' = {},
         \A f \in MayHold : f \in MayHold' \/ NoNewDefect(f, tree[f])
  PROVE  HoldInv'
<1>1. \A f \in D.owned : NoNewDefect(f, tree[f]) \/ f \in MayHold'
  BY DEF HoldInv
<1>2. Settled' => PlantedOver' \/ \A f \in D'.owned : (NoNewDefect(f, expect[f]))'
  BY DEF HoldInv, PlantedOver, NoNewDefect
<1> QED
  BY <1>1, <1>2 DEF HoldInv, NoNewDefect

(* Up to the first arm. *)
LEMMA StartHolds ==
  ASSUME TypeInv, HoldInv, Separating, D' = D,
         Start \/ Recover \/ Gate \/ ReadSnapshot \/ ReadExpected \/ Keep
  PROVE  HoldInv'
<1>1. CASE Start \/ Recover
  <2>1. pc' \in {"recover", "read"} \/ (pc' = "gate" /\ D.gateFirst)
    BY <1>1 DEF Start, Recover
  <2> QED
    BY <2>1 DEF HoldInv, InArm, Measuring, Settled
<1>2. CASE Gate
  <2>1. CASE D.gateFirst /\ pc' = "read"
    BY <2>1 DEF HoldInv, InArm, Measuring, Settled
  <2>2. CASE ~D.gateFirst /\ pc' = AfterRead /\ UNCHANGED <<tree, snap>>
    <3>1. pc' \in {"expect", "keep", "arms", "control"} /\ Measuring /\ (MayHold = {} \/ PlantedOver)
      BY <1>2, <2>2 DEF Gate, AfterRead, AfterExpected, Measuring, MayHold
    <3>2. MayHold \subseteq MayHold'
      BY <3>1 DEF MayHold, PlantedOver
    <3>3. Settled' => Settled /\ expect' = expect
      <4>1. D.expects \in {"snapshot", "reread", "gate"}
        BY DisciplineFacts DEF TypeInv, TypeOK
      <4>2. ~Stop("fail")
        BY <3>1 DEF Stop
      <4> QED
        BY <1>2, <2>2, <3>1, <4>1, <4>2 DEF Gate, AfterRead, Settled, Measuring
    <3> QED
      BY <2>2, <3>1, <3>2, <3>3, StillHolds DEF InArm
  <2> QED
    BY <1>2, <2>1, <2>2, EndHolds DEF Gate
<1>3. CASE ReadSnapshot
  <2>1. pc' \in {"expect", "gate", "keep", "arms", "control"} /\ snap' = tree /\ tree' = tree
    BY <1>3 DEF ReadSnapshot, AfterRead, AfterExpected
  <2>2. Settled' => expect' = tree
    BY <1>3 DEF ReadSnapshot, Settled
  <2> QED
    BY <2>1, <2>2 DEF HoldInv, InArm, NoNewDefect
<1>5. CASE ReadExpected
  <2>1. pc' \in {"keep", "arms", "control"} /\ UNCHANGED <<tree, snap>> /\ pc = "expect" /\ expect' = tree
    BY <1>5 DEF ReadExpected, AfterExpected
  <2>2. Measuring /\ (MayHold = {} \/ PlantedOver)
    BY <2>1 DEF Measuring, MayHold
  <2>3. (PlantedOver \/ \A f \in D.owned : NoNewDefect(f, tree[f]))'
    BY <2>1, <2>2 DEF HoldInv, PlantedOver, NoNewDefect
  <2>4. (\A f \in D.owned : NoNewDefect(f, tree[f]) \/ f \in MayHold)'
    BY <2>3 DEF MayHold
  <2> QED
    BY <2>1, <2>3, <2>4 DEF HoldInv, InArm, NoNewDefect
<1>4. CASE Keep
  <2>1. pc' \in {"keep", "arms", "control"} /\ Measuring /\ (MayHold = {} \/ PlantedOver)
        /\ UNCHANGED <<tree, snap, expect>> /\ pc = "keep"
    BY <1>4 DEF Keep, Measuring, MayHold, proc
  <2>2. MayHold \subseteq MayHold'
    BY <2>1 DEF MayHold, PlantedOver
  <2> QED
    BY <2>1, <2>2, StillHolds DEF InArm, Settled
<1> QED
  BY <1>1, <1>2, <1>3, <1>4, <1>5

(* The controls and the end. *)
LEMMA ControlHolds ==
  ASSUME TypeInv, HoldInv, D' = D, NEW o, Control(o) \/ EndControl(o) \/ EndArms
  PROVE  HoldInv'
<1>1. CASE Control(o) /\ pc' \in {"keep", "arms"} /\ UNCHANGED proc
  <2>1. Measuring /\ (MayHold = {} \/ PlantedOver) /\ UNCHANGED <<tree, snap, expect>>
        /\ pc = "control"
    BY <1>1 DEF Control, Measuring, MayHold, proc
  <2>2. MayHold \subseteq MayHold'
    BY <2>1 DEF MayHold, PlantedOver
  <2> QED
    BY <1>1, <2>1, <2>2, StillHolds DEF InArm, Settled
<1>2. CASE pc' = "endcontrol"
  BY <1>2 DEF HoldInv, InArm, Measuring, Settled
<1> QED
  BY <1>1, <1>2, EndHolds DEF Control, EndControl, EndArms, Finish

(* An arm begins where nothing is held, or after writing back what is. *)
LEMMA BeginArmHolds ==
  ASSUME TypeInv, HoldInv, Separating, D' = D, NEW a \in Arms, BeginArm(a)
  PROVE  HoldInv'
<1> USE SeparatingFacts
<1>0. pc = "arms" /\ a \in D.arms /\ Measuring /\ tree' = tree /\ (Settled \/ D.expects = "gate")
  BY DEF BeginArm, Measuring, Settled
<1>1. CASE RestoreThen("plant", D.owned) /\ arm' = a /\ UNCHANGED <<snap, expect>>
  <2>1. \A f \in D.owned : f \in MayHold' \/ NoNewDefect(f, tree[f])
    BY <1>1 DEF RestoreThen, MayHold, NoNewDefect, PlantedOver
  <2>2. MayHold \subseteq D.owned
    BY <1>0 DEF MayHold
  <2> QED
    BY <1>0, <1>1, <2>1, <2>2, StillHolds DEF RestoreThen, Settled
<1>2. CASE /\ pc' = "plant" /\ todo' = a.files /\ arm' = a /\ UNCHANGED <<snap, expect>>
           /\ \/ D.before = "none"
              \/ D.before \in {"assert", "overwrite"} /\ ~Drifted(Checked(a))
  <2>1. \A f \in MayHold : f \in MayHold' \/ NoNewDefect(f, tree[f])
    <3>1. CASE PlantedOver
      BY <3>1 DEF MayHold, PlantedOver
    <3>2. CASE D.perArm
      BY <1>0, <3>2 DEF MayHold, PlantedOver
    <3>3. CASE /\ D.before \in {"assert", "overwrite"} /\ D.restoreAll /\ D.expects # "gate"
               /\ ~Drifted(Checked(a)) /\ ~PlantedOver
      <4>1. \A f \in D.owned : tree[f] = expect[f] /\ NoNewDefect(f, expect[f])
        BY <1>0, <3>3 DEF Drifted, Checked, HoldInv
      <4>2. MayHold \subseteq D.owned
        BY <1>0 DEF MayHold
      <4> QED
        BY <4>1, <4>2
    <3> QED
      BY <1>2, <3>1, <3>2, <3>3
  <2> QED
    BY <1>0, <1>2, <2>1, StillHolds DEF Settled
<1> QED
  BY <1>1, <1>2, EndHolds DEF BeginArm

(* A defect is planted in the files of the arm, one after the other. *)
LEMMA PlantHolds ==
  ASSUME TypeInv, HoldInv, D' = D, NEW f \in Files, Plant(f)
  PROVE  HoldInv'
<1>0. /\ pc = "plant" /\ pc' = "plant" /\ f \in todo /\ UNCHANGED <<snap, expect, arm, way>>
      /\ tree \in [Files -> Content] /\ Measuring /\ InArm
      /\ D.owned \subseteq Files
  BY DisciplineFacts DEF Plant, proc, TypeInv, TypeOK, Measuring, InArm
<1>1. f \in arm.files /\ todo' \subseteq todo
  BY <1>0 DEF HoldInv, Plant, Write
<1>2. \A g \in Files \ {f} : tree'[g] = tree[g]
  BY <1>0 DEF Plant, Write
<1>3. f \notin todo' \/ tree'[f] = Torn
  BY <1>0 DEF Plant, Write
<1>4. \A g \in D.owned : (NoNewDefect(g, tree[g]))' \/ g \in MayHold'
  <2>1. ASSUME NEW g \in D.owned, g # f
        PROVE  (NoNewDefect(g, tree[g]))' \/ g \in MayHold'
    BY <1>0, <1>1, <1>2, <2>1 DEF HoldInv, NoNewDefect, MayHold, PlantedOver
  <2>2. f \in D.owned => (NoNewDefect(f, tree[f]))' \/ f \in MayHold'
    BY <1>0, <1>1, <1>3 DEF NoNewDefect, MayHold, PlantedOver, Torn
  <2> QED
    BY <2>1, <2>2
<1>5. Settled' = Settled /\ PlantedOver' = PlantedOver
  BY <1>0 DEF Settled, Measuring, PlantedOver
<1> QED
  BY <1>0, <1>1, <1>4, <1>5 DEF HoldInv, NoNewDefect

(* The end of an arm, with its files written back now or not.                *)
LEMMA ArmOverHolds ==
  ASSUME TypeInv, HoldInv, D' = D, pc \in {"plant", "suite", "restore", "check"}, InArm, Measuring,
         UNCHANGED <<tree, snap, expect>>, NextArm,
         ~D.perArm \/ MayHold = {} \/ PlantedOver
  PROVE  HoldInv'
<1>1. MayHold \subseteq MayHold' \/ ~D.perArm
  BY DEF MayHold, PlantedOver
<1>2. CASE ~D.perArm
  BY <1>2 DEF HoldInv, NextArm, InArm, Measuring, MayHold, PlantedOver, NoNewDefect, Settled
<1> QED
  BY <1>1, <1>2, StillHolds DEF NextArm, InArm, Settled

LEMMA ArmRestoreHolds ==
  ASSUME TypeInv, HoldInv, Separating, D' = D, pc \in {"plant", "suite"},
         UNCHANGED <<tree, snap, expect, arm>>, NEW next \in {"arm", "skip"}, RestoreThen(next, Scope)
  PROVE  HoldInv'
<1>1. InArm /\ Measuring
  BY DEF InArm, Measuring
<1>2. arm \in D.arms /\ arm.files \subseteq Scope
  BY <1>1, SeparatingFacts DEF HoldInv, Scope
<1>3. \A f \in MayHold : f \in MayHold' \/ NoNewDefect(f, tree[f])
  <2>1. CASE PlantedOver \/ ~D.perArm
    BY <1>1, <1>2, <2>1, SeparatingFacts DEF MayHold, PlantedOver, RestoreThen
  <2>2. CASE ~PlantedOver /\ D.perArm
    BY <1>2, <2>2 DEF MayHold, PlantedOver, RestoreThen, NoNewDefect
  <2> QED
    BY <2>1, <2>2
<1> QED
  BY <1>1, <1>2, <1>3, StillHolds DEF RestoreThen, Settled

LEMMA ArmHolds ==
  ASSUME TypeInv, HoldInv, Separating, D' = D,
         NeedleMissing \/ RunSuite \/ \E o \in Outcomes : SuiteEnds(o)
  PROVE  HoldInv'
<1>0. pc \in {"plant", "suite"} /\ InArm /\ Measuring /\ tree' = tree
  BY DEF NeedleMissing, RunSuite, SuiteEnds, InArm, Measuring
<1>1. CASE NeedleMissing
  <2>1. CASE todo = arm.files /\ NextArm /\ UNCHANGED <<snap, expect>>
    BY <1>0, <1>1, <2>1, ArmOverHolds DEF NeedleMissing, MayHold
  <2>2. CASE RestoreThen(Unscored, Scope) /\ UNCHANGED <<snap, expect, arm>>
    BY <1>0, <2>2, ArmRestoreHolds DEF Unscored
  <2> QED
    BY <1>1, <2>1, <2>2, EndHolds DEF NeedleMissing
<1>2. CASE RunSuite
  <2>1. pc' = "suite" /\ UNCHANGED <<snap, expect, arm>> /\ pc = "plant" /\ todo = {}
    BY <1>2 DEF RunSuite, proc
  <2>2. MayHold' = MayHold
    BY <2>1 DEF MayHold, PlantedOver
  <2> QED
    BY <1>0, <2>1, <2>2, StillHolds DEF HoldInv, Settled
<1>3. ASSUME NEW o \in Outcomes, SuiteEnds(o)
      PROVE  HoldInv'
  <2>1. CASE Raise("exception")
    BY <2>1, EndHolds
  <2>2. CASE (\E next \in {"arm", "skip"} : RestoreThen(next, Scope)) /\ UNCHANGED <<snap, expect, arm>>
    BY <1>0, <2>2, ArmRestoreHolds
  <2>3. CASE ~D.perArm /\ NextArm /\ UNCHANGED <<snap, expect>>
    BY <1>0, <2>3, ArmOverHolds
  <2> QED
    BY <1>3, <2>1, <2>2, <2>3 DEF SuiteEnds, Unscored
<1> QED
  BY <1>1, <1>2, <1>3

(* What is written back brings no new defect. *)
LEMMA RestoreHolds ==
  ASSUME TypeInv, HoldInv, D' = D, NEW f \in Files, Restore(f), ~index[f].planted
  PROVE  HoldInv'
<1> DEFINE c == IF D.back = "index" THEN index[f] ELSE snap[f]
<1>0. /\ pc = "restore" /\ pc' = "restore" /\ f \in todo /\ UNCHANGED <<snap, expect, arm, way>>
      /\ tree \in [Files -> Content] /\ D.owned \subseteq Files
      /\ Write(f, c, D.tornRestore) /\ NoNewDefect(f, c)
  BY DisciplineFacts DEF Restore, proc, TypeInv, TypeOK, NoNewDefect
<1> HIDE DEF c
<1>1. /\ \A g \in Files \ {f} : tree'[g] = tree[g]
      /\ todo' = todo \/ todo' = todo \ {f}
  BY <1>0 DEF Write
<1>2. NoNewDefect(f, tree'[f])
  <2>1. \A p \in writing : p[1] = f => NoNewDefect(f, p[2])
    BY <1>0 DEF HoldInv
  <2> QED
    BY <1>0, <2>1 DEF Write, NoNewDefect, Torn
<1>3. \A p \in writing' : NoNewDefect(p[1], p[2])
  BY <1>0 DEF Write, HoldInv
<1>4. Measuring => \A g \in D.owned : NoNewDefect(g, tree'[g]) \/ g \in MayHold'
  BY <1>0, <1>1, <1>2 DEF HoldInv, MayHold, PlantedOver, NoNewDefect
<1>5. Settled' = Settled /\ PlantedOver' = PlantedOver
  BY <1>0 DEF Settled, Measuring, PlantedOver
<1> QED
  BY <1>0, <1>3, <1>4, <1>5 DEF HoldInv, InArm, Measuring, NoNewDefect

(* After the last file. *)
LEMMA RestoredHolds ==
  ASSUME TypeInv, HoldInv, D' = D, Restored \/ CheckRestored
  PROVE  HoldInv'
<1>0. tree' = tree
  BY DEF Restored, CheckRestored
<1>1. CASE Restored /\ way = "plant"
  <2>1. /\ pc = "restore" /\ pc' = "plant" /\ todo = {} /\ todo' = arm.files
        /\ UNCHANGED <<snap, expect, arm>> /\ InArm /\ Measuring
    BY <1>1 DEF Restored, proc, InArm, Measuring
  <2>2. MayHold \subseteq MayHold'
    BY <1>1, <2>1 DEF MayHold, PlantedOver
  <2> QED
    BY <1>0, <2>1, <2>2, StillHolds DEF HoldInv, Settled
<1>2. CASE Restored /\ way \in {"arm", "skip"}
  <2>1. /\ pc = "restore" /\ todo = {} /\ UNCHANGED <<snap, expect>> /\ InArm /\ Measuring
        /\ NextArm \/ (pc' = "check" /\ arm' = arm)
    BY <1>2 DEF Restored, InArm, Measuring
  <2>2. ~D.perArm \/ MayHold = {} \/ PlantedOver
    BY <2>1 DEF MayHold
  <2>3. CASE pc' = "check" /\ arm' = arm
    <3>1. MayHold \subseteq MayHold'
      BY <1>2, <2>1, <2>2, <2>3 DEF MayHold, PlantedOver
    <3> QED
      BY <1>0, <2>1, <2>3, <3>1, StillHolds DEF HoldInv, Settled
  <2> QED
    BY <1>0, <2>1, <2>2, <2>3, ArmOverHolds
<1>3. CASE CheckRestored /\ NextArm /\ UNCHANGED <<snap, expect>>
  <2>1. pc = "check" /\ InArm /\ Measuring
    BY <1>3 DEF CheckRestored, InArm, Measuring
  <2>2. ~D.perArm \/ MayHold = {} \/ PlantedOver
    BY <2>1 DEF MayHold
  <2> QED
    BY <1>0, <1>3, <2>1, <2>2, ArmOverHolds
<1>4. CASE Restored /\ way = "endcontrol" /\ pc' = "endcontrol"
  BY <1>4 DEF HoldInv, InArm, Measuring, Settled
<1> QED
  BY <1>1, <1>2, <1>3, <1>4, EndHolds DEF Restored, CheckRestored, TypeInv, TypeOK

(* The other agent plants nothing. *)
LEMMA AgentHolds ==
  ASSUME TypeInv, HoldInv, D' = D, Agent, \A f \in Files : ~index[f].planted
  PROVE  HoldInv'
<1>0. UNCHANGED <<pc, snap, expect, arm, todo, writing, way>>
  BY DEF Agent, Commit, Edit, Stage, Checkout, proc
<1>1. \A f \in Files : tree'[f].planted => tree[f].planted
  <2>1. ASSUME NEW f \in Files, Edit(f)
        PROVE  \A g \in Files : tree'[g].planted => tree[g].planted
    BY <2>1 DEF Edit, TypeInv, TypeOK, Content
  <2>2. ASSUME NEW f \in Files, Checkout(f)
        PROVE  \A g \in Files : tree'[g].planted => tree[g].planted
    BY <2>2 DEF Checkout, TypeInv, TypeOK
  <2> QED
    BY <2>1, <2>2 DEF Agent, Commit, Stage
<1>2. D.owned \subseteq Files /\ MayHold' = MayHold /\ Settled' = Settled /\ PlantedOver' = PlantedOver
  BY <1>0, DisciplineFacts DEF MayHold, PlantedOver, Settled, Measuring, TypeInv, TypeOK
<1> QED
  BY <1>0, <1>1, <1>2 DEF HoldInv, InArm, Measuring, NoNewDefect

(* A red control ends the run, and what follows a green one keeps it.        *)
LEMMA ControlStays ==
  ASSUME TypeInv, ControlPassed, D' = D, [Next]_vars
  PROVE  ControlPassed'
<1> DEFINE Past == \/ pc \in {"arms", "plant", "suite", "check"}
                   \/ pc = "restore" /\ way \notin {"exit", "endcontrol"}
                   \/ pc = "keep" /\ D.keep # "early"
<1> SUFFICES ASSUME D.control = "first", Past' PROVE ctl'
  BY DEF ControlPassed
<1>1. (Past => ctl)
  BY DEF ControlPassed
<1>2. ASSUME NEW kind, Stop(kind) \/ Leave(kind) \/ Raise(kind)
      PROVE  FALSE
  BY <1>2 DEF Stop, Leave, Raise, RestoreThen
<1>3. ASSUME NEW files, RestoreThen("exit", files) \/ RestoreThen("endcontrol", files)
      PROVE  FALSE
  BY <1>3 DEF RestoreThen
<1>4. ASSUME NEW o, Control(o)
      PROVE  ctl'
  BY <1>2, <1>3, <1>4 DEF Control, Accepts
<1>5. CASE Start \/ Recover \/ Gate \/ ReadSnapshot \/ ReadExpected \/ Keep
  <2>1. pc' \in {"arms", "keep"}
    BY <1>2, <1>5 DEF Start, Recover, Gate, ReadSnapshot, ReadExpected, Keep, AfterRead, AfterExpected
  <2> QED
    BY <1>1, <1>2, <1>5, <2>1 DEF Start, Recover, Gate, ReadSnapshot, ReadExpected, Keep, AfterRead, AfterExpected, hist
<1>6. CASE Agent \/ UNCHANGED vars
  BY <1>1, <1>6 DEF Agent, Commit, Edit, Stage, Checkout, proc, hist, vars
<1>7. ASSUME NEW o, SuiteEnds(o)
      PROVE  ctl'
  BY <1>1, <1>7 DEF SuiteEnds
<1>8. ASSUME NEW o, EndControl(o)
      PROVE  FALSE
  BY <1>2, <1>8 DEF EndControl, Finish
<1>9. CASE EndArms
  BY <1>2, <1>3, <1>9 DEF EndArms, Finish
<1>10. CASE \E a \in Arms : BeginArm(a)
  BY <1>1, <1>10 DEF BeginArm, hist
<1>11. CASE NeedleMissing \/ RunSuite \/ \E f \in Files : Plant(f)
  BY <1>1, <1>11 DEF NeedleMissing, RunSuite, Plant, hist
<1>12. CASE \/ CheckRestored \/ Restored \/ \E f \in Files : Restore(f)
  BY <1>1, <1>2, <1>12 DEF CheckRestored, Restored, Restore, hist, proc
<1>13. CASE Interrupt \/ Terminate \/ Kill
  BY <1>2, <1>13 DEF Interrupt, Terminate, Kill
<1> QED
  BY <1>4, <1>5, <1>6, <1>7, <1>8, <1>9, <1>10, <1>11, <1>12, <1>13 DEF Next, Step, Suite

LEMMA AttributeStep ==
  ASSUME TypeInv, BaselineInv, AttributeInv, Separating, [Next]_vars
  PROVE  AttributeInv'
<1>0. D' = D /\ (tainted => tainted')
  <2>1. tainted' = tainted \/ \E f \in Files : Stage(f)
    BY DEF vars, git, Agent, Commit, Edit, Checkout, Start, Recover, Gate, ReadSnapshot, ReadExpected, Keep,
       BeginArm, Plant, Restore, NeedleMissing, RunSuite, Restored, CheckRestored, EndArms,
       Control, SuiteEnds, EndControl, Interrupt, Terminate, Kill, Next, Step, Suite
  <2>2. ASSUME NEW f \in Files, Stage(f)
        PROVE  tainted => tainted'
    BY <2>2, Zenon DEF Stage
  <2> QED
    BY <2>1, <2>2, SameDriver
<1>1. ControlPassed'
  BY <1>0, ControlStays DEF AttributeInv
<1>2. CASE HoldInv /\ ~tainted
  <2>1. \A f \in Files : ~index[f].planted
    BY <1>2 DEF BaselineInv, Pristine
  <2>2. CASE UNCHANGED vars
    <3>1. UNCHANGED <<pc, tree, snap, expect, arm, way, todo, writing>>
      BY <2>2 DEF vars, proc
    <3>2. MayHold' = MayHold /\ Settled' = Settled /\ PlantedOver' = PlantedOver
      BY <1>0, <3>1 DEF MayHold, PlantedOver, Settled, Measuring
    <3> QED
      BY <1>0, <1>1, <1>2, <3>1, <3>2 DEF AttributeInv, HoldInv, InArm, Measuring, NoNewDefect
  <2>3. CASE Interrupt \/ Terminate \/ Kill
    BY <1>1, <2>3, EndHolds DEF AttributeInv, Interrupt, Terminate, Kill
  <2> QED
    BY <1>0, <1>1, <1>2, <2>1, <2>2, <2>3, StartHolds, ControlHolds, BeginArmHolds, PlantHolds,
       ArmHolds, RestoreHolds, RestoredHolds, AgentHolds
    DEF AttributeInv, Next, Step, Suite
<1> QED
  BY <1>0, <1>1, <1>2 DEF AttributeInv

(* A suite measures its arm: it runs after a green control, where there is   *)
(* one, and beside no defect but the arm's own and those of the baseline,   *)
(* whatever the other agent does, short of staging a damaged file.          *)
THEOREM VerdictIsAttributableHolds ==
  ASSUME Separating
  PROVE  Spec => []VerdictIsAttributable
<1>1. Init => AttributeInv
  BY DEF Init, AttributeInv, ControlPassed, HoldInv, InArm, Measuring, Settled
<1>2. Init => BaselineInv
  BY ContentFacts DEF Init, BaselineInv, Early
<1>3. TypeInv /\ AttributeInv => VerdictIsAttributable
  <2> SUFFICES ASSUME TypeInv, AttributeInv, pc = "suite"
               PROVE  VerdictIsAttributable
    BY DEF VerdictIsAttributable
  <2>1. InArm /\ Measuring
    BY DEF InArm, Measuring
  <2>2. tainted \/ MayHold \subseteq arm.files
    BY <2>1 DEF AttributeInv, HoldInv, MayHold, PlantedOver
  <2> QED
    BY <2>1, <2>2 DEF AttributeInv, ControlPassed, HoldInv, NoNewDefect, VerdictIsAttributable
<1>4. TypeInv /\ BaselineInv /\ AttributeInv /\ [Next]_vars => AttributeInv'
  BY AttributeStep
<1> QED
  BY <1>1, <1>2, <1>3, <1>4, BaselineStep, TypeInvariant, PTL DEF Spec

-----------------------------------------------------------------------------
(* Edits.  An edit that is not exposed is never lost.  What that rests on is *)
(* said in three parts: how the write loops and the copies in the tree stand *)
(* to each other (TornInv, CopyInv); that an edit is in no file before it is *)
(* made (DatedInv); and where the unexposed edits of a file are to be found  *)
(* while the driver may write over it (PreserveInv).                        *)

LEMMA PreservingFacts ==
  ASSUME TypeInv, Preserving
  PROVE  /\ D.owned \in SUBSET Files
         /\ \A a \in D.arms : a.files \subseteq D.owned
         /\ D.keep # "no" \/ ~D.gateFirst => D.gate # "none"
         /\ Looks(driver) => D.keep = "no" /\ D.expects # "gate" /\ ~D.endRewrites
         /\ D.keep # "no" \/ Looks(driver) => D.back = "snapshot"
         /\ D.keep \in {"no", "early", "late"} /\ D.back \in {"snapshot", "index"}
         /\ D.gate \in {"none", "index", "status", "head"}
<1>1. D \in Disciplines
  BY DisciplineAssumption DEF TypeInv, TypeOK, D
<1>2. /\ D.keep \in {"no", "early", "late"} /\ D.back \in {"snapshot", "index"}
      /\ D.gate \in {"none", "index", "status", "head"}
  BY <1>1, Zenon DEF Disciplines
<1> QED
  BY <1>2, DisciplineFacts DEF Preserving, Roundabout, TypeInv, TypeOK, D

(* One file is truncated at a time, in a loop that truncates and still has   *)
(* to write it.                                                             *)
TornInv ==
  /\ writing # {} => \/ pc \in {"recover", "restore"} /\ D.tornRestore
                     \/ pc = "plant" /\ D.tornPlant
  /\ \A p \in writing : p[1] \in todo /\ tree[p[1]] = Torn
  /\ \A p, q \in writing : p = q

(* From the reading of the snapshot to the end of the run. *)
Running == {"control", "arms", "endcontrol"} \cup ArmPhase
HasRead == pc \in Running \cup {"expect", "keep"} \/ (pc = "gate" /\ ~D.gateFirst)

(* The copies in the tree are those of an earlier run until they are written *)
(* back and removed, and then those of this run's snapshot.                 *)
CopyInv ==
  /\ pc \in {"recover", "keep"} => D.keep # "no"
  /\ pc \in {"recover", "gate", "read", "expect", "keep", "control"} => todo \subseteq D.owned
  /\ pc = "recover" => /\ \A f \in todo : kept[f] # NoCopy
                       /\ \A p \in writing : p[2] = kept[p[1]]
  /\ D.keep = "no" \/ pc \in {"gate", "read", "expect"} => \A f \in Files : kept[f] = NoCopy
  /\ pc \in Running => \A f \in Files : kept[f] \in {NoCopy, snap[f]}
  /\ pc = "keep" => \A f \in Files : \/ kept[f] \in {NoCopy, snap[f]}
                                     \/ f \in todo /\ kept[f] = Torn

(* A step that changes no file, ends a write loop or is outside of one, and  *)
(* at most removes copies.                                                  *)
Quiet ==
  /\ UNCHANGED <<tree, git, lost>>
  /\ writing' = {}
  /\ \A f \in Files : kept'[f] \in {kept[f], NoCopy}
  /\ HasRead' => HasRead /\ snap' = snap
  /\ snap' \in {snap, [f \in Files |-> Clean]}
  /\ expect' \in {expect, tree, [f \in Files |-> Clean]}

(* The ways out of a process end it or write files back. *)
LEMMA WayOut ==
  ASSUME NEW kind, Stop(kind) \/ Leave(kind) \/ Raise(kind)
  PROVE  /\ writing' = {}
         /\ \/ pc' = "off"
            \/ pc' = "restore" /\ UNCHANGED <<snap, expect, arm>> /\ way' = "exit"
         /\ snap' \in {snap, [f \in Files |-> Clean]}
         /\ expect' \in {expect, [f \in Files |-> Clean]}
BY DEF Stop, Leave, Raise, RestoreThen

LEMMA WayOutIsQuiet ==
  ASSUME NEW kind, Stop(kind) \/ Leave(kind) \/ Raise(kind), HasRead \/ Stop(kind),
         UNCHANGED <<tree, git, lost>>, kept' = kept \/ Drop
  PROVE  Quiet
<1>1. \A f \in Files : kept'[f] \in {kept[f], NoCopy}
  BY DEF Drop
<1>2. HasRead' => HasRead /\ snap' = snap
  BY WayOut DEF HasRead, Running, ArmPhase, Stop
<1> QED
  BY <1>1, <1>2, WayOut DEF Quiet

LEMMA BackIsQuiet ==
  ASSUME NEW next, NEW files, RestoreThen(next, files), HasRead,
         UNCHANGED <<tree, git, lost, snap, expect, kept>>
  PROVE  Quiet
BY DEF RestoreThen, Quiet

LEMMA QuietSteps ==
  ASSUME TypeInv, TornInv, CopyInv, Step \/ Suite \/ Start \/ Interrupt \/ Terminate \/ Kill
  PROVE  \/ Quiet
         \/ Recover /\ pc' = "recover"
         \/ Keep /\ pc' = "keep"
         \/ ReadSnapshot
         \/ \E f \in Files : Plant(f) \/ Restore(f)
<1>0. ASSUME D' = D, pc' \in {"recover", "read"} \/ (pc' = "gate" /\ D.gateFirst)
      PROVE  ~HasRead'
  BY <1>0 DEF HasRead, Running, ArmPhase
<1>1. CASE Start
  <2>1. ~HasRead'
    BY <1>0, <1>1 DEF Start, D
  <2>2. writing = {} /\ UNCHANGED <<tree, git, lost, kept, writing, snap, expect>>
    BY <1>1 DEF Start, TornInv
  <2> QED
    BY <2>1, <2>2 DEF Quiet
<1>2. CASE Recover /\ pc' # "recover"
  <2>1. todo = {} /\ Drop /\ UNCHANGED <<tree, git, lost, writing, snap, expect>>
    BY <1>2 DEF Recover, proc
  <2>2. ~HasRead'
    BY <1>0, <1>2 DEF Recover, D
  <2> QED
    BY <2>1, <2>2 DEF TornInv, Quiet, Drop
<1>3. CASE Gate
  <2>1. CASE Stop("fail")
    BY <1>3, <2>1, WayOutIsQuiet DEF Gate, hist
  <2>2. CASE ~Stop("fail")
    BY <1>3, <2>2 DEF Gate, AfterRead, AfterExpected, TornInv, Quiet, HasRead, Running, ArmPhase, hist
  <2> QED
    BY <2>1, <2>2
<1>14. CASE ReadExpected
  BY <1>14 DEF ReadExpected, TornInv, Quiet, HasRead, hist
<1>4. CASE Keep /\ pc' # "keep"
  BY <1>4 DEF Keep, TornInv, Quiet, HasRead, Running, ArmPhase, hist, proc
<1>5. ASSUME NEW o, Control(o)
      PROVE  Quiet
  <2>0. HasRead /\ UNCHANGED <<tree, git, lost>> /\ writing = {}
    BY <1>5 DEF Control, HasRead, Running, TornInv
  <2>1. ASSUME NEW kind, Leave(kind), kept' = kept \/ Drop
        PROVE  Quiet
    BY <2>0, <2>1, WayOutIsQuiet
  <2>2. CASE RestoreThen("exit", D.owned) /\ UNCHANGED <<snap, expect, kept>>
    BY <2>0, <2>2, BackIsQuiet
  <2>3. CASE UNCHANGED <<proc, kept, writing>>
    BY <2>0, <2>3 DEF Quiet, proc
  <2> QED
    BY <1>5, <2>1, <2>2, <2>3 DEF Control
<1>6. ASSUME NEW a \in Arms, BeginArm(a)
      PROVE  Quiet
  <2>0. HasRead /\ UNCHANGED <<tree, git, lost, kept>> /\ writing = {}
    BY <1>6 DEF BeginArm, HasRead, Running, TornInv, hist
  <2>1. CASE Leave("fail")
    BY <2>0, <2>1, WayOutIsQuiet
  <2>2. ASSUME NEW next, RestoreThen(next, D.owned), UNCHANGED <<snap, expect>>
        PROVE  Quiet
    BY <2>0, <2>2, BackIsQuiet
  <2>3. CASE UNCHANGED <<snap, expect, writing>>
    BY <2>0, <2>3 DEF Quiet
  <2> QED
    BY <1>6, <2>1, <2>2, <2>3 DEF BeginArm
<1>7. CASE NeedleMissing
  <2>0. HasRead /\ UNCHANGED <<tree, git, lost, kept>> /\ writing = {}
    BY <1>7 DEF NeedleMissing, HasRead, Running, ArmPhase, hist
  <2>1. CASE Raise("exception")
    BY <2>0, <2>1, WayOutIsQuiet
  <2>2. CASE RestoreThen(Unscored, Scope) /\ UNCHANGED <<snap, expect>>
    BY <2>0, <2>2, BackIsQuiet
  <2>3. CASE UNCHANGED <<snap, expect, writing>>
    BY <2>0, <2>3 DEF Quiet
  <2> QED
    BY <1>7, <2>1, <2>2, <2>3 DEF NeedleMissing
<1>8. CASE RunSuite
  BY <1>8 DEF RunSuite, Quiet, HasRead, Running, ArmPhase, TornInv, hist, proc
<1>9. ASSUME NEW o, SuiteEnds(o)
      PROVE  Quiet
  <2>0. HasRead /\ UNCHANGED <<tree, git, lost, kept>> /\ writing = {}
    BY <1>9 DEF SuiteEnds, HasRead, Running, ArmPhase, TornInv
  <2>1. CASE Raise("exception")
    BY <2>0, <2>1, WayOutIsQuiet
  <2>2. ASSUME NEW next, RestoreThen(next, Scope), UNCHANGED <<snap, expect>>
        PROVE  Quiet
    BY <2>0, <2>2, BackIsQuiet
  <2>3. CASE UNCHANGED <<snap, expect, writing>>
    BY <2>0, <2>3 DEF Quiet
  <2> QED
    BY <1>9, <2>1, <2>2, <2>3 DEF SuiteEnds
<1>10. CASE Restored
  <2>0. /\ HasRead /\ UNCHANGED <<tree, git, lost>> /\ writing = {}
        /\ kept' = kept \/ Drop
    BY <1>10 DEF Restored, HasRead, Running, ArmPhase, TornInv, hist
  <2>1. ASSUME NEW kind, Stop(kind)
        PROVE  Quiet
    BY <2>0, <2>1, WayOutIsQuiet
  <2>2. CASE UNCHANGED <<snap, expect, writing>>
    BY <2>0, <2>2 DEF Quiet, Drop
  <2> QED
    BY <1>10, <2>1, <2>2 DEF Restored, proc
<1>11. CASE CheckRestored
  <2>0. HasRead /\ UNCHANGED <<tree, git, lost, kept>> /\ writing = {}
    BY <1>11 DEF CheckRestored, HasRead, Running, ArmPhase, TornInv, hist
  <2>1. CASE Leave("fail")
    BY <2>0, <2>1, WayOutIsQuiet
  <2>2. CASE UNCHANGED <<snap, expect, writing>>
    BY <2>0, <2>2 DEF Quiet
  <2> QED
    BY <1>11, <2>1, <2>2 DEF CheckRestored
<1>12. ASSUME NEW o, EndControl(o) \/ EndArms
       PROVE  Quiet
  <2>0. HasRead /\ UNCHANGED <<tree, git, lost>> /\ writing = {}
    BY <1>12 DEF EndControl, EndArms, HasRead, Running, TornInv, hist
  <2>1. ASSUME NEW kind, Leave(kind), kept' = kept \/ Drop
        PROVE  Quiet
    BY <2>0, <2>1, WayOutIsQuiet
  <2>2. ASSUME NEW fail, Finish(fail)
        PROVE  Quiet
    BY <2>1, <2>2 DEF Finish
  <2>3. CASE UNCHANGED <<proc, kept, writing>>
    BY <2>0, <2>3 DEF Quiet, proc
  <2>4. CASE RestoreThen("endcontrol", D.owned) /\ UNCHANGED <<snap, expect, kept>>
    BY <2>0, <2>4, BackIsQuiet
  <2> QED
    BY <1>12, <2>1, <2>2, <2>3, <2>4 DEF EndControl, EndArms
<1>13. CASE Interrupt \/ Terminate \/ Kill
  <2>0. UNCHANGED <<tree, git, lost, kept>> /\ pc # "off"
    BY <1>13 DEF Interrupt, Terminate, Kill, hist
  <2>1. \E kind : (Stop(kind) \/ Leave(kind) \/ Raise(kind)) /\ (HasRead \/ Stop(kind))
    <3>1. \E kind : Stop(kind) \/ Leave(kind) \/ (Raise(kind) /\ pc \in ArmPhase)
      BY <1>13 DEF Interrupt, Terminate, Kill
    <3> QED
      BY <3>1 DEF Leave, Guarded, HasRead, Running
  <2> QED
    BY <2>0, <2>1, WayOutIsQuiet
<1> QED
  BY <1>1, <1>2, <1>3, <1>4, <1>5, <1>6, <1>7, <1>8, <1>9, <1>10, <1>11, <1>12, <1>13,
     <1>14 DEF Step, Suite

(* A write is a truncation, the completion of one, or both at once. *)
Loses(f, c) ==
  lost' = lost \cup (tree[f].edits \ (c.edits \cup index[f].edits \cup head[f].edits))

Truncated(f, c) ==
  /\ writing = {} /\ writing' = {<<f, c>>} /\ todo' = todo
  /\ tree' = [tree EXCEPT ![f] = Torn] /\ Loses(f, c)

WrittenAtOnce(f, c) ==
  /\ writing = {} /\ writing' = {} /\ todo' = todo \ {f}
  /\ tree' = [tree EXCEPT ![f] = c] /\ Loses(f, c)

Completed(f, b) ==
  /\ writing = {<<f, b>>} /\ writing' = {} /\ todo' = todo \ {f}
  /\ tree' = [tree EXCEPT ![f] = b] /\ lost' = lost

LEMMA WriteForms ==
  ASSUME TypeInv, TornInv, NEW f \in Files, NEW c, NEW torn, Write(f, c, torn),
         writing # {} => torn
  PROVE  (Truncated(f, c) /\ torn) \/ WrittenAtOnce(f, c) \/ \E b \in Content : Completed(f, b)
<1>0. writing \in SUBSET (Files \X Content) /\ \A p, q \in writing : p = q
  BY DEF TypeInv, TypeOK, TornInv
<1>1. ASSUME NEW p \in writing, p[1] = f, tree' = [tree EXCEPT ![f] = p[2]],
             writing' = {}, todo' = todo \ {f}, lost' = lost
      PROVE  \E b \in Content : Completed(f, b)
  <2>1. p = <<f, p[2]>> /\ p[2] \in Content
    BY <1>0, <1>1
  <2>2. writing = {<<f, p[2]>>}
    BY <1>0, <2>1
  <2> QED
    BY <1>1, <2>1, <2>2 DEF Completed
<1>2. CASE ~torn
  BY <1>1, <1>2 DEF Write, WrittenAtOnce, Loses
<1>3. CASE torn
  BY <1>1, <1>3 DEF Write, Truncated, Loses
<1> QED
  BY <1>2, <1>3

(* What a driver writes, from where, in each of its three loops. *)
Recovers(f) == Recover /\ f \in todo /\ Write(f, kept[f], D.tornRestore)

LEMMA LoopForms ==
  ASSUME TypeInv, TornInv, NEW f \in Files, Plant(f) \/ Restore(f) \/ Recovers(f)
  PROVE  /\ f \in todo /\ UNCHANGED <<driver, pc, git, proc, kept>>
         /\ \E c \in Content :
              /\ \/ pc = "recover" /\ c = kept[f]
                 \/ pc = "restore" /\ c = IF D.back = "index" THEN index[f] ELSE snap[f]
                 \/ pc = "plant" /\ \E b \in {tree[f], snap[f]} :
                                      c = [b EXCEPT !.planted = TRUE]
              /\ \/ Truncated(f, c) /\ (IF pc = "plant" THEN D.tornPlant ELSE D.tornRestore)
                 \/ WrittenAtOnce(f, c)
                 \/ \E b \in Content : Completed(f, b)
<1>0. /\ tree[f] \in Content /\ snap[f] \in Content /\ index[f] \in Content
      /\ kept[f] \in Content
  BY DEF TypeInv, TypeOK
<1>1. CASE Plant(f)
  <2> DEFINE b == IF D.source = "disk" THEN tree[f] ELSE snap[f]
             c == [b EXCEPT !.planted = TRUE]
  <2>1. c \in Content
    BY <1>0 DEF Content
  <2>2. pc = "plant" /\ f \in todo /\ Write(f, c, D.tornPlant)
        /\ UNCHANGED <<driver, pc, git, proc, kept>>
    BY <1>1 DEF Plant
  <2>3. writing # {} => D.tornPlant
    BY <2>2 DEF TornInv
  <2>4. b \in {tree[f], snap[f]}
    OBVIOUS
  <2> HIDE DEF b
  <2>5. \/ Truncated(f, c) /\ D.tornPlant
        \/ WrittenAtOnce(f, c)
        \/ \E x \in Content : Completed(f, x)
    BY <2>2, <2>3, WriteForms
  <2> QED
    BY <2>1, <2>2, <2>4, <2>5
<1>2. CASE Restore(f)
  <2> DEFINE c == IF D.back = "index" THEN index[f] ELSE snap[f]
  <2>1. c \in Content
    BY <1>0
  <2>2. pc = "restore" /\ f \in todo /\ Write(f, c, D.tornRestore)
        /\ UNCHANGED <<driver, pc, git, proc, kept>>
    BY <1>2 DEF Restore
  <2>3. writing # {} => D.tornRestore
    BY <2>2 DEF TornInv
  <2>5. \/ Truncated(f, c) /\ D.tornRestore
        \/ WrittenAtOnce(f, c)
        \/ \E x \in Content : Completed(f, x)
    BY <2>2, <2>3, WriteForms
  <2> HIDE DEF c
  <2>6. c = IF D.back = "index" THEN index[f] ELSE snap[f]
    BY DEF c
  <2> QED
    BY <2>1, <2>2, <2>5, <2>6
<1>3. CASE Recovers(f)
  <2>1. pc = "recover" /\ writing # {} => D.tornRestore
    BY DEF TornInv
  <2>2. pc = "recover" /\ todo # {} /\ UNCHANGED <<driver, pc, git, proc, kept>>
    BY <1>3 DEF Recover, Recovers
  <2>3. \/ Truncated(f, kept[f]) /\ D.tornRestore
        \/ WrittenAtOnce(f, kept[f])
        \/ \E x \in Content : Completed(f, x)
    BY <1>3, <2>1, <2>2, WriteForms DEF Recovers
  <2> QED
    BY <1>0, <1>3, <2>2, <2>3 DEF Recovers
<1> QED
  BY <1>1, <1>2, <1>3

LEMMA RecoverForms ==
  ASSUME TypeInv, Recover, pc' = "recover"
  PROVE  \E f \in Files : Recovers(f)
<1>1. \E f \in todo : Write(f, kept[f], D.tornRestore)
  BY DEF Recover
<1> QED
  BY <1>1 DEF Recovers, TypeInv, TypeOK

LEMMA StepForms ==
  ASSUME TypeInv, TornInv, CopyInv, [Next]_vars
  PROVE  \/ Quiet
         \/ \E f \in Files : Plant(f) \/ Restore(f) \/ Recovers(f)
         \/ Keep /\ pc' = "keep"
         \/ ReadSnapshot
         \/ Agent
         \/ UNCHANGED vars
BY RecoverForms, QuietSteps DEF Next

LEMMA TornStep ==
  ASSUME TypeInv, TornInv, CopyInv, [Next]_vars
  PROVE  TornInv'
<1>0. /\ tree \in [Files -> Content] /\ todo \in SUBSET Files
      /\ writing \in SUBSET (Files \X Content) /\ D' = D
  BY SameDriver DEF TypeInv, TypeOK
<1>1. CASE Quiet
  BY <1>1 DEF Quiet, TornInv
<1>2. ASSUME NEW f \in Files, Plant(f) \/ Restore(f) \/ Recovers(f)
      PROVE  TornInv'
  <2>1. /\ f \in todo /\ pc' = pc
        /\ \/ writing' = {}
           \/ /\ \E c : writing' = {<<f, c>>}
              /\ todo' = todo /\ tree' = [tree EXCEPT ![f] = Torn]
              /\ \/ pc \in {"recover", "restore"} /\ D.tornRestore
                 \/ pc = "plant" /\ D.tornPlant
    BY <1>2, LoopForms DEF Truncated, WrittenAtOnce, Completed
  <2>2. CASE writing' = {}
    BY <2>2 DEF TornInv
  <2>3. ASSUME NEW c, writing' = {<<f, c>>}, todo' = todo,
               tree' = [tree EXCEPT ![f] = Torn]
        PROVE  /\ \A p \in writing' : p[1] \in todo' /\ tree'[p[1]] = Torn
               /\ \A p, q \in writing' : p = q
    BY <1>0, <2>1, <2>3
  <2> QED
    BY <1>0, <2>1, <2>2, <2>3 DEF TornInv
<1>3. CASE (Keep /\ pc' = "keep") \/ ReadSnapshot
  BY <1>3 DEF Keep, ReadSnapshot, TornInv
<1>4. CASE Agent
  <2>1. UNCHANGED <<pc, todo, writing>>
    BY <1>4 DEF Agent, Commit, Edit, Stage, Checkout
  <2>2. ASSUME NEW p \in writing
        PROVE  tree'[p[1]] = Torn
    <3>1. p[1] \in Files /\ tree[p[1]] = Torn /\ ~tree[p[1]].whole
      BY <1>0 DEF TornInv, Torn
    <3>2. pc \notin {"off", "gate", "read"}
      BY DEF TornInv
    <3> QED
      BY <1>0, <1>4, <3>1, <3>2 DEF Agent, Commit, Edit, Stage, Checkout
  <2> QED
    BY <1>0, <2>1, <2>2 DEF TornInv
<1>5. CASE UNCHANGED vars
  BY <1>0, <1>5 DEF vars, TornInv
<1> QED
  BY <1>1, <1>2, <1>3, <1>4, <1>5, StepForms

(* From the control on, a step goes on to a later part of the run, or ends   *)
(* it.                                                                      *)
Onward == pc' = "off" \/ (pc \in Running /\ pc' \in Running \ {"control"})
Later ==
  \/ Gate /\ pc' = "off"
  \/ \E o : Control(o) /\ pc' # "keep"
  \/ \E a \in Arms : BeginArm(a)
  \/ NeedleMissing \/ RunSuite \/ Restored \/ CheckRestored \/ EndArms
  \/ \E o : SuiteEnds(o) \/ EndControl(o)
  \/ Interrupt \/ Terminate \/ Kill

LEMMA LaterSteps == Later => Onward
<1>1. ASSUME NEW kind, Stop(kind) \/ Leave(kind) \/ (Raise(kind) /\ pc \in Running)
      PROVE  Onward
  BY <1>1 DEF Stop, Leave, Raise, RestoreThen, Running, Guarded, ArmPhase, Onward
<1>2. ASSUME NEW next, NEW files, RestoreThen(next, files), pc \in Running
      PROVE  Onward
  BY <1>2 DEF RestoreThen, Running, ArmPhase, Onward
<1>3. ASSUME NextArm, pc \in Running
      PROVE  Onward
  BY <1>3 DEF NextArm, Running, Onward
<1>4. pc \in Running /\ pc' \in {"off", "arms", "plant", "suite", "check", "endcontrol"} => Onward
  BY DEF Onward, Running, ArmPhase
<1>5. ASSUME NEW fail, Finish(fail)
      PROVE  Onward
  BY <1>1, <1>5 DEF Finish
<1>6. ASSUME NEW o, Control(o), pc' # "keep"
      PROVE  Onward
  <2>1. pc \in Running
    BY <1>6 DEF Control, Running
  <2> QED
    BY <1>1, <1>2, <1>4, <1>6, <2>1 DEF Control
<1>7. ASSUME NEW a \in Arms, BeginArm(a)
      PROVE  Onward
  <2>1. pc \in Running
    BY <1>7 DEF BeginArm, Running
  <2> QED
    BY <1>1, <1>2, <1>4, <1>7, <2>1 DEF BeginArm
<1>8. CASE NeedleMissing
  <2>1. pc \in Running
    BY <1>8 DEF NeedleMissing, Running, ArmPhase
  <2>2. NextArm \/ RestoreThen(Unscored, Scope) \/ Raise("exception")
    BY <1>8 DEF NeedleMissing
  <2> QED
    BY <1>1, <1>2, <1>3, <2>1, <2>2
<1>9. ASSUME NEW o, SuiteEnds(o)
      PROVE  Onward
  <2>1. pc \in Running
    BY <1>9 DEF SuiteEnds, Running, ArmPhase
  <2>2. NextArm \/ (\E next : RestoreThen(next, Scope)) \/ Raise("exception")
    BY <1>9 DEF SuiteEnds
  <2> QED
    BY <1>1, <1>2, <1>3, <2>1, <2>2
<1>10. CASE Restored
  <2>1. pc \in Running
    BY <1>10 DEF Restored, Running, ArmPhase
  <2>2. (\E kind : Stop(kind)) \/ NextArm \/ pc' \in {"plant", "check", "endcontrol"}
    BY <1>10 DEF Restored
  <2> QED
    BY <1>1, <1>3, <1>4, <2>1, <2>2
<1>11. CASE CheckRestored
  <2>1. pc \in Running
    BY <1>11 DEF CheckRestored, Running, ArmPhase
  <2>2. Leave("fail") \/ NextArm
    BY <1>11 DEF CheckRestored
  <2> QED
    BY <1>1, <1>3, <2>1, <2>2
<1>12. CASE EndArms \/ \E o : EndControl(o)
  <2>1. pc \in Running
    BY <1>12 DEF EndArms, EndControl, Running
  <2>2. \/ pc' = "endcontrol" \/ RestoreThen("endcontrol", D.owned)
        \/ (\E kind : Leave(kind)) \/ \E fail : Finish(fail)
    BY <1>12 DEF EndArms, EndControl
  <2> QED
    BY <1>1, <1>2, <1>4, <1>5, <2>1, <2>2
<1>13. CASE Interrupt \/ Terminate \/ Kill
  <2>1. \E kind : Stop(kind) \/ Leave(kind) \/ (Raise(kind) /\ pc \in Running)
    BY <1>13 DEF Interrupt, Terminate, Kill, Running
  <2> QED
    BY <1>1, <2>1
<1>14. CASE RunSuite \/ (Gate /\ pc' = "off")
  BY <1>4, <1>14 DEF RunSuite, Running, ArmPhase, Onward
<1> QED
  BY <1>6, <1>7, <1>8, <1>9, <1>10, <1>11, <1>12, <1>13, <1>14 DEF Later

LEMMA CopyStep ==
  ASSUME TypeInv, TornInv, CopyInv, [Next]_vars
  PROVE  CopyInv'
<1>0. /\ kept \in [Files -> Content] /\ todo \in SUBSET Files /\ D' = D
      /\ D.owned \subseteq Files /\ D.keep \in {"no", "early", "late"}
  BY SameDriver, DisciplineFacts DEF TypeInv, TypeOK
<1>1. ASSUME Quiet, pc' = "off" \/ (pc \in Running /\ pc' \in Running \ {"control"})
      PROVE  CopyInv'
  <2>1. D.keep = "no" => \A f \in Files : kept'[f] = NoCopy
    BY <1>1 DEF Quiet, CopyInv
  <2>2. pc' \in Running => \A f \in Files : kept'[f] \in {NoCopy, snap'[f]}
    BY <1>1 DEF Quiet, CopyInv, Running, HasRead, ArmPhase
  <2>3. pc' \notin {"recover", "gate", "read", "expect", "keep", "control"}
    BY <1>1 DEF Running, ArmPhase
  <2> QED
    BY <1>0, <2>1, <2>2, <2>3 DEF CopyInv
<1>2. CASE Start
  <2>1. pc' \notin Running \cup {"expect", "keep"} /\ todo' = {f \in D.owned : kept[f] # NoCopy}
        /\ writing' = {} /\ kept' = kept
    BY <1>2 DEF Start, Running, ArmPhase, TornInv
  <2>2. D.keep = "no" => \A f \in Files : kept[f] = NoCopy
    BY DEF CopyInv
  <2>3. pc' = "recover" => D.keep # "no"
    BY <1>2 DEF Start
  <2>4. pc' \in {"gate", "read"} => D.keep = "no"
    BY <1>2 DEF Start
  <2> QED
    BY <1>0, <2>1, <2>2, <2>3, <2>4 DEF CopyInv
<1>3. CASE Recover /\ pc' # "recover"
  <2>1. Drop /\ todo = {} /\ todo' = todo /\ pc' \in {"gate", "read"}
    BY <1>3 DEF Recover
  <2> QED
    BY <1>0, <2>1 DEF CopyInv, Drop, Running, ArmPhase
<1>4. CASE Gate /\ pc' # "off"
  <2>1. /\ pc = "gate" /\ UNCHANGED <<kept, todo>>
        /\ pc' \in {"read", "expect", "control", "arms"} \/ (pc' = "keep" /\ D.keep = "early")
    BY <1>4 DEF Gate, AfterRead, AfterExpected, Stop
  <2>2. todo \subseteq D.owned /\ \A f \in Files : kept[f] = NoCopy
    BY <2>1 DEF CopyInv
  <2> QED
    BY <1>0, <2>1, <2>2 DEF CopyInv
<1>5. CASE ReadSnapshot
  <2>1. /\ pc = "read" /\ kept' = kept /\ todo' \subseteq D.owned
        /\ pc' \in {"gate", "expect", "control", "arms"} \/ (pc' = "keep" /\ D.keep = "early")
    BY <1>5 DEF ReadSnapshot, AfterRead, AfterExpected
  <2>2. \A f \in Files : kept[f] = NoCopy
    BY <2>1 DEF CopyInv
  <2> QED
    BY <1>0, <2>1, <2>2 DEF CopyInv
<1>12. CASE ReadExpected
  <2>1. /\ pc = "expect" /\ UNCHANGED <<kept, todo, snap>>
        /\ pc' \in {"control", "arms"} \/ (pc' = "keep" /\ D.keep = "early")
    BY <1>12 DEF ReadExpected, AfterExpected
  <2>2. todo \subseteq D.owned /\ \A f \in Files : kept[f] = NoCopy
    BY <2>1 DEF CopyInv
  <2> QED
    BY <1>0, <2>1, <2>2 DEF CopyInv
<1>6. CASE Keep
  <2>0. /\ pc = "keep" /\ todo \subseteq D.owned /\ D.keep # "no" /\ snap' = snap
        /\ \A f \in Files : kept[f] \in {NoCopy, snap[f]} \/ (f \in todo /\ kept[f] = Torn)
    BY <1>6 DEF Keep, CopyInv, proc
  <2>1. CASE todo = {} /\ pc' \in {"control", "arms"} /\ UNCHANGED <<kept, todo>>
    BY <1>0, <2>0, <2>1 DEF CopyInv
  <2>2. ASSUME NEW f \in todo, pc' = pc,
               \/ kept' = [kept EXCEPT ![f] = snap[f]] /\ todo' = todo \ {f}
               \/ kept' = [kept EXCEPT ![f] = Torn] /\ todo' = todo
        PROVE  CopyInv'
    <3>1. \A g \in Files : \/ kept'[g] \in {NoCopy, snap[g]}
                           \/ g \in todo' /\ kept'[g] = Torn
      BY <1>0, <2>0, <2>2
    <3>2. todo' \subseteq D.owned
      BY <2>0, <2>2
    <3> QED
      BY <1>0, <2>0, <2>2, <3>1, <3>2 DEF CopyInv, Running, ArmPhase
  <2> QED
    BY <1>6, <2>1, <2>2 DEF Keep
<1>7. ASSUME NEW o, Control(o), pc' = "keep"
      PROVE  CopyInv'
  <2>1. /\ pc = "control" /\ D.keep = "late" /\ UNCHANGED <<snap, kept, todo>>
    BY <1>7 DEF Control, Leave, Stop, RestoreThen, proc
  <2>2. todo \subseteq D.owned /\ \A f \in Files : kept[f] \in {NoCopy, snap[f]}
    BY <2>1 DEF CopyInv, Running
  <2> QED
    BY <1>0, <1>7, <2>1, <2>2 DEF CopyInv, Running, ArmPhase
<1>8. ASSUME NEW f \in Files, Plant(f) \/ Restore(f) \/ Recovers(f)
      PROVE  CopyInv'
  <2>1. /\ f \in todo /\ UNCHANGED <<pc, snap, kept>> /\ todo' \subseteq todo
        /\ pc \in ArmPhase \cup {"recover"}
        /\ writing' = {} \/ (pc = "recover" => writing' = {<<f, kept[f]>>})
    <3>1. \E c \in Content :
            /\ pc = "recover" => c = kept[f]
            /\ pc \in {"recover", "restore", "plant"}
            /\ Truncated(f, c) \/ WrittenAtOnce(f, c) \/ \E b \in Content : Completed(f, b)
      BY <1>8, LoopForms
    <3>2. f \in todo /\ UNCHANGED <<pc, snap, kept>>
      BY <1>8, LoopForms DEF proc
    <3> QED
      BY <3>1, <3>2 DEF Truncated, WrittenAtOnce, Completed, ArmPhase
  <2>2. pc = "recover" => \A p \in writing' : p[2] = kept[p[1]]
    BY <2>1
  <2>3. CASE pc = "recover"
    <3>1. todo' \subseteq D.owned /\ \A g \in todo' : kept[g] # NoCopy
      BY <2>1, <2>3 DEF CopyInv
    <3> QED
      BY <1>0, <2>1, <2>2, <2>3, <3>1 DEF CopyInv, Running, ArmPhase
  <2>4. CASE pc \in ArmPhase
    BY <1>0, <2>1, <2>4 DEF CopyInv, Running, ArmPhase
  <2> QED
    BY <2>1, <2>3, <2>4
<1>9. CASE Agent \/ UNCHANGED vars
  <2>1. UNCHANGED <<pc, snap, kept, todo, writing>>
    BY <1>9 DEF Agent, Commit, Edit, Stage, Checkout, vars, proc
  <2> QED
    BY <1>0, <2>1 DEF CopyInv
<1>10. ASSUME Quiet, Later
       PROVE  CopyInv'
  BY <1>1, <1>10, LaterSteps DEF Onward
<1>11. CASE Quiet
  <2>1. \/ Start \/ Recover \/ Gate \/ ReadSnapshot \/ ReadExpected \/ Keep \/ Agent \/ UNCHANGED vars
        \/ Later \/ (\E o : Control(o) /\ pc' = "keep") \/ \E f \in Files : Plant(f) \/ Restore(f)
    BY DEF Next, Step, Suite, Later
  <2> QED
    BY <1>2, <1>3, <1>4, <1>5, <1>6, <1>7, <1>8, <1>9, <1>10, <1>11, <1>12, <2>1, RecoverForms
    DEF Later
<1> QED
  BY <1>5, <1>6, <1>8, <1>9, <1>11, StepForms

(* No file holds an edit that is not made yet, and every edit made has a     *)
(* date; without copies in the tree none is dated after a run that died.    *)
Made(c) == c.edits \subseteq 1..edits

DatedInv ==
  /\ \A e \in 1..edits : when[e] # "never" /\ (D.keep = "no" => when[e] # "stale")
  /\ \A f \in Files : /\ Made(tree[f]) /\ Made(index[f]) /\ Made(head[f])
                      /\ Made(snap[f]) /\ Made(expect[f]) /\ Made(kept[f])
  /\ \A p \in writing : Made(p[2])
  /\ lost \subseteq 1..edits

LEMMA WriteMakes ==
  ASSUME TypeInv, TornInv, DatedInv, D' = D, NEW f \in Files,
         Plant(f) \/ Restore(f) \/ Recovers(f)
  PROVE  DatedInv'
<1>0. tree \in [Files -> Content] /\ f \in Files /\ Made(Torn)
  BY DEF TypeInv, TypeOK, Made, Torn
<1>1. UNCHANGED <<index, head, edits, when, snap, expect, kept>>
  BY LoopForms DEF git, proc
<1>2. PICK c \in Content :
         /\ \/ pc = "recover" /\ c = kept[f]
            \/ pc = "restore" /\ c = IF D.back = "index" THEN index[f] ELSE snap[f]
            \/ pc = "plant" /\ \E b \in {tree[f], snap[f]} : c = [b EXCEPT !.planted = TRUE]
         /\ \/ Truncated(f, c) \/ WrittenAtOnce(f, c) \/ \E b \in Content : Completed(f, b)
  BY LoopForms
<1>3. Made(c)
  <2>1. Made(tree[f]) /\ Made(snap[f]) /\ Made(kept[f]) /\ Made(index[f])
    BY DEF DatedInv
  <2>2. ASSUME NEW b \in {tree[f], snap[f]}, c = [b EXCEPT !.planted = TRUE]
        PROVE  Made(c)
    <3>1. b \in Content
      BY DEF TypeInv, TypeOK
    <3>2. c.edits = b.edits
      BY <2>2, <3>1 DEF Content
    <3> QED
      BY <2>1, <2>2, <3>2 DEF Made
  <2> QED
    BY <1>2, <2>1, <2>2
<1>4. /\ \A g \in Files : tree'[g] = tree[g] \/ Made(tree'[g])
      /\ \A p \in writing' : Made(p[2])
      /\ lost' \subseteq lost \cup tree[f].edits
  <2>1. CASE Truncated(f, c)
    BY <1>0, <1>3, <2>1 DEF Truncated, Loses
  <2>2. CASE WrittenAtOnce(f, c)
    BY <1>0, <1>3, <2>2 DEF WrittenAtOnce, Loses
  <2>3. ASSUME NEW b \in Content, Completed(f, b)
        PROVE  /\ \A g \in Files : tree'[g] = tree[g] \/ Made(tree'[g])
               /\ \A p \in writing' : Made(p[2])
               /\ lost' = lost
    <3>1. Made(b)
      BY <2>3 DEF Completed, DatedInv
    <3> QED
      BY <1>0, <2>3, <3>1 DEF Completed
  <2> QED
    BY <1>2, <2>1, <2>2, <2>3
<1>5. lost' \subseteq 1..edits
  BY <1>4 DEF DatedInv, Made
<1>6. \A g \in Files : Made(tree'[g])
  BY <1>4 DEF DatedInv
<1> QED
  BY <1>1, <1>4, <1>5, <1>6 DEF DatedInv, Made

LEMMA AgentMakes ==
  ASSUME TypeInv, CopyInv, DatedInv, D' = D, Agent
  PROVE  DatedInv'
<1>0. /\ tree \in [Files -> Content] /\ index \in [Files -> Content] /\ edits \in Nat
      /\ when \in [1..MaxEdits -> {"never", "rest", "stale", "run", "gap", "arm"}] /\ MaxEdits \in Nat
  BY BoundsAssumption DEF TypeInv, TypeOK
<1>1. UNCHANGED <<snap, expect, kept, writing, lost>>
  BY DEF Agent, Commit, Edit, Stage, Checkout, proc, hist
<1>2. CASE Commit \/ \E f \in Files : Stage(f) \/ Checkout(f)
  <2>1. edits' = edits /\ when' = when
    BY <1>2 DEF Commit, Stage, Checkout, git
  <2>2. \A f \in Files : /\ tree'[f] \in {tree[f], index[f]} /\ index'[f] \in {tree[f], index[f]}
                         /\ head'[f] \in {head[f], index[f]}
    BY <1>0, <1>2 DEF Commit, Stage, Checkout, git
  <2> QED
    BY <1>1, <2>1, <2>2 DEF DatedInv, Made
<1>3. ASSUME NEW f \in Files, Edit(f)
      PROVE  DatedInv'
  <2>1. /\ edits' = edits + 1 /\ edits + 1 \in 1..MaxEdits /\ UNCHANGED <<index, head>>
        /\ tree' = [tree EXCEPT ![f].edits = @ \cup {edits + 1}]
    BY <1>0, <1>3 DEF Edit
  <2>2. 1..edits' = (1..edits) \cup {edits + 1}
    BY <1>0, <2>1
  <2>3. \A g \in Files : tree'[g].edits \subseteq tree[g].edits \cup {edits + 1}
    <3>1. tree[f] \in Content
      BY <1>0
    <3> QED
      BY <1>0, <2>1, <3>1 DEF Content
  <2>4. when'[edits + 1] \in {"rest", "stale", "run", "gap", "arm"} /\ (D.keep = "no" => when'[edits + 1] # "stale")
    <3>1. when'[edits + 1] = IF pc = "off" THEN IF \A g \in Files : kept[g] = NoCopy THEN "rest" ELSE "stale"
                             ELSE IF pc \in ArmPhase THEN "arm" ELSE IF Gap THEN "gap" ELSE "run"
      BY <1>0, <1>3, <2>1 DEF Edit
    <3>2. D.keep = "no" => \A g \in Files : kept[g] = NoCopy
      BY DEF CopyInv
    <3> QED
      BY <3>1, <3>2
  <2>5. \A e \in 1..edits : when'[e] = when[e]
    BY <1>0, <1>3, <2>1 DEF Edit
  <2>6. \A e \in 1..edits' : when'[e] # "never" /\ (D.keep = "no" => when'[e] # "stale")
    BY <2>2, <2>4, <2>5 DEF DatedInv
  <2>7. \A g \in Files : (Made(tree[g]))'
    BY <2>2, <2>3 DEF DatedInv, Made
  <2> QED
    BY <1>1, <2>1, <2>2, <2>6, <2>7 DEF DatedInv, Made
<1> QED
  BY <1>2, <1>3 DEF Agent

LEMMA DatedStep ==
  ASSUME TypeInv, TornInv, CopyInv, DatedInv, [Next]_vars
  PROVE  DatedInv'
<1>0. D' = D /\ kept \in [Files -> Content]
  BY SameDriver DEF TypeInv, TypeOK
<1>1. CASE Quiet
  <2>1. Made(Clean) /\ Made(NoCopy)
    BY DEF Made, Clean, NoCopy
  <2>2. UNCHANGED <<tree, index, head, edits, when, lost>> /\ writing' = {}
    BY <1>1 DEF Quiet, git
  <2>3. \A f \in Files : /\ kept'[f] \in {kept[f], NoCopy} /\ snap'[f] \in {snap[f], Clean}
                         /\ expect'[f] \in {expect[f], tree[f], Clean}
    BY <1>1 DEF Quiet
  <2> QED
    BY <1>0, <2>1, <2>2, <2>3 DEF DatedInv, Made
<1>2. CASE Keep /\ pc' = "keep"
  <2>1. Made(Torn)
    BY DEF Made, Torn
  <2>2. UNCHANGED <<tree, index, head, snap, expect, edits, when, lost, writing>>
    BY <1>2 DEF Keep, git, proc, hist
  <2>3. \A f \in Files : kept'[f] \in {kept[f], snap[f], Torn}
    BY <1>0, <1>2 DEF Keep
  <2> QED
    BY <1>0, <2>1, <2>2, <2>3 DEF DatedInv, Made
<1>3. CASE ReadSnapshot
  BY <1>0, <1>3 DEF ReadSnapshot, DatedInv, Made, git, hist
<1>4. CASE UNCHANGED vars
  BY <1>0, <1>4 DEF vars, git, proc, hist, DatedInv, Made
<1> QED
  BY <1>0, <1>1, <1>2, <1>3, <1>4, WriteMakes, AgentMakes, StepForms

(* Where the edits that are not exposed are to be found.  An edit is in play  *)
(* while the file, or what is being written to it, holds it.                *)
Unexposed == {e \in 1..edits : when[e] \notin Exposed}
InPlay(e, f) == e \in tree[f].edits \/ \E p \in writing : p[1] = f /\ e \in p[2].edits
InGit(e, f) == e \in index[f].edits \/ e \in head[f].edits

LostInv == \A e \in lost : e \notin Unexposed

(* What a driver that looks compares its files with, once it has it: the     *)
(* snapshot, or a second reading, which does not come before the snapshot's. *)
Compares == pc \notin {"gate", "expect"} \/ (pc = "gate" /\ D.expects = "snapshot")
ExpectInv ==
  /\ pc = "expect" => D.expects = "reread"
  /\ HasRead /\ D.expects = "snapshot" => expect = snap

(* A driver that looks before every arm writes only what it found unchanged. *)
LooksInv == pc \in ArmPhase => arm \in D.arms /\ todo \subseteq Scope

(* The files a driver that has its snapshot may still come to write: all of  *)
(* them, or, when it looks, those that it would find unchanged.             *)
Relies(f) ==
  /\ HasRead
  /\ Looks(driver) /\ Compares => \/ tree[f] = expect[f]
                                  \/ pc \in ArmPhase /\ f \in Scope

(* A driver that checks, then reads, or that compares with what it has read: *)
(* for such a file the snapshot holds them.                                 *)
Holds(c, f) == \A e \in Unexposed : InPlay(e, f) => e \in c.edits

CarefulInv == \A f \in Files : Relies(f) => Holds(snap[f], f)

(* A driver that takes its baseline in a roundabout way: as long as no       *)
(* damaged file is staged, whatever is whole holds what git holds; what the *)
(* driver may write back holds them, or is damaged and the index does; and  *)
(* what is about to be copied into the tree is in the index.                *)
Faithful(c, f) == c.whole => \A e \in Unexposed : InGit(e, f) => e \in c.edits
Covers(c, f) ==
  /\ Faithful(c, f)
  /\ \A e \in Unexposed : InPlay(e, f) => e \in c.edits \/ (~c.whole /\ e \in index[f].edits)

Unkept == pc \in {"expect", "keep"} \/ (pc = "control" /\ D.keep = "late") \/ (pc = "read" /\ D.gateFirst)

RoundInv ==
  /\ \A f \in Files : /\ Faithful(tree[f], f)
                      /\ \A e \in Unexposed : e \in head[f].edits => e \in index[f].edits
  /\ \A p \in writing : Faithful(p[2], p[1])
  /\ \A f \in Files : /\ Relies(f) => Covers(snap[f], f)
                      /\ kept[f] # NoCopy => Covers(kept[f], f)
  /\ D.keep # "no" /\ Unkept =>
       \A f \in D.owned : \A e \in Unexposed : e \in tree[f].edits => e \in index[f].edits

PreserveInv ==
  /\ LostInv
  /\ ExpectInv
  /\ Looks(driver) => LooksInv
  /\ ~Roundabout => CarefulInv
  /\ Roundabout => RoundInv

(* Nothing is unexposed where every edit is exposed. *)
LEMMA NoneUnexposed ==
  ASSUME TypeInv, DatedInv, Preserving,
         D.back = "index" \/ (tainted /\ Roundabout)
  PROVE  Unexposed = {}
<1>1. ASSUME NEW e \in 1..edits
      PROVE  when[e] \in Exposed
  <2>1. e \in 1..MaxEdits
    BY BoundsAssumption DEF TypeInv, TypeOK
  <2>2. when[e] \in {"rest", "stale", "run", "gap", "arm"} /\ (D.keep = "no" => when[e] # "stale")
    BY <2>1 DEF TypeInv, TypeOK, DatedInv
  <2>3. {"arm", "gap", "run", "rest"} \subseteq Exposed /\ (D.keep # "no" => "stale" \in Exposed)
    BY DEF Exposed
  <2> QED
    BY <2>2, <2>3
<1> QED
  BY <1>1 DEF Unexposed

(* An edit stays exposed, and only a new one becomes unexposed. *)
LEMMA SameExposure ==
  ASSUME UNCHANGED <<driver, git>>
  PROVE  Unexposed' = Unexposed
BY DEF Unexposed, Exposed, Roundabout, D, git

LEMMA ExposureStep ==
  ASSUME TypeInv, Agent
  PROVE  /\ D' = D /\ driver' = driver
         /\ (\A f \in Files : ~Edit(f)) => Unexposed' \subseteq Unexposed
         /\ Unexposed' \subseteq Unexposed \cup {edits + 1}
<1>0. D' = D /\ driver' = driver /\ edits \in Nat /\ MaxEdits \in Nat
  BY BoundsAssumption DEF Agent, Commit, Edit, Stage, Checkout, D, TypeInv, TypeOK
<1>1. tainted => tainted'
  <2>1. ASSUME NEW f \in Files, Stage(f)
        PROVE  tainted => tainted'
    BY <2>1, Zenon DEF Stage
  <2> QED
    BY <2>1 DEF Agent, Commit, Edit, Checkout, git
<1>2. Exposed \subseteq Exposed'
  BY <1>0, <1>1 DEF Exposed, Roundabout
<1>3. CASE \A f \in Files : ~Edit(f)
  <2>1. edits' = edits /\ when' = when
    BY <1>3 DEF Agent, Commit, Stage, Checkout, git
  <2> QED
    BY <1>0, <1>2, <2>1 DEF Unexposed
<1>4. ASSUME NEW f \in Files, Edit(f)
      PROVE  Unexposed' \subseteq Unexposed \cup {edits + 1}
  <2>1. 1..edits' = (1..edits) \cup {edits + 1} /\ edits + 1 \in 1..MaxEdits
    BY <1>0, <1>4 DEF Edit
  <2>2. \A e \in 1..edits : when'[e] = when[e]
    <3>1. when \in [1..MaxEdits -> {"never", "rest", "stale", "run", "gap", "arm"}]
      BY DEF TypeInv, TypeOK
    <3> QED
      BY <1>0, <1>4, <2>1, <3>1 DEF Edit
  <2> QED
    BY <1>2, <2>1, <2>2 DEF Unexposed
<1> QED
  BY <1>0, <1>3, <1>4

(* When the new edit may be unexposed. *)
LEMMA NewUnexposed ==
  ASSUME TypeInv, CopyInv, NEW f \in Files, Edit(f), edits + 1 \in Unexposed'
  PROVE  /\ pc \notin ArmPhase /\ ~Gap
         /\ ~Looks(driver) => pc = "off"
         /\ pc = "off" => \A g \in Files : kept[g] = NoCopy
<1>0. D' = D /\ driver' = driver /\ edits + 1 \in 1..MaxEdits
  BY BoundsAssumption DEF Edit, D, TypeInv, TypeOK
<1>1. when \in [1..MaxEdits -> {"never", "rest", "stale", "run", "gap", "arm"}]
  BY DEF TypeInv, TypeOK
<1>2. when'[edits + 1] = IF pc = "off" THEN IF \A g \in Files : kept[g] = NoCopy THEN "rest" ELSE "stale"
                         ELSE IF pc \in ArmPhase THEN "arm" ELSE IF Gap THEN "gap" ELSE "run"
  BY <1>0, <1>1 DEF Edit
<1>3. when'[edits + 1] \notin Exposed'
  BY DEF Unexposed
<1>4. /\ "arm" \in Exposed' /\ "gap" \in Exposed' /\ (~Looks(driver) => "run" \in Exposed')
      /\ D.keep # "no" => "stale" \in Exposed'
  BY <1>0 DEF Exposed
<1>5. D.keep = "no" => \A g \in Files : kept[g] = NoCopy
  BY DEF CopyInv
<1>6. (pc \in ArmPhase => pc # "off") /\ (Gap => pc # "off" /\ pc \notin ArmPhase)
  BY DEF ArmPhase, Gap
<1> QED
  BY <1>2, <1>3, <1>4, <1>5, <1>6

(* What a write puts where, and what it takes from whom. *)
LEMMA WriteFlow ==
  ASSUME TypeInv, TornInv, NEW f \in Files, NEW c \in Content,
         Truncated(f, c) \/ WrittenAtOnce(f, c) \/ \E b \in Content : Completed(f, b)
  PROVE  /\ \A g \in Files : \A e : InPlay(e, g)' => InPlay(e, g) \/ (g = f /\ e \in c.edits)
         /\ \A g \in Files : \/ tree'[g] = tree[g]
                             \/ g = f /\ (tree'[f] \in {Torn, c} \/ <<f, tree'[f]>> \in writing)
         /\ \A p \in writing' : p[1] = f /\ p[2] = c
         /\ \A e \in lost' : \/ e \in lost
                             \/ e \in tree[f].edits /\ e \notin c.edits /\ ~InGit(e, f)
<1>0. tree \in [Files -> Content]
  BY DEF TypeInv, TypeOK
<1>1. CASE Truncated(f, c)
  <2>1. /\ tree'[f] = Torn /\ \A g \in Files : g # f => tree'[g] = tree[g]
        /\ writing' = {<<f, c>>}
    BY <1>0, <1>1 DEF Truncated
  <2>2. \A e : e \notin Torn.edits
    BY DEF Torn
  <2>3. \A g \in Files : \A e : InPlay(e, g)' => InPlay(e, g) \/ (g = f /\ e \in c.edits)
    BY <2>1, <2>2 DEF InPlay
  <2>4. \A e \in lost' : e \in lost \/ (e \in tree[f].edits /\ e \notin c.edits /\ ~InGit(e, f))
    BY <1>1 DEF Truncated, Loses, InGit
  <2>5. \A p \in writing' : p[1] = f /\ p[2] = c
    BY <2>1
  <2> QED
    BY <2>1, <2>3, <2>4, <2>5
<1>2. CASE WrittenAtOnce(f, c)
  <2>1. /\ tree'[f] = c /\ \A g \in Files : g # f => tree'[g] = tree[g]
        /\ writing' = {}
    BY <1>0, <1>2 DEF WrittenAtOnce
  <2>3. \A g \in Files : \A e : InPlay(e, g)' => InPlay(e, g) \/ (g = f /\ e \in c.edits)
    BY <2>1 DEF InPlay
  <2>4. \A e \in lost' : e \in lost \/ (e \in tree[f].edits /\ e \notin c.edits /\ ~InGit(e, f))
    BY <1>2 DEF WrittenAtOnce, Loses, InGit
  <2> QED
    BY <2>1, <2>3, <2>4
<1>3. ASSUME NEW b \in Content, Completed(f, b)
      PROVE  /\ \A g \in Files : \A e : InPlay(e, g)' => InPlay(e, g)
             /\ \A g \in Files : tree'[g] = tree[g] \/ (g = f /\ <<f, tree'[f]>> \in writing)
             /\ writing' = {} /\ lost' = lost
  <2>1. /\ tree'[f] = b /\ \A g \in Files : g # f => tree'[g] = tree[g]
        /\ writing' = {} /\ <<f, b>> \in writing
    BY <1>0, <1>3 DEF Completed
  <2>2. \A e \in b.edits : InPlay(e, f)
    BY <2>1 DEF InPlay
  <2> QED
    BY <1>3, <2>1, <2>2 DEF InPlay, Completed
<1> QED
  BY <1>1, <1>2, <1>3

-----------------------------------------------------------------------------
(* What a driver puts in place of a file that holds an unexposed edit holds  *)
(* it too, or git does.                                                     *)
Keeps(f, c) ==
  \A e \in Unexposed : e \in tree[f].edits => e \in c.edits \/ InGit(e, f)

LEMMA LostKept ==
  ASSUME TypeInv, TornInv, LostInv, NEW f \in Files, NEW c \in Content, Keeps(f, c),
         Unexposed' = Unexposed,
         Truncated(f, c) \/ WrittenAtOnce(f, c) \/ \E b \in Content : Completed(f, b)
  PROVE  LostInv'
<1>1. \A e \in lost' : \/ e \in lost
                       \/ e \in tree[f].edits /\ e \notin c.edits /\ ~InGit(e, f)
  BY WriteFlow
<1> QED
  BY <1>1 DEF LostInv, Keeps

(* Where the bytes come from that a driver writes when it keeps no copies:   *)
(* they hold the edits of the file itself or of its snapshot.               *)
LEMMA PlainSource ==
  ASSUME TypeInv, TornInv, CopyInv, D.keep = "no", D.back = "snapshot", NEW f \in Files,
         Plant(f) \/ Restore(f) \/ Recovers(f)
  PROVE  /\ pc \in {"plant", "restore"} /\ f \in todo
         /\ UNCHANGED <<driver, pc, git, proc, kept>>
         /\ \E c \in Content :
              /\ c.edits \in {tree[f].edits, snap[f].edits}
              /\ Truncated(f, c) \/ WrittenAtOnce(f, c) \/ \E b \in Content : Completed(f, b)
<1>1. tree[f] \in Content /\ snap[f] \in Content /\ pc # "recover"
  BY DEF TypeInv, TypeOK, CopyInv
<1>2. f \in todo /\ UNCHANGED <<driver, pc, git, proc, kept>>
  BY LoopForms
<1>3. PICK c \in Content :
        /\ \/ pc = "restore" /\ c = snap[f]
           \/ pc = "plant" /\ \E b \in {tree[f], snap[f]} : c = [b EXCEPT !.planted = TRUE]
        /\ Truncated(f, c) \/ WrittenAtOnce(f, c) \/ \E b \in Content : Completed(f, b)
  BY <1>1, LoopForms
<1>4. c.edits \in {tree[f].edits, snap[f].edits}
  <2>1. ASSUME NEW b \in {tree[f], snap[f]}, c = [b EXCEPT !.planted = TRUE]
        PROVE  c.edits = b.edits
    BY <1>1, <2>1 DEF Content
  <2> QED
    BY <1>3, <2>1
<1> QED
  BY <1>2, <1>3, <1>4

(* Only a write loses anything. *)
LEMMA LostStill ==
  ASSUME TypeInv, DatedInv, LostInv, driver' = driver,
         Quiet \/ Keep \/ ReadSnapshot \/ Agent \/ UNCHANGED vars
  PROVE  LostInv'
<1>1. CASE ~Agent
  <2>1. UNCHANGED <<driver, git, lost>>
    BY <1>1 DEF Quiet, Keep, ReadSnapshot, vars, hist
  <2> QED
    BY <2>1, SameExposure DEF LostInv
<1>2. CASE Agent
  <2>1. lost' = lost
    BY <1>2 DEF Agent, Commit, Edit, Stage, Checkout, hist
  <2>2. edits + 1 \notin lost
    BY BoundsAssumption DEF DatedInv, TypeInv, TypeOK
  <2> QED
    BY <1>2, <2>1, <2>2, ExposureStep DEF LostInv
<1> QED
  BY <1>1, <1>2

(* What the checks compare with stays what it is from then on. *)
LEMMA ExpectStays ==
  ASSUME Later, pc' # "off"
  PROVE  expect' = expect
<1>1. ASSUME NEW kind, Stop(kind) \/ Leave(kind) \/ Raise(kind)
      PROVE  expect' = expect
  BY <1>1 DEF Stop, Leave, Raise
<1>2. ASSUME NEW fail, Finish(fail)
      PROVE  expect' = expect
  BY <1>1, <1>2 DEF Finish
<1>3. CASE \E o : Control(o) \/ EndControl(o)
  BY <1>1, <1>2, <1>3 DEF Control, EndControl, proc
<1>4. CASE EndArms \/ \E a \in Arms : BeginArm(a)
  BY <1>1, <1>2, <1>4 DEF BeginArm, EndArms, proc
<1>5. CASE NeedleMissing \/ RunSuite \/ Restored \/ CheckRestored
  BY <1>1, <1>5 DEF NeedleMissing, RunSuite, Restored, CheckRestored, proc
<1>6. CASE \E o : SuiteEnds(o)
  BY <1>1, <1>6 DEF SuiteEnds
<1>7. CASE Interrupt \/ Terminate \/ Kill
  BY <1>1, <1>7 DEF Interrupt, Terminate, Kill
<1> QED
  BY <1>3, <1>4, <1>5, <1>6, <1>7 DEF Later

(* The steps up to the first arm, and the ones after it. *)
LEMMA Parts ==
  ASSUME Start \/ Step \/ Suite \/ Interrupt \/ Terminate \/ Kill
  PROVE  \/ Start \/ Recover \/ Gate \/ ReadSnapshot \/ ReadExpected \/ Keep \/ Later
         \/ \E o : Control(o) /\ pc' = "keep"
         \/ \E f \in Files : Plant(f) \/ Restore(f)
BY DEF Step, Suite, Later

LEMMA ExpectStep ==
  ASSUME TypeInv, TornInv, CopyInv, ExpectInv, [Next]_vars
  PROVE  ExpectInv'
<1>0. D' = D
  BY SameDriver
<1>1. CASE Agent \/ UNCHANGED vars \/ \E f \in Files : Plant(f) \/ Restore(f)
  <2>1. UNCHANGED <<pc, snap, expect>>
    BY <1>1 DEF Agent, Commit, Edit, Stage, Checkout, Plant, Restore, vars, proc
  <2> QED
    BY <1>0, <2>1 DEF ExpectInv, HasRead
<1>2. CASE Start \/ Recover
  <2>1. pc' \in {"recover", "read"} \/ (pc' = "gate" /\ D.gateFirst)
    BY <1>2 DEF Start, Recover
  <2> QED
    BY <1>0, <2>1 DEF ExpectInv, HasRead, Running, ArmPhase
<1>3. CASE Gate
  <2>1. CASE pc' = "off"
    BY <2>1 DEF ExpectInv, HasRead, Running, ArmPhase
  <2>2. CASE pc' # "off"
    <3>1. /\ pc = "gate" /\ snap' = snap /\ pc' = IF D.gateFirst THEN "read" ELSE AfterRead
          /\ D.expects = "snapshot" => expect' = expect
      BY <1>3, <2>2 DEF Gate, Stop
    <3>2. pc' = "expect" => D.expects = "reread"
      BY <3>1 DEF AfterRead, AfterExpected
    <3>3. HasRead' => HasRead
      BY <1>0, <3>1 DEF HasRead, Running, ArmPhase
    <3> QED
      BY <1>0, <3>1, <3>2, <3>3 DEF ExpectInv
  <2> QED
    BY <2>1, <2>2
<1>4. CASE ReadSnapshot
  <2>1. pc' = "expect" => D.expects = "reread"
    BY <1>4 DEF ReadSnapshot, AfterRead, AfterExpected
  <2> QED
    BY <1>0, <1>4, <2>1 DEF ReadSnapshot, ExpectInv
<1>5. CASE ReadExpected
  BY <1>0, <1>5 DEF ReadExpected, AfterExpected, ExpectInv
<1>6. CASE Keep \/ \E o : Control(o) /\ pc' = "keep"
  <2>1. pc \in {"keep", "control"} /\ pc' # "expect" /\ UNCHANGED <<snap, expect>>
    BY <1>6 DEF Keep, Control, Leave, Stop, RestoreThen, proc
  <2> QED
    BY <1>0, <2>1 DEF ExpectInv, HasRead, Running
<1>7. CASE Later
  <2>1. pc' = "off" \/ (pc \in Running /\ pc' \in Running /\ expect' = expect)
    BY <1>7, LaterSteps, ExpectStays DEF Onward
  <2>2. HasRead' => snap' = snap
    <3> SUFFICES ASSUME HasRead' PROVE snap' = snap
      OBVIOUS
    <3>1. ~ReadSnapshot /\ ~(Keep /\ pc' = "keep") /\ ~(Recover /\ pc' = "recover")
      BY <2>1 DEF HasRead, ReadSnapshot, Keep, Recover, Running, ArmPhase
    <3>2. CASE \A f \in Files : ~Plant(f) /\ ~Restore(f)
      <4>1. Step \/ Suite \/ Interrupt \/ Terminate \/ Kill \/ Agent \/ Start \/ UNCHANGED vars
        BY DEF Next
      <4>2. CASE Agent \/ UNCHANGED vars
        BY <4>2 DEF Agent, Commit, Edit, Stage, Checkout, vars, proc
      <4> QED
        BY <3>1, <3>2, <4>1, <4>2, QuietSteps DEF Quiet
    <3> QED
      BY <3>2 DEF Plant, Restore, proc
  <2> QED
    BY <1>0, <2>1, <2>2 DEF ExpectInv, HasRead, Running, ArmPhase
<1> QED
  BY <1>1, <1>2, <1>3, <1>4, <1>5, <1>6, <1>7, Parts DEF Next

(* Drivers that look before every arm: an arm begins with its files as the   *)
(* checks expect them, and nothing else ever leads to a write.              *)
LEMMA LooksFacts ==
  ASSUME TypeInv, Preserving, Looks(driver)
  PROVE  /\ D.before = "assert" /\ ~D.runFinally /\ ~D.redRestores
         /\ D.keep = "no" /\ D.back = "snapshot" /\ ~D.endRewrites
BY PreservingFacts DEF Looks, D

StaysInArm ==
  pc \in ArmPhase /\ arm' = arm /\ (todo' \subseteq Scope \/ todo' = todo \/ todo' = arm.files)

LEMMA LooksForms ==
  ASSUME TypeInv, CopyInv, Preserving, Looks(driver), Step \/ Suite \/ Start \/ Interrupt \/ Terminate \/ Kill,
         \A f \in Files : ~Plant(f) /\ ~Restore(f), pc' \in ArmPhase
  PROVE  \/ StaysInArm
         \/ \E a \in D.arms : /\ arm' = a /\ todo' = a.files /\ pc = "arms"
                              /\ ~Drifted(Checked(a))
<1> USE LooksFacts
<1>1. ASSUME NEW kind, Stop(kind) \/ Leave(kind)
      PROVE  FALSE
  BY <1>1 DEF Stop, Leave, ArmPhase
<1>2. ASSUME Raise("exception"), pc \in ArmPhase
      PROVE  StaysInArm
  <2>1. RestoreThen("exit", Scope) /\ arm' = arm
    BY <1>1, <1>2 DEF Raise
  <2> QED
    BY <1>2, <2>1 DEF RestoreThen, StaysInArm
<1>3. ASSUME NEW next, RestoreThen(next, Scope), pc \in ArmPhase, arm' = arm
      PROVE  StaysInArm
  BY <1>3 DEF RestoreThen, StaysInArm
<1>4. pc' \notin {"off", "recover", "gate", "read", "expect", "keep", "control", "arms", "endcontrol"}
  BY DEF ArmPhase
<1>5. ~(Start \/ Recover \/ Gate \/ ReadSnapshot \/ ReadExpected \/ Keep)
  <2>1. ~Start /\ ~Recover
    BY <1>4 DEF Start, Recover, CopyInv
  <2>2. ~Gate /\ ~ReadSnapshot /\ ~ReadExpected /\ ~Keep
    BY <1>1, <1>4 DEF Gate, ReadSnapshot, ReadExpected, Keep, AfterRead, AfterExpected
  <2> QED
    BY <2>1, <2>2
<1>6. ASSUME NEW o, Control(o) \/ EndControl(o) \/ EndArms
      PROVE  FALSE
  BY <1>1, <1>4, <1>6 DEF Control, EndControl, EndArms, Finish
<1>7. ASSUME NEW a \in Arms, BeginArm(a)
      PROVE  a \in D.arms /\ arm' = a /\ todo' = a.files /\ pc = "arms" /\ ~Drifted(Checked(a))
  BY <1>1, <1>7 DEF BeginArm
<1>8. ASSUME NeedleMissing
      PROVE  StaysInArm
  <2>1. pc \in ArmPhase /\ ~NextArm
    BY <1>4, <1>8 DEF NeedleMissing, ArmPhase, NextArm
  <2> QED
    BY <1>2, <1>3, <1>8, <2>1 DEF NeedleMissing
<1>9. ASSUME NEW o, SuiteEnds(o)
      PROVE  StaysInArm
  <2>1. pc \in ArmPhase /\ ~NextArm
    BY <1>4, <1>9 DEF SuiteEnds, ArmPhase, NextArm
  <2> QED
    BY <1>2, <1>3, <1>9, <2>1 DEF SuiteEnds
<1>10. ASSUME RunSuite
       PROVE  StaysInArm
  BY <1>10 DEF RunSuite, StaysInArm, ArmPhase, proc
<1>11. ASSUME Restored
       PROVE  StaysInArm
  BY <1>1, <1>4, <1>11 DEF Restored, NextArm, StaysInArm, ArmPhase, proc
<1>12. ~CheckRestored
  BY <1>1, <1>4 DEF CheckRestored, NextArm
<1>13. ASSUME Interrupt \/ Terminate \/ Kill
       PROVE  StaysInArm
  BY <1>1, <1>2, <1>13 DEF Interrupt, Terminate, Kill
<1> QED
  BY <1>5, <1>6, <1>7, <1>8, <1>9, <1>10, <1>11, <1>12, <1>13 DEF Step, Suite

LEMMA LooksStep ==
  ASSUME TypeInv, TornInv, CopyInv, LooksInv, Preserving, Looks(driver), [Next]_vars
  PROVE  LooksInv'
<1> USE LooksFacts
<1>0. D' = D /\ D.owned \subseteq Files
  BY SameDriver, PreservingFacts
<1>a. \A a \in D.arms : a.files \subseteq Checked(a)
  BY PreservingFacts DEF Checked
<1>b. Scope = Checked(arm) /\ Scope' = Checked(arm')
  BY <1>0 DEF Scope, Checked
<1>1. CASE /\ Start \/ Step \/ Suite \/ Interrupt \/ Terminate \/ Kill
           /\ \A f \in Files : ~Plant(f) /\ ~Restore(f)
  <2> SUFFICES ASSUME pc' \in ArmPhase PROVE LooksInv'
    BY DEF LooksInv
  <2>1. CASE StaysInArm
    <3>1. arm \in D.arms /\ todo \subseteq Scope /\ Scope' = Scope /\ arm' = arm
      BY <1>b, <2>1 DEF LooksInv, StaysInArm
    <3>2. todo' \subseteq Scope
      BY <1>a, <1>b, <2>1, <3>1 DEF StaysInArm
    <3> QED
      BY <1>0, <3>1, <3>2 DEF LooksInv
  <2>2. ASSUME NEW a \in D.arms, arm' = a, todo' = a.files
        PROVE  LooksInv'
    BY <1>0, <1>a, <1>b, <2>2 DEF LooksInv
  <2> QED
    BY <1>1, <2>1, <2>2, LooksForms
<1>2. ASSUME NEW f \in Files, Plant(f) \/ Restore(f)
      PROVE  LooksInv'
  <2>1. UNCHANGED <<pc, arm>> /\ todo' \subseteq todo
    BY <1>2 DEF Plant, Restore, Write, proc
  <2> QED
    BY <1>0, <1>b, <2>1 DEF LooksInv
<1>3. CASE Agent \/ UNCHANGED vars
  <2>1. UNCHANGED <<pc, arm, todo>>
    BY <1>3 DEF Agent, Commit, Edit, Stage, Checkout, vars, proc
  <2> QED
    BY <1>0, <1>b, <2>1 DEF LooksInv
<1> QED
  BY <1>1, <1>2, <1>3 DEF Next

(* The files a driver relies on become more only when it reads its snapshot. *)
LEMMA RelyQuiet ==
  ASSUME TypeInv, TornInv, CopyInv, Preserving,
         Start \/ Step \/ Suite \/ Interrupt \/ Terminate \/ Kill,
         Quiet \/ (Keep /\ pc' = "keep"), NEW f \in Files, Relies(f)'
  PROVE  Relies(f) /\ snap' = snap
<1>0. D' = D /\ driver' = driver /\ tree' = tree
  BY SameDriver DEF Next, Quiet, Keep
<1>1. HasRead /\ HasRead' /\ snap' = snap
  BY DEF Relies, Quiet, Keep, HasRead, proc
<1>2. SUFFICES ASSUME Looks(driver), Compares
               PROVE  tree[f] = expect[f] \/ (pc \in ArmPhase /\ f \in Scope)
  BY <1>1 DEF Relies
<1>3. pc \notin {"off", "recover", "read", "expect", "keep"} /\ pc' # "keep"
  <2>1. D.keep = "no" /\ D'.keep = "no"
    BY <1>0, <1>2, LooksFacts
  <2>2. pc # "keep" /\ ~Keep
    BY <2>1 DEF CopyInv, Keep
  <2>3. pc' = "keep" => Gate \/ ReadExpected \/ \E o : Control(o)
    BY <1>1, <2>2, Parts, LaterSteps DEF HasRead, Running, ArmPhase, Onward, Start, Recover,
       ReadSnapshot, Plant, Restore
  <2>4. pc' # "keep"
    BY <2>1, <2>3 DEF Gate, Stop, ReadExpected, AfterRead, AfterExpected, Control, Leave, RestoreThen
  <2> QED
    BY <1>1, <1>2, <2>2, <2>4 DEF HasRead, Running, ArmPhase, Compares
<1>4. pc' \notin {"gate", "expect"} /\ expect' = expect
  <2>1. CASE Gate
    <3>1. /\ pc = "gate" /\ D.expects = "snapshot" /\ pc' = AfterRead /\ expect' = expect
      BY <1>1, <1>2, <2>1 DEF Gate, Stop, Compares, HasRead, Running, ArmPhase
    <3> QED
      BY <3>1 DEF AfterRead, AfterExpected
  <2>2. CASE Later
    BY <1>1, <2>2, LaterSteps, ExpectStays DEF Onward, HasRead, Running, ArmPhase
  <2>3. ASSUME NEW g \in Files, Plant(g) \/ Restore(g)
        PROVE  UNCHANGED <<pc, expect>>
    BY <2>3 DEF Plant, Restore, proc
  <2> QED
    BY <1>1, <1>2, <1>3, <2>1, <2>2, <2>3, Parts
    DEF Start, Recover, ReadSnapshot, ReadExpected, Keep, HasRead, Running, ArmPhase, Compares, Plant, Restore
<1>5. tree[f] = expect[f] \/ (pc' \in ArmPhase /\ f \in Scope')
  <2>1. Looks(driver)' /\ Compares'
    BY <1>0, <1>2, <1>4 DEF Looks, Compares
  <2> QED
    BY <1>0, <1>4, <2>1 DEF Relies
<1>6. ASSUME pc' \in ArmPhase, f \in Scope'
      PROVE  tree[f] = expect[f] \/ (pc \in ArmPhase /\ f \in Scope)
  <2>1. ASSUME NEW g \in Files, Plant(g) \/ Restore(g)
        PROVE  pc \in ArmPhase /\ f \in Scope
    <3>1. UNCHANGED <<pc, arm>>
      BY <2>1 DEF Plant, Restore, proc
    <3> QED
      BY <1>0, <1>6, <3>1 DEF Scope
  <2>2. CASE StaysInArm
    BY <1>0, <1>6, <2>2 DEF StaysInArm, Scope
  <2>3. ASSUME NEW a \in D.arms, arm' = a, ~Drifted(Checked(a))
        PROVE  tree[f] = expect[f]
    <3>1. f \in Checked(a)
      BY <1>0, <1>6, <2>3 DEF Scope, Checked
    <3> QED
      BY <2>3, <3>1 DEF Drifted
  <2> QED
    BY <1>2, <1>6, <2>1, <2>2, <2>3, LooksForms
<1> QED
  BY <1>5, <1>6

LEMMA RelyWrite ==
  ASSUME TypeInv, TornInv, CopyInv, Preserving, Looks(driver) => LooksInv,
         D' = D, NEW f \in Files, Plant(f) \/ Restore(f) \/ Recovers(f)
  PROVE  /\ \A g \in Files : Relies(g)' => Relies(g)
         /\ pc \in ArmPhase => Relies(f)
<1>1. /\ f \in todo /\ pc \in ArmPhase \cup {"recover"}
      /\ UNCHANGED <<driver, pc, snap, expect, arm>>
  BY LoopForms DEF proc, ArmPhase
<1>2. Scope' = Scope /\ HasRead' = HasRead /\ Compares' = Compares /\ Looks(driver)' = Looks(driver)
  BY <1>1 DEF Scope, HasRead, Compares, Looks
<1>3. pc \in ArmPhase => Relies(f)
  BY <1>1 DEF Relies, LooksInv, HasRead, Running
<1>4. pc = "recover" => ~HasRead
  BY DEF HasRead, Running, ArmPhase
<1>5. ASSUME NEW g \in Files, g # f
      PROVE  tree'[g] = tree[g]
  <2>1. tree \in [Files -> Content]
    BY DEF TypeInv, TypeOK
  <2> QED
    BY <1>5, <2>1, LoopForms DEF Truncated, WrittenAtOnce, Completed
<1>6. \A g \in Files : Relies(g)' => Relies(g)
  BY <1>1, <1>2, <1>3, <1>4, <1>5 DEF Relies
<1> QED
  BY <1>3, <1>6

LEMMA RelyAgent ==
  ASSUME TypeInv, TornInv, CopyInv, DatedInv, ExpectInv, Preserving, Agent, NEW f \in Files, Relies(f)'
  PROVE  /\ \/ Relies(f)
            \/ /\ Checkout(f) /\ tree'[f] = snap[f]
               /\ ~Roundabout /\ ~D.gateFirst
         /\ Edit(f) => edits + 1 \notin Unexposed'
<1>0. /\ UNCHANGED <<driver, pc, snap, expect, arm>> /\ D' = D /\ edits \in Nat
      /\ tree \in [Files -> Content]
  BY ExposureStep, BoundsAssumption DEF Agent, Commit, Edit, Stage, Checkout, proc, TypeInv, TypeOK
<1>1. Scope' = Scope /\ HasRead' = HasRead /\ Compares' = Compares /\ Looks(driver)' = Looks(driver)
  BY <1>0 DEF Scope, HasRead, Compares, Looks
<1>2. HasRead /\ (Looks(driver) /\ Compares => tree'[f] = expect[f] \/ (pc \in ArmPhase /\ f \in Scope))
  BY <1>0, <1>1 DEF Relies
<1>3. CASE tree'[f] = tree[f]
  <2>1. ~Edit(f)
    <3>1. edits + 1 \notin tree[f].edits /\ tree[f] \in Content
      BY <1>0 DEF DatedInv, Made
    <3> QED
      BY <1>0, <1>3, <3>1 DEF Edit, Content
  <2> QED
    BY <1>2, <1>3, <2>1 DEF Relies
<1>4. CASE Edit(f)
  <2>1. tree'[f].edits = tree[f].edits \cup {edits + 1}
    BY <1>0, <1>4 DEF Edit, Content
  <2>2. tree'[f] # expect[f]
    BY <1>0, <2>1 DEF DatedInv, Made
  <2>3. edits + 1 \notin Unexposed'
    <3>1. ASSUME edits + 1 \in Unexposed'
          PROVE  FALSE
      <4>1. pc \notin ArmPhase /\ ~Gap /\ (~Looks(driver) => pc = "off")
        BY <1>4, <3>1, NewUnexposed
      <4>2. Looks(driver) /\ ~Compares
        BY <1>2, <2>2, <4>1 DEF HasRead, Running, ArmPhase
      <4>3. D.expects \in {"snapshot", "reread", "gate"} /\ D.expects # "gate"
        BY <4>2, PreservingFacts, DisciplineFacts DEF TypeInv, TypeOK
      <4> QED
        BY <1>2, <4>1, <4>2, <4>3 DEF Compares, Gap, ExpectInv, HasRead, Running, ArmPhase
    <3> QED
      BY <3>1
  <2> QED
    BY <1>2, <2>2, <2>3 DEF Relies
<1>5. ASSUME Checkout(f), ~Relies(f)
      PROVE  tree'[f] = snap[f] /\ ~Roundabout /\ ~D.gateFirst /\ ~Edit(f)
  <2>1. pc = "gate" /\ ~D.gateFirst
    BY <1>2, <1>5 DEF Checkout, HasRead, Running, ArmPhase
  <2>2. Looks(driver) /\ Compares
    BY <1>2, <1>5 DEF Relies
  <2>3. D.expects = "snapshot" /\ tree'[f] = expect[f]
    BY <1>2, <2>1, <2>2 DEF Compares, ArmPhase
  <2>4. expect = snap
    BY <1>2, <2>3 DEF ExpectInv
  <2>5. D.keep = "no"
    BY <2>2, PreservingFacts
  <2>6. ~Edit(f)
    BY <1>0, <1>5 DEF Edit, Checkout, git
  <2> QED
    BY <2>1, <2>2, <2>3, <2>4, <2>5, <2>6 DEF Roundabout
<1>6. tree'[f] = tree[f] \/ Edit(f) \/ Checkout(f)
  BY <1>0 DEF Agent, Commit, Edit, Stage, Checkout
<1>7. Checkout(f) => ~Edit(f)
  BY <1>0 DEF Edit, Checkout, git
<1> QED
  BY <1>3, <1>4, <1>5, <1>6, <1>7

(* Drivers that check, then read, or that compare with what they have read.  *)
LEMMA CarefulWrites ==
  ASSUME TypeInv, TornInv, CopyInv, CarefulInv, LostInv, Preserving, Looks(driver) => LooksInv,
         ~Roundabout, D.back = "snapshot", D' = D, NEW f \in Files,
         Plant(f) \/ Restore(f) \/ Recovers(f)
  PROVE  CarefulInv' /\ LostInv'
<1>1. D.keep = "no"
  BY DEF Roundabout
<1>2. pc \in {"plant", "restore"} /\ UNCHANGED <<driver, pc, git, proc, kept>>
  BY <1>1, PlainSource
<1>3. PICK c \in Content :
        /\ c.edits \in {tree[f].edits, snap[f].edits}
        /\ Truncated(f, c) \/ WrittenAtOnce(f, c) \/ \E b \in Content : Completed(f, b)
  BY <1>1, PlainSource
<1>4. Unexposed' = Unexposed /\ snap' = snap
  BY <1>2, SameExposure DEF proc
<1>5. Holds(snap[f], f) /\ \A g \in Files : Relies(g)' => Holds(snap[g], g)
  BY <1>2, RelyWrite DEF CarefulInv, ArmPhase
<1>6. \A e \in tree[f].edits : InPlay(e, f)
  BY DEF InPlay
<1>7. Keeps(f, c)
  BY <1>3, <1>5, <1>6 DEF Keeps, Holds
<1>8. \A g \in Files : \A e : InPlay(e, g)' => InPlay(e, g) \/ (g = f /\ e \in c.edits)
  BY <1>3, WriteFlow
<1>9. ASSUME NEW g \in Files, Relies(g)', NEW e \in Unexposed, InPlay(e, g)'
      PROVE  e \in snap[g].edits
  BY <1>3, <1>5, <1>6, <1>8, <1>9 DEF Holds
<1>10. CarefulInv'
  BY <1>4, <1>9 DEF CarefulInv, Holds
<1> QED
  BY <1>3, <1>4, <1>7, <1>10, LostKept

LEMMA CarefulAgent ==
  ASSUME TypeInv, TornInv, CopyInv, DatedInv, ExpectInv, CarefulInv, Preserving, ~Roundabout, Agent
  PROVE  CarefulInv'
<1>1. UNCHANGED <<pc, snap, writing>> /\ tree \in [Files -> Content]
  BY DEF Agent, Commit, Edit, Stage, Checkout, proc, TypeInv, TypeOK
<1>2. SUFFICES ASSUME NEW g \in Files, Relies(g)', NEW e \in Unexposed', InPlay(e, g)'
               PROVE  e \in snap[g].edits
  BY <1>1 DEF CarefulInv, Holds
<1>3. CASE Checkout(g) /\ tree'[g] = snap[g]
  <2>1. writing = {}
    BY <1>3 DEF Checkout, TornInv
  <2> QED
    BY <1>1, <1>2, <1>3, <2>1 DEF InPlay
<1>4. CASE Relies(g) /\ ~Checkout(g)
  <2>1. tree'[g].edits \subseteq tree[g].edits \cup (IF Edit(g) THEN {edits + 1} ELSE {})
    BY <1>1, <1>4 DEF Agent, Commit, Edit, Stage, Checkout, Content
  <2>2. edits + 1 \notin Unexposed /\ ~(edits + 1 \in Unexposed' /\ Edit(g))
    BY <1>2, RelyAgent, BoundsAssumption DEF Unexposed, TypeInv, TypeOK
  <2>3. InPlay(e, g)
    <3>1. CASE e = edits + 1
      <4>1. \A p \in writing : e \notin p[2].edits
        BY <3>1, BoundsAssumption DEF DatedInv, Made, TypeInv, TypeOK
      <4>2. e \in tree'[g].edits
        BY <1>1, <1>2, <4>1 DEF InPlay
      <4> QED
        BY <1>2, <2>1, <2>2, <3>1, <4>2 DEF InPlay
    <3>2. CASE e # edits + 1
      BY <1>1, <1>2, <2>1, <3>2 DEF InPlay
    <3> QED
      BY <3>1, <3>2
  <2>4. e \in Unexposed
    <3>1. e # edits + 1
      <4>1. edits + 1 \notin tree[g].edits /\ \A p \in writing : edits + 1 \notin p[2].edits
        BY BoundsAssumption DEF DatedInv, Made, TypeInv, TypeOK
      <4> QED
        BY <2>3, <4>1 DEF InPlay
    <3> QED
      BY <1>2, <3>1, ExposureStep
  <2> QED
    BY <1>4, <2>3, <2>4 DEF CarefulInv, Holds
<1>5. CASE Relies(g) /\ Checkout(g)
  <2>1. pc = "gate" /\ ~D.gateFirst
    BY <1>5 DEF Checkout, Relies, HasRead, Running, ArmPhase
  <2>2. Looks(driver) /\ D.expects = "snapshot"
    <3>1. Looks(driver) /\ D.expects # "reread"
      BY <2>1 DEF Roundabout
    <3> QED
      BY <3>1, PreservingFacts, DisciplineFacts DEF TypeInv, TypeOK
  <2>3. tree'[g] = expect[g]
    <3>1. UNCHANGED <<driver, expect>> /\ D' = D
      BY <1>5 DEF Checkout, proc, D
    <3>2. Looks(driver)' /\ Compares' /\ pc' \notin ArmPhase
      BY <1>1, <2>1, <2>2, <3>1 DEF Looks, Compares, ArmPhase
    <3> QED
      BY <1>2, <3>1, <3>2 DEF Relies
  <2>4. expect = snap /\ writing = {}
    BY <1>5, <2>2 DEF ExpectInv, Relies, Checkout, TornInv
  <2> QED
    BY <1>1, <1>2, <2>3, <2>4 DEF InPlay
<1> QED
  BY <1>2, <1>3, <1>4, <1>5, RelyAgent

LEMMA CarefulStep ==
  ASSUME TypeInv, TornInv, CopyInv, DatedInv, ExpectInv, CarefulInv, LostInv, Preserving,
         Looks(driver) => LooksInv, ~Roundabout, [Next]_vars
  PROVE  CarefulInv' /\ LostInv'
<1>0. D' = D /\ driver' = driver
  BY SameDriver
<1>1. ASSUME Quiet, Start \/ Step \/ Suite \/ Interrupt \/ Terminate \/ Kill
      PROVE  CarefulInv' /\ LostInv'
  <2>1. Unexposed' = Unexposed /\ UNCHANGED tree /\ writing' = {}
    BY <1>0, <1>1, SameExposure DEF Quiet
  <2>2. \A f \in Files : \A e : InPlay(e, f)' => InPlay(e, f)
    BY <2>1 DEF InPlay
  <2>3. \A f \in Files : Relies(f)' => Relies(f) /\ snap' = snap
    BY <1>1, RelyQuiet
  <2> QED
    BY <1>0, <1>1, <2>1, <2>2, <2>3, LostStill DEF CarefulInv, Holds
<1>2. ASSUME NEW f \in Files, Plant(f) \/ Restore(f) \/ Recovers(f)
      PROVE  CarefulInv' /\ LostInv'
  <2>1. CASE D.back = "snapshot"
    BY <1>0, <1>2, <2>1, CarefulWrites
  <2>2. CASE D.back = "index"
    <3>1. Unexposed' = {}
      BY <1>2, <2>2, NoneUnexposed, SameExposure, LoopForms
    <3> QED
      BY <3>1 DEF CarefulInv, Holds, LostInv
  <2> QED
    BY <2>1, <2>2, PreservingFacts
<1>3. ASSUME Keep, pc' = "keep"
      PROVE  FALSE
  BY <1>3 DEF Keep, CopyInv, Roundabout
<1>4. CASE ReadSnapshot
  <2>1. Unexposed' = Unexposed /\ UNCHANGED <<tree, writing>> /\ writing = {} /\ snap' = tree
    BY <1>4, SameExposure DEF ReadSnapshot, TornInv
  <2>2. \A f \in Files : \A e : InPlay(e, f)' => e \in tree[f].edits
    BY <2>1 DEF InPlay
  <2> QED
    BY <1>0, <1>4, <2>1, <2>2, LostStill DEF CarefulInv, Holds
<1>5. CASE Agent
  BY <1>0, <1>5, CarefulAgent, LostStill
<1>6. CASE UNCHANGED vars
  <2>1. Unexposed' = Unexposed /\ UNCHANGED <<driver, tree, writing, snap, expect, arm, pc>>
    BY <1>6, SameExposure DEF vars, proc
  <2>2. \A f \in Files : (\A e : InPlay(e, f)' => InPlay(e, f)) /\ (Relies(f)' => Relies(f))
    BY <1>0, <2>1 DEF InPlay, Relies, HasRead, Compares, Looks, Scope
  <2> QED
    BY <1>0, <1>6, <2>1, <2>2, LostStill DEF CarefulInv, Holds
<1> QED
  BY <1>1, <1>2, <1>3, <1>4, <1>5, <1>6, StepForms DEF Next

(* Drivers with a roundabout baseline.  Where nothing is unexposed there is  *)
(* nothing to show.                                                         *)
LEMMA RoundVacuous ==
  ASSUME Unexposed' = {}
  PROVE  RoundInv' /\ LostInv'
BY DEF RoundInv, LostInv, Faithful, Covers

LEMMA RoundaboutFacts ==
  ASSUME TypeInv, DatedInv, Preserving, Roundabout
  PROVE  /\ D.back = "snapshot" \/ Unexposed = {}
         /\ D.gate # "none"
BY PreservingFacts, NoneUnexposed DEF Roundabout

(* A step that leaves the tree and git alone leaves the copies as they were. *)
LEMMA SameCovers ==
  ASSUME Unexposed' = Unexposed, UNCHANGED <<tree, index, head>>,
         writing' = {} \/ writing' = writing
  PROVE  /\ \A f, c : Faithful(c, f) => Faithful(c, f)'
         /\ \A f, c : Covers(c, f) => Covers(c, f)'
BY DEF Faithful, Covers, InPlay, InGit

(* The baseline is about to be copied into the tree: either it already was,  *)
(* or the files have just been compared with git.                           *)
LEMMA UnkeptForms ==
  ASSUME TypeInv, TornInv, Start \/ Step \/ Suite \/ Interrupt \/ Terminate \/ Kill,
         D.keep # "no", Unkept'
  PROVE  Unkept \/ (Gate /\ \A f \in D.owned : AtBaseline(f))
<1>0. D' = D /\ D.keep \in {"no", "early", "late"}
  <2>1. D \in Disciplines
    BY DisciplineAssumption DEF TypeInv, TypeOK, D
  <2>2. D.keep \in {"no", "early", "late"}
    BY <2>1, Zenon DEF Disciplines
  <2> QED
    BY <2>2, SameDriver DEF Next
<1>1. \/ pc' \in {"expect", "keep"} \/ (pc' = "control" /\ D.keep = "late")
      \/ pc' = "read" /\ D.gateFirst
  BY <1>0 DEF Unkept
<1>2. ~Later
  BY <1>1, LaterSteps DEF Onward, Running, ArmPhase, Later, Gate
<1>3. ~Start
  BY <1>1 DEF Start
<1>4. CASE Recover \/ ReadExpected \/ Keep
  BY <1>1, <1>4 DEF Recover, ReadExpected, Keep, Unkept
<1>5. CASE Gate
  <2>1. \A f \in D.owned : AtBaseline(f)
    BY <1>2, <1>5 DEF Gate, Stop, Later
  <2> QED
    BY <1>5, <2>1
<1>6. CASE ReadSnapshot
  BY <1>1, <1>6 DEF ReadSnapshot, Unkept
<1>7. ASSUME NEW o, Control(o), pc' = "keep"
      PROVE  Unkept
  BY <1>7 DEF Control, Leave, Stop, RestoreThen, Unkept
<1>8. ASSUME NEW f \in Files, Plant(f) \/ Restore(f)
      PROVE  FALSE
  BY <1>1, <1>8 DEF Plant, Restore
<1> QED
  BY <1>2, <1>3, <1>4, <1>5, <1>6, <1>7, <1>8 DEF Step, Suite, Later

LEMMA RoundQuiet ==
  ASSUME TypeInv, TornInv, CopyInv, DatedInv, RoundInv, Preserving, Roundabout,
         Start \/ Step \/ Suite \/ Interrupt \/ Terminate \/ Kill, Quiet
  PROVE  RoundInv'
<1>0. D' = D /\ driver' = driver /\ D.owned \subseteq Files
  BY SameDriver, PreservingFacts DEF Next
<1>1. /\ Unexposed' = Unexposed /\ UNCHANGED <<tree, index, head>> /\ writing' = {}
      /\ \A f \in Files : kept'[f] \in {kept[f], NoCopy}
      /\ \A f \in Files : Relies(f)' => Relies(f) /\ snap' = snap
  BY <1>0, SameExposure, RelyQuiet DEF Quiet, git
<1>2. \A f \in Files : /\ (Faithful(tree[f], f))'
                       /\ \A e \in Unexposed' : e \in head'[f].edits => e \in index'[f].edits
  BY <1>1, SameCovers DEF RoundInv
<1>3. \A f \in Files : /\ Relies(f)' => (Covers(snap[f], f))'
                       /\ kept'[f] # NoCopy => (Covers(kept[f], f))'
  BY <1>1, SameCovers DEF RoundInv
<1>4. D.keep # "no" /\ Unkept' =>
        \A f \in D.owned : \A e \in Unexposed : e \in tree[f].edits => e \in index[f].edits
  <2>1. ASSUME D.keep # "no", \A f \in D.owned : AtBaseline(f),
               NEW f \in D.owned, NEW e \in Unexposed, e \in tree[f].edits
        PROVE  e \in index[f].edits
    <3>1. D.gate \in {"index", "status", "head"}
      BY <2>1, PreservingFacts
    <3>2. tree[f] = index[f] \/ tree[f] = head[f]
      BY <2>1, <3>1 DEF AtBaseline
    <3> QED
      BY <1>0, <2>1, <3>2 DEF RoundInv
  <2> QED
    BY <2>1, UnkeptForms DEF RoundInv
<1> QED
  BY <1>0, <1>1, <1>2, <1>3, <1>4 DEF RoundInv

(* Where the bytes come from that a driver with a roundabout baseline       *)
(* writes: from a copy that covers the file, or from the file itself.       *)
LEMMA RoundSource ==
  ASSUME TypeInv, TornInv, CopyInv, RoundInv, Preserving, Looks(driver) => LooksInv, D' = D,
         D.back = "snapshot", NEW f \in Files, Plant(f) \/ Restore(f) \/ Recovers(f)
  PROVE  \E c \in Content :
           /\ Truncated(f, c) \/ WrittenAtOnce(f, c) \/ \E b \in Content : Completed(f, b)
           /\ Faithful(c, f) /\ Keeps(f, c)
           /\ \/ pc = "recover" /\ c = kept[f] /\ kept[f] # NoCopy
              \/ pc \in ArmPhase /\ c.edits \in {tree[f].edits, snap[f].edits}
<1>0. tree[f] \in Content /\ snap[f] \in Content /\ f \in todo
  BY LoopForms DEF TypeInv, TypeOK
<1>1. PICK c \in Content :
        /\ \/ pc = "recover" /\ c = kept[f]
           \/ pc = "restore" /\ c = snap[f]
           \/ pc = "plant" /\ \E b \in {tree[f], snap[f]} : c = [b EXCEPT !.planted = TRUE]
        /\ Truncated(f, c) \/ WrittenAtOnce(f, c) \/ \E b \in Content : Completed(f, b)
  BY LoopForms
<1>2. \A x : Covers(x, f) => Faithful(x, f) /\ Keeps(f, x)
  BY DEF Covers, Keeps, InPlay, InGit
<1>3. CASE pc = "recover"
  <2>1. kept[f] # NoCopy
    BY <1>0, <1>3 DEF CopyInv
  <2>2. Covers(kept[f], f)
    BY <2>1 DEF RoundInv
  <2> QED
    BY <1>1, <1>2, <1>3, <2>1, <2>2
<1>4. CASE pc # "recover"
  <2>1. pc \in ArmPhase
    BY <1>1, <1>4 DEF ArmPhase
  <2>2. Covers(snap[f], f) /\ Faithful(tree[f], f)
    BY <2>1, RelyWrite DEF RoundInv
  <2>3. PICK b \in {tree[f], snap[f]} : c.edits = b.edits /\ c.whole = b.whole
    BY <1>0, <1>1, <1>4 DEF Content
  <2>4. Faithful(b, f) /\ Keeps(f, b)
    BY <1>2, <2>2, <2>3 DEF Keeps
  <2>5. Faithful(c, f) /\ Keeps(f, c)
    BY <2>3, <2>4 DEF Faithful, Keeps
  <2>6. c.edits \in {tree[f].edits, snap[f].edits}
    BY <2>3
  <2> QED
    BY <1>1, <2>1, <2>5, <2>6
<1> QED
  BY <1>3, <1>4

LEMMA RoundWrites ==
  ASSUME TypeInv, TornInv, CopyInv, RoundInv, LostInv, Preserving, Roundabout,
         Looks(driver) => LooksInv, D.back = "snapshot", D' = D, NEW f \in Files, Plant(f) \/ Restore(f) \/ Recovers(f)
  PROVE  RoundInv' /\ LostInv'
<1>0. UNCHANGED <<driver, pc, git, proc, kept>>
  BY LoopForms
<1>1. PICK c \in Content :
        /\ Truncated(f, c) \/ WrittenAtOnce(f, c) \/ \E b \in Content : Completed(f, b)
        /\ Faithful(c, f) /\ Keeps(f, c)
        /\ \/ pc = "recover" /\ c = kept[f] /\ kept[f] # NoCopy
           \/ pc \in ArmPhase /\ c.edits \in {tree[f].edits, snap[f].edits}
  BY RoundSource
<1>2. Unexposed' = Unexposed /\ UNCHANGED <<pc, index, head, snap, kept>> /\ HasRead' = HasRead
  <2>1. UNCHANGED <<pc, index, head, snap, kept>>
    BY <1>0 DEF git, proc
  <2>2. HasRead' = HasRead
    BY <2>1 DEF HasRead
  <2> QED
    BY <1>0, <2>1, <2>2, SameExposure
<1>3. \A g \in Files : \A x : Faithful(x, g)' <=> Faithful(x, g)
  BY <1>2 DEF Faithful, InGit
<1>4. \A g \in Files : (Faithful(tree[g], g))'
  <2>1. Faithful(Torn, f) /\ \A p \in writing : Faithful(p[2], p[1])
    BY DEF Faithful, Torn, RoundInv
  <2>2. ASSUME NEW g \in Files
        PROVE  \/ tree'[g] = tree[g]
               \/ g = f /\ (tree'[f] \in {Torn, c} \/ <<f, tree'[f]>> \in writing)
    BY <1>1, WriteFlow
  <2>3. ASSUME <<f, tree'[f]>> \in writing
        PROVE  Faithful(tree'[f], f)
    BY <2>1, <2>3
  <2>4. \A g \in Files : Faithful(tree'[g], g)
    BY <1>1, <2>1, <2>2, <2>3 DEF RoundInv
  <2> QED
    BY <1>3, <2>4
<1>5. \A p \in writing' : (Faithful(p[2], p[1]))'
  <2>1. \A p \in writing' : p[1] = f /\ p[2] = c
    BY <1>1, WriteFlow
  <2> QED
    BY <1>1, <1>3, <2>1
<1>6. ASSUME NEW g \in Files, NEW x, Covers(x, g),
             g = f => \/ \A e \in c.edits : InPlay(e, f)
                      \/ x = c \/ x.edits = c.edits
      PROVE  Covers(x, g)'
  <2>1. \A e : InPlay(e, g)' => InPlay(e, g) \/ (g = f /\ e \in c.edits)
    BY <1>1, WriteFlow
  <2> QED
    BY <1>2, <1>3, <1>6, <2>1 DEF Covers
<1>7. ASSUME NEW g \in Files, Relies(g)
      PROVE  Covers(snap[g], g)'
  <2>1. pc \in ArmPhase
    BY <1>1, <1>7 DEF Relies, HasRead, Running, ArmPhase
  <2>2. (\A e \in c.edits : InPlay(e, f)) \/ c.edits = snap[f].edits
    BY <1>1, <2>1 DEF InPlay, ArmPhase
  <2> QED
    BY <1>2, <1>6, <1>7, <2>2 DEF RoundInv
<1>8. ASSUME NEW g \in Files, kept[g] # NoCopy
      PROVE  Covers(kept[g], g)'
  <2>1. CASE pc = "recover"
    BY <1>1, <1>2, <1>6, <1>8, <2>1 DEF RoundInv, ArmPhase
  <2>2. CASE pc \in ArmPhase
    <3>1. kept[g] = snap[g] /\ snap' = snap
      BY <1>2, <1>8, <2>2 DEF CopyInv, Running
    <3>2. ~Looks(driver)
      BY <1>8, PreservingFacts DEF CopyInv
    <3> QED
      BY <1>2, <1>7, <2>2, <3>1, <3>2 DEF Relies, HasRead, Running
  <2> QED
    BY <1>1, <2>1, <2>2
<1>9. ~Unkept'
  BY <1>1, <1>2 DEF Unkept, ArmPhase
<1>11. \A g \in Files : Relies(g)' => Relies(g)
  BY RelyWrite
<1>10. RoundInv'
  BY <1>2, <1>4, <1>5, <1>7, <1>8, <1>9, <1>11 DEF RoundInv
<1> QED
  BY <1>1, <1>2, <1>10, LostKept

LEMMA RoundKeep ==
  ASSUME TypeInv, TornInv, CopyInv, RoundInv, Preserving, D' = D, driver' = driver,
         Keep, pc' = "keep"
  PROVE  RoundInv'
<1>0. kept \in [Files -> Content] /\ D.owned \subseteq Files
  BY PreservingFacts DEF TypeInv, TypeOK
<1>1. /\ pc = "keep" /\ writing = {} /\ UNCHANGED <<tree, git, snap, writing>>
      /\ D.keep # "no" /\ todo \subseteq D.owned
  BY DEF Keep, TornInv, CopyInv, proc
<1>2. Unexposed' = Unexposed /\ UNCHANGED <<index, head>>
  BY <1>1, SameExposure DEF Keep, git
<1>3. ASSUME NEW f \in todo
      PROVE  Covers(Torn, f)
  <2>1. \A e \in Unexposed : InPlay(e, f) => e \in index[f].edits
    BY <1>0, <1>1 DEF RoundInv, Unkept, InPlay
  <2> QED
    BY <2>1 DEF Covers, Faithful, Torn
<1>4. PICK f \in todo : \/ kept' = [kept EXCEPT ![f] = snap[f]]
                        \/ kept' = [kept EXCEPT ![f] = Torn]
  BY <1>1 DEF Keep
<1>5. \A g \in Files : Covers(snap[g], g)
  BY <1>1, PreservingFacts DEF RoundInv, Relies, HasRead
<1>6. \A g \in Files : kept'[g] # NoCopy => Covers(kept'[g], g)
  BY <1>0, <1>3, <1>4, <1>5 DEF RoundInv
<1>7. \A g \in Files : /\ (Faithful(tree[g], g))' /\ (Covers(snap[g], g))'
                       /\ kept'[g] # NoCopy => (Covers(kept[g], g))'
  BY <1>1, <1>2, <1>5, <1>6, SameCovers DEF RoundInv
<1> QED
  BY <1>1, <1>2, <1>7 DEF RoundInv, Unkept

LEMMA RoundRead ==
  ASSUME TypeInv, TornInv, RoundInv, D' = D, ReadSnapshot
  PROVE  RoundInv'
<1>1. /\ pc = "read" /\ writing = {} /\ UNCHANGED <<driver, tree, git, kept, writing>>
      /\ snap' = tree
  BY DEF ReadSnapshot, TornInv
<1>2. Unexposed' = Unexposed /\ UNCHANGED <<index, head>>
  BY <1>1, SameExposure DEF git
<1>3. \A f \in Files : Covers(tree[f], f)
  BY <1>1 DEF RoundInv, Covers, InPlay
<1>4. \A f \in Files : /\ (Faithful(tree[f], f))' /\ (Covers(snap[f], f))'
                       /\ kept'[f] # NoCopy => (Covers(kept[f], f))'
  BY <1>1, <1>2, <1>3, SameCovers DEF RoundInv
<1>5. D.keep # "no" /\ Unkept' => Unkept
  BY <1>1 DEF ReadSnapshot, Unkept, AfterRead, AfterExpected
<1> QED
  BY <1>1, <1>2, <1>4, <1>5 DEF RoundInv

(* The other agent, one operation at a time. *)
LEMMA RoundEdit ==
  ASSUME TypeInv, TornInv, CopyInv, DatedInv, RoundInv, Preserving, Roundabout,
         ExpectInv, NEW f \in Files, Edit(f)
  PROVE  RoundInv'
<1>0. /\ tree \in [Files -> Content] /\ D' = D /\ D.owned \subseteq Files
      /\ UNCHANGED <<driver, pc, index, head, snap, kept, writing>>
      /\ tree' = [tree EXCEPT ![f].edits = @ \cup {edits + 1}]
  BY PreservingFacts DEF Edit, D, proc, TypeInv, TypeOK
<1>1. /\ Unexposed' \subseteq Unexposed \cup {edits + 1}
      /\ edits + 1 \in Unexposed' => \A g \in Files : kept[g] = NoCopy
      /\ edits + 1 \in Unexposed' /\ D.keep # "no" => pc = "off"
  <2>1. ~Looks(driver) \/ D.keep = "no"
    BY PreservingFacts
  <2>2. D.keep = "no" => \A g \in Files : kept[g] = NoCopy
    BY DEF CopyInv
  <2> QED
    BY <2>1, <2>2, ExposureStep, NewUnexposed DEF Agent
<1>2. \A g \in Files : edits + 1 \notin index[g].edits /\ edits + 1 \notin head[g].edits
  BY BoundsAssumption DEF DatedInv, Made, TypeInv, TypeOK
<1>3. \A g \in Files : /\ tree'[g].whole = tree[g].whole
                       /\ tree[g].edits \subseteq tree'[g].edits
                       /\ tree'[g].edits \subseteq tree[g].edits \cup {edits + 1}
  BY <1>0 DEF Content
<1>4. ASSUME NEW g \in Files, NEW x, Faithful(x, g)
      PROVE  Faithful(x, g)'
  BY <1>0, <1>1, <1>2, <1>4 DEF Faithful, InGit
<1>5. \A g \in Files : (Faithful(tree[g], g))'
  <2>1. \A g \in Files : Faithful(tree'[g], g)
    BY <1>3 DEF RoundInv, Faithful
  <2> QED
    BY <1>4, <2>1
<1>6. ASSUME NEW g \in Files, NEW x, Covers(x, g), edits + 1 \notin Unexposed' \/ g # f
      PROVE  Covers(x, g)'
  <2>0. ~InPlay(edits + 1, g) /\ (g # f => tree'[g] = tree[g])
    BY <1>0, BoundsAssumption DEF InPlay, DatedInv, Made, TypeInv, TypeOK
  <2>1. \A e \in Unexposed' : InPlay(e, g)' => e \in Unexposed /\ InPlay(e, g)
    BY <1>0, <1>1, <1>3, <1>6, <2>0 DEF InPlay
  <2> QED
    BY <1>0, <1>4, <1>6, <2>1 DEF Covers
<1>7. \A g \in Files : /\ Relies(g)' => (Covers(snap[g], g))'
                       /\ kept'[g] # NoCopy => (Covers(kept[g], g))'
  <2>1. \A g \in Files : Relies(g)' => Relies(g) /\ (edits + 1 \notin Unexposed' \/ g # f)
    <3>0. edits \in Nat /\ edits' = edits + 1
      BY BoundsAssumption DEF Edit, TypeInv, TypeOK
    <3>1. ~\E g \in Files : Checkout(g)
      BY <3>0 DEF Checkout, git
    <3> QED
      BY <3>1, RelyAgent DEF Agent
  <2>2. \A g \in Files : kept'[g] # NoCopy => edits + 1 \notin Unexposed'
    BY <1>0, <1>1
  <2> QED
    BY <1>0, <1>6, <2>1, <2>2 DEF RoundInv
<1>8. \A p \in writing' : (Faithful(p[2], p[1]))'
  <2>1. \A p \in writing : p[1] \in Files
    BY DEF TypeInv, TypeOK
  <2> QED
    BY <1>0, <1>4, <2>1 DEF RoundInv
<1>9. \A g \in Files : \A e \in Unexposed' : e \in head'[g].edits => e \in index'[g].edits
  BY <1>0, <1>1, <1>2 DEF RoundInv
<1>10. D'.keep # "no" /\ Unkept' =>
         \A g \in D'.owned : \A e \in Unexposed' : e \in tree'[g].edits => e \in index'[g].edits
  <2>1. D.keep # "no" /\ Unkept' => Unkept /\ edits + 1 \notin Unexposed'
    BY <1>0, <1>1 DEF Unkept
  <2> QED
    BY <1>0, <1>1, <1>3, <2>1 DEF RoundInv
<1> QED
  BY <1>5, <1>7, <1>8, <1>9, <1>10 DEF RoundInv

(* Staging a damaged file exposes every edit. *)
LEMMA DamageExposes ==
  ASSUME TypeInv, DatedInv, Preserving, Roundabout,
         NEW f \in Files, Stage(f), ~Pristine(tree[f])
  PROVE  Unexposed' = {}
<1>1. UNCHANGED <<driver, edits, when>> /\ D' = D
  BY DEF Stage, D
<1>2. tainted'
  BY Zenon DEF Stage
<1>3. {"arm", "gap", "run", "rest"} \subseteq Exposed' /\ (D.keep # "no" => "stale" \in Exposed')
  BY <1>1, <1>2 DEF Exposed, Roundabout, Looks
<1>4. ASSUME NEW e \in 1..edits
      PROVE  when[e] \in Exposed'
  <2>1. e \in 1..MaxEdits
    BY BoundsAssumption DEF TypeInv, TypeOK
  <2>2. when[e] \in {"rest", "stale", "run", "gap", "arm"} /\ (D.keep = "no" => when[e] # "stale")
    BY <2>1 DEF TypeInv, TypeOK, DatedInv
  <2> QED
    BY <1>3, <2>2
<1> QED
  BY <1>1, <1>4 DEF Unexposed

LEMMA RoundStage ==
  ASSUME TypeInv, TornInv, DatedInv, RoundInv, Preserving, Roundabout,
         NEW f \in Files, Stage(f)
  PROVE  RoundInv'
<1>0. /\ index \in [Files -> Content] /\ D' = D /\ D.owned \subseteq Files
      /\ UNCHANGED <<driver, pc, tree, head, snap, expect, arm, kept, writing>>
      /\ index' = [index EXCEPT ![f] = tree[f]]
  BY PreservingFacts DEF Stage, D, proc, TypeInv, TypeOK
<1>1. CASE ~Pristine(tree[f])
  BY <1>1, DamageExposes, RoundVacuous
<1>2. CASE Pristine(tree[f])
  <2>1. Unexposed' \subseteq Unexposed
    <3>1. \A g \in Files : ~Edit(g)
      BY DEF Edit, Stage, TypeInv, TypeOK
    <3> QED
      BY <3>1, ExposureStep DEF Agent
  <2>2. tree[f].whole /\ \A p \in writing : p[1] # f
    BY <1>2 DEF Pristine, TornInv, Torn
  <2>3. \A e : InPlay(e, f) <=> e \in tree[f].edits
    BY <2>2 DEF InPlay
  <2>4. \A g \in Files : \A e : InPlay(e, g)' <=> InPlay(e, g)
    BY <1>0 DEF InPlay
  <2>5. /\ index'[f] = tree[f]
        /\ \A g \in Files : g # f => index'[g] = index[g]
    BY <1>0
  <2>6. ASSUME NEW g \in Files, NEW x, Faithful(x, g),
               g = f => \A e \in Unexposed : e \in tree[f].edits /\ x.whole => e \in x.edits
        PROVE  Faithful(x, g)'
    BY <1>0, <2>1, <2>5, <2>6 DEF Faithful, InGit
  <2>7. ASSUME NEW g \in Files, NEW x, Covers(x, g)
        PROVE  Covers(x, g)'
    <3>1. g = f => \A e \in Unexposed : e \in tree[f].edits => e \in x.edits \/ ~x.whole
      BY <2>3, <2>7 DEF Covers
    <3>2. Faithful(x, g)'
      BY <2>6, <2>7, <3>1 DEF Covers
    <3>3. \A e \in Unexposed' : InPlay(e, g)' => e \in x.edits \/ (~x.whole /\ e \in index'[g].edits)
      BY <2>1, <2>3, <2>4, <2>5, <2>7 DEF Covers
    <3> QED
      BY <3>2, <3>3 DEF Covers
  <2>8. \A g \in Files : (Faithful(tree[g], g))'
    BY <1>0, <2>6 DEF RoundInv
  <2>9. \A p \in writing' : (Faithful(p[2], p[1]))'
    <3>1. \A p \in writing : p[1] \in Files
      BY DEF TypeInv, TypeOK
    <3> QED
      BY <1>0, <2>2, <2>6, <3>1 DEF RoundInv
  <2>10. \A g \in Files : \A e \in Unexposed' : e \in head'[g].edits => e \in index'[g].edits
    <3>1. \A e \in Unexposed : e \in head[f].edits => e \in tree[f].edits
      BY <2>2 DEF RoundInv, Faithful, InGit
    <3> QED
      BY <1>0, <2>1, <2>5, <3>1 DEF RoundInv
  <2>11. (\A g \in Files : Relies(g)' => Relies(g)) /\ Unkept' = Unkept
    BY <1>0 DEF Relies, HasRead, Compares, Looks, Scope, Unkept
  <2>12. \A g \in Files : /\ Relies(g)' => (Covers(snap[g], g))'
                          /\ kept'[g] # NoCopy => (Covers(kept[g], g))'
    BY <1>0, <2>7, <2>11 DEF RoundInv
  <2>13. D'.keep # "no" /\ Unkept' =>
           \A g \in D'.owned : \A e \in Unexposed' : e \in tree'[g].edits => e \in index'[g].edits
    BY <1>0, <2>1, <2>5, <2>11 DEF RoundInv
  <2> QED
    BY <2>8, <2>9, <2>10, <2>12, <2>13 DEF RoundInv
<1> QED
  BY <1>1, <1>2

LEMMA RoundCommit ==
  ASSUME TypeInv, TornInv, RoundInv, Preserving, Commit
  PROVE  RoundInv'
<1>0. /\ D' = D /\ D.owned \subseteq Files /\ head' = index
      /\ UNCHANGED <<driver, pc, tree, index, snap, expect, arm, kept, writing>>
  BY PreservingFacts DEF Commit, D, proc
<1>1. Unexposed' \subseteq Unexposed
  <2>1. \A g \in Files : ~Edit(g)
    BY DEF Edit, Commit, TypeInv, TypeOK
  <2> QED
    BY <2>1, ExposureStep DEF Agent
<1>2. \A g, x : Faithful(x, g) => Faithful(x, g)'
  BY <1>0, <1>1 DEF Faithful, InGit
<1>3. \A g, x : Covers(x, g) => Covers(x, g)'
  BY <1>0, <1>1, <1>2 DEF Covers, InPlay
<1>4. (\A g \in Files : Relies(g)' => Relies(g)) /\ Unkept' = Unkept
  BY <1>0 DEF Relies, HasRead, Compares, Looks, Scope, Unkept
<1>5. \A f \in Files : /\ (Faithful(tree[f], f))'
                       /\ \A e \in Unexposed' : e \in head'[f].edits => e \in index'[f].edits
  BY <1>0, <1>2 DEF RoundInv
<1>6. \A f \in Files : /\ Relies(f)' => (Covers(snap[f], f))'
                       /\ kept'[f] # NoCopy => (Covers(kept[f], f))'
  BY <1>0, <1>3, <1>4 DEF RoundInv
<1>7. \A p \in writing' : (Faithful(p[2], p[1]))'
  BY <1>0, <1>2 DEF RoundInv
<1>8. D'.keep # "no" /\ Unkept' =>
        \A g \in D'.owned : \A e \in Unexposed' : e \in tree'[g].edits => e \in index'[g].edits
  BY <1>0, <1>1, <1>4 DEF RoundInv
<1> QED
  BY <1>5, <1>6, <1>7, <1>8 DEF RoundInv

LEMMA RoundCheckout ==
  ASSUME TypeInv, TornInv, CopyInv, DatedInv, ExpectInv, RoundInv, Preserving, Roundabout,
         NEW f \in Files, Checkout(f)
  PROVE  RoundInv'
<1>0. /\ tree \in [Files -> Content] /\ D' = D /\ D.owned \subseteq Files /\ writing = {}
      /\ UNCHANGED <<driver, pc, git, index, head, snap, kept, writing>>
      /\ tree' = [tree EXCEPT ![f] = index[f]]
  BY PreservingFacts DEF Checkout, D, git, proc, TypeInv, TypeOK, TornInv
<1>1. Unexposed' = Unexposed
  BY <1>0, SameExposure
<1>2. \A g, x : Faithful(x, g) => Faithful(x, g)'
  BY <1>0, <1>1 DEF Faithful, InGit
<1>3. /\ tree'[f] = index[f] /\ \A g \in Files : g # f => tree'[g] = tree[g]
      /\ \A g \in Files : \A e : InPlay(e, g)' <=> e \in tree'[g].edits
  BY <1>0 DEF InPlay
<1>4. ASSUME NEW g \in Files, NEW x, Covers(x, g)
      PROVE  Covers(x, g)'
  <2>1. ASSUME NEW e \in Unexposed, e \in tree'[g].edits
        PROVE  e \in x.edits \/ (~x.whole /\ e \in index[g].edits)
    <3>1. CASE g = f
      BY <1>3, <1>4, <2>1, <3>1 DEF Covers, Faithful, InGit
    <3>2. CASE g # f
      BY <1>3, <1>4, <2>1, <3>2 DEF Covers, InPlay
    <3> QED
      BY <3>1, <3>2
  <2> QED
    BY <1>0, <1>1, <1>2, <1>3, <1>4, <2>1 DEF Covers
<1>5. \A g \in Files : Faithful(tree'[g], g)
  BY <1>3 DEF RoundInv, Faithful, InGit
<1>6. \A g \in Files : /\ (Faithful(tree[g], g))'
                       /\ \A e \in Unexposed' : e \in head'[g].edits => e \in index'[g].edits
  BY <1>0, <1>1, <1>2, <1>5 DEF RoundInv
<1>7. (\A g \in Files : Relies(g)' => Relies(g)) /\ Unkept' = Unkept
  BY <1>0, RelyAgent DEF Agent, Unkept
<1>8. \A g \in Files : /\ Relies(g)' => (Covers(snap[g], g))'
                       /\ kept'[g] # NoCopy => (Covers(kept[g], g))'
  BY <1>0, <1>4, <1>7 DEF RoundInv
<1>9. D'.keep # "no" /\ Unkept' =>
        \A g \in D'.owned : \A e \in Unexposed' : e \in tree'[g].edits => e \in index'[g].edits
  BY <1>0, <1>1, <1>3, <1>7 DEF RoundInv
<1> QED
  BY <1>0, <1>6, <1>8, <1>9 DEF RoundInv

LEMMA RoundStep ==
  ASSUME TypeInv, TornInv, CopyInv, DatedInv, ExpectInv, RoundInv, LostInv, Preserving,
         Looks(driver) => LooksInv, Roundabout, [Next]_vars
  PROVE  RoundInv' /\ LostInv'
<1>0. D' = D /\ driver' = driver
  BY SameDriver
<1>1. ASSUME Quiet, Start \/ Step \/ Suite \/ Interrupt \/ Terminate \/ Kill
      PROVE  RoundInv' /\ LostInv'
  BY <1>0, <1>1, RoundQuiet, LostStill
<1>2. ASSUME NEW f \in Files, Plant(f) \/ Restore(f) \/ Recovers(f)
      PROVE  RoundInv' /\ LostInv'
  <2>1. CASE D.back = "snapshot"
    BY <1>0, <1>2, <2>1, RoundWrites
  <2>2. CASE Unexposed = {}
    <3>1. Unexposed' = {}
      BY <1>2, <2>2, SameExposure, LoopForms
    <3> QED
      BY <3>1, RoundVacuous
  <2> QED
    BY <2>1, <2>2, RoundaboutFacts
<1>3. ASSUME Keep, pc' = "keep"
      PROVE  RoundInv' /\ LostInv'
  BY <1>0, <1>3, RoundKeep, LostStill
<1>4. CASE ReadSnapshot
  BY <1>0, <1>4, RoundRead, LostStill
<1>5. CASE Agent
  <2>1. LostInv'
    BY <1>0, <1>5, LostStill
  <2>2. RoundInv'
    BY <1>5, RoundEdit, RoundStage, RoundCommit, RoundCheckout DEF Agent
  <2> QED
    BY <2>1, <2>2
<1>6. CASE UNCHANGED vars
  <2>1. /\ UNCHANGED <<driver, pc, tree, git, index, head, snap, expect, arm, kept, writing>>
        /\ Unexposed' = Unexposed /\ (\A f \in Files : Relies(f)' => Relies(f)) /\ Unkept' = Unkept
    <3>1. UNCHANGED <<driver, pc, tree, git, index, head, snap, expect, arm, kept, writing>>
      BY <1>6 DEF vars, git, proc
    <3>2. (\A f \in Files : Relies(f)' => Relies(f)) /\ Unkept' = Unkept
      BY <1>0, <3>1 DEF Relies, HasRead, Compares, Looks, Scope, Unkept
    <3> QED
      BY <3>1, <3>2, SameExposure
  <2>2. RoundInv'
    BY <1>0, <2>1 DEF RoundInv, Faithful, Covers, InPlay, InGit
  <2> QED
    BY <1>0, <1>6, <2>2, LostStill
<1> QED
  BY <1>1, <1>2, <1>3, <1>4, <1>5, <1>6, StepForms DEF Next

LEMMA PreserveStep ==
  ASSUME TypeInv, TornInv, CopyInv, DatedInv, PreserveInv, Preserving, [Next]_vars
  PROVE  PreserveInv'
<1>1. Looks(driver)' = Looks(driver) /\ Roundabout' = Roundabout
  <2>1. D' = D /\ driver' = driver
    BY SameDriver
  <2> QED
    BY <2>1 DEF Looks, Roundabout
<1>2. ExpectInv' /\ (Looks(driver) => LooksInv')
  BY ExpectStep, LooksStep DEF PreserveInv
<1>3. CASE ~Roundabout
  BY <1>1, <1>2, <1>3, CarefulStep DEF PreserveInv
<1>4. CASE Roundabout
  BY <1>1, <1>2, <1>4, RoundStep DEF PreserveInv
<1> QED
  BY <1>3, <1>4

LEMMA PreserveInit ==
  ASSUME Init
  PROVE  TornInv /\ CopyInv /\ DatedInv /\ PreserveInv
<1>1. /\ pc = "off" /\ edits = 0 /\ lost = {} /\ writing = {} /\ todo = {}
      /\ \A f \in Files : /\ tree[f] = Clean /\ index[f] = Clean /\ head[f] = Clean
                          /\ snap[f] = Clean /\ expect[f] = Clean /\ kept[f] = NoCopy
      /\ expect = snap
  BY DEF Init
<1>2. 1..edits = {} /\ Unexposed = {}
  BY <1>1 DEF Unexposed
<1>3. TornInv /\ CopyInv
  BY <1>1 DEF TornInv, CopyInv, Running, ArmPhase
<1>4. DatedInv
  BY <1>1, <1>2 DEF DatedInv, Made, Clean, NoCopy
<1>5. LostInv /\ ExpectInv /\ CarefulInv /\ LooksInv
  BY <1>1 DEF LostInv, ExpectInv, CarefulInv, LooksInv, Relies, HasRead, Running, ArmPhase
<1>6. RoundInv
  BY <1>1, <1>2 DEF RoundInv, Faithful, Covers, Relies, HasRead, Running, ArmPhase
<1> QED
  BY <1>3, <1>4, <1>5, <1>6 DEF PreserveInv

(* Whatever is killed, interrupted or edited beside it, and wherever it is   *)
(* killed or interrupted, a driver never writes over an edit that git does  *)
(* not hold, unless the edit was made where its discipline exposes it.      *)
THEOREM OnlyExposedEditsLostHolds ==
  ASSUME Preserving
  PROVE  Spec => []OnlyExposedEditsLost
<1>1. Init => TornInv /\ CopyInv /\ DatedInv /\ PreserveInv
  BY PreserveInit
<1>2. TypeInv /\ TornInv /\ CopyInv /\ DatedInv /\ PreserveInv /\ [Next]_vars
        => TornInv' /\ CopyInv' /\ DatedInv' /\ PreserveInv'
  BY TornStep, CopyStep, DatedStep, PreserveStep
<1>3. DatedInv /\ PreserveInv => OnlyExposedEditsLost
  BY DEF DatedInv, PreserveInv, LostInv, Unexposed, OnlyExposedEditsLost
<1> QED
  BY <1>1, <1>2, <1>3, TypeInvariant, PTL DEF Spec

-----------------------------------------------------------------------------
(* Recovery.  For a driver that keeps copies in the tree, while no damage    *)
(* was staged.                                                              *)

(* Where every owned file has its copy in the tree. *)
Copied ==
  \/ pc \in {"arms", "plant", "suite", "check", "endcontrol"}
  \/ pc = "restore" /\ way # "exit"
  \/ pc = "control" /\ D.keep = "early"

(* A file with a defect has its copy, and the loop after which the copies    *)
(* are removed has still to write the file.                                 *)
Awaited(f) ==
  /\ kept[f] # NoCopy
  /\ pc \notin {"gate", "read", "expect", "keep", "control"}
  /\ pc = "recover" \/ (pc = "restore" /\ way = "exit" /\ D.keep = "late") => f \in todo

(* What the driver reads and writes holds no defect, where it does not plant *)
(* one; and the copies are made one by one before anything is planted.      *)
UnplantInv ==
  /\ \A f \in D.owned : /\ ~index[f].planted /\ ~snap[f].planted /\ ~expect[f].planted
                        /\ kept[f].planted => kept[f] = NoCopy
                        /\ tree[f].planted => Awaited(f)
  /\ pc # "plant" => \A p \in writing : p[1] \in D.owned => ~p[2].planted
  /\ Copied => \A f \in D.owned : kept[f] # NoCopy
  /\ pc = "keep" => \A f \in D.owned \ todo : kept[f] # NoCopy
  /\ pc = "control" /\ D.keep = "late" => D.owned \subseteq todo
  /\ pc = "expect" \/ (pc = "gate" /\ ~D.gateFirst) => D.owned \subseteq todo

RecoverInv == D.keep # "no" /\ ~tainted => UnplantInv

LEMMA StopUnplants ==
  ASSUME UnplantInv, NEW kind, Stop(kind), UNCHANGED <<tree, index>>, D' = D,
         D.owned \subseteq Files,
         kept' = kept \/ (Drop /\ \A f \in D.owned : ~tree[f].planted)
  PROVE  UnplantInv'
<1>1. /\ pc' = "off" /\ writing' = {}
      /\ \A f \in D.owned : ~snap'[f].planted /\ ~expect'[f].planted
  BY DEF Stop, Clean
<1>2. \A f \in D.owned : /\ kept'[f].planted => kept'[f] = NoCopy
                         /\ tree[f].planted => kept'[f] # NoCopy
  BY DEF UnplantInv, Awaited, Drop
<1> QED
  BY <1>1, <1>2 DEF UnplantInv, Awaited, Copied

LEMMA RestoreUnplants ==
  ASSUME UnplantInv, NEW next, NEW files, RestoreThen(next, files),
         UNCHANGED <<tree, index, snap, expect>>, D' = D, D.owned \subseteq Files,
         next # "exit" => Copied /\ kept' = kept,
         next = "exit" /\ D.keep = "late" => files = D.owned,
         kept' = kept \/ (Drop /\ \A f \in D.owned : ~tree[f].planted)
  PROVE  UnplantInv'
<1>1. pc' = "restore" /\ way' = next /\ writing' = {}
  BY DEF RestoreThen
<1>2. \A f \in D.owned : /\ kept'[f].planted => kept'[f] = NoCopy
                         /\ tree[f].planted => kept'[f] # NoCopy
  BY DEF UnplantInv, Awaited, Drop
<1>3. ASSUME NEW f \in D.owned, tree[f].planted, next = "exit", D.keep = "late"
      PROVE  f \in todo'
  <2>1. tree[f] # snap[f]
    BY <1>3 DEF UnplantInv
  <2> QED
    BY <1>3, <2>1 DEF RestoreThen
<1>4. next # "exit" => \A f \in D.owned : kept'[f] # NoCopy
  BY DEF UnplantInv
<1> QED
  BY <1>1, <1>2, <1>3, <1>4 DEF UnplantInv, Awaited, Copied

(* The ways out, for a driver that removes late copies only at the end of a  *)
(* restore of all files.                                                    *)
LEMMA OutUnplants ==
  ASSUME UnplantInv, NEW kind, Stop(kind) \/ Leave(kind) \/ Raise(kind),
         UNCHANGED <<tree, index>>, D' = D, D.owned \subseteq Files,
         D.keep = "late" => D.runFinally,
         kept' = kept \/ (Drop /\ \A f \in D.owned : ~tree[f].planted)
  PROVE  UnplantInv'
<1>1. ASSUME NEW files, RestoreThen("exit", files), UNCHANGED <<snap, expect>>,
             D.keep = "late" => files = D.owned
      PROVE  UnplantInv'
  BY <1>1, RestoreUnplants
<1>2. CASE Leave(kind)
  BY <1>1, <1>2, StopUnplants DEF Leave
<1>3. CASE Raise(kind)
  BY <1>1, <1>2, <1>3 DEF Raise
<1> QED
  BY <1>2, <1>3, StopUnplants

(* Going on from one part of an arm to another. *)
LEMMA OnUnplants ==
  ASSUME UnplantInv, Copied, pc' \in {"arms", "plant", "suite", "check", "endcontrol"},
         writing' = {}, UNCHANGED <<tree, index, snap, expect, kept>>, D' = D
  PROVE  UnplantInv'
BY DEF UnplantInv, Awaited, Copied

(* The three write loops. *)
LEMMA WriteUnplants ==
  ASSUME TypeInv, TornInv, CopyInv, UnplantInv, D' = D, NEW f \in Files,
         Plant(f) \/ Restore(f) \/ Recovers(f)
  PROVE  UnplantInv'
<1>0. /\ tree \in [Files -> Content] /\ D.owned \subseteq Files
  BY DisciplineFacts DEF TypeInv, TypeOK
<1>1. f \in todo /\ UNCHANGED <<pc, index, snap, expect, kept, way>>
  BY LoopForms DEF proc, git
<1>2. PICK c \in Content :
        /\ \/ pc = "recover" /\ c = kept[f]
           \/ pc = "restore" /\ c = IF D.back = "index" THEN index[f] ELSE snap[f]
           \/ pc = "plant"
        /\ Truncated(f, c) \/ WrittenAtOnce(f, c) \/ \E b \in Content : Completed(f, b)
  BY LoopForms
<1>3. f \in D.owned /\ pc # "plant" => ~c.planted
  <2>1. pc = "recover" => kept[f] # NoCopy
    BY <1>1 DEF CopyInv
  <2> QED
    BY <1>2, <2>1 DEF UnplantInv
<1>4. /\ f \in D.owned /\ pc # "plant" =>
           ~tree'[f].planted /\ \A p \in writing' : p[1] = f => ~p[2].planted
      /\ \A g \in Files \ {f} : tree'[g] = tree[g]
      /\ \A p \in writing' : p[1] = f
      /\ todo \ {f} \subseteq todo'
  <2>1. CASE Truncated(f, c)
    BY <1>0, <1>3, <2>1 DEF Truncated, Torn
  <2>2. CASE WrittenAtOnce(f, c)
    BY <1>0, <1>3, <2>2 DEF WrittenAtOnce
  <2>3. ASSUME NEW b \in Content, Completed(f, b)
        PROVE  /\ f \in D.owned /\ pc # "plant" => ~tree'[f].planted
               /\ \A g \in Files \ {f} : tree'[g] = tree[g]
               /\ writing' = {} /\ todo \ {f} \subseteq todo'
    <3>1. writing = {<<f, b>>}
      BY <2>3 DEF Completed
    <3>2. f \in D.owned /\ pc # "plant" => ~b.planted
      BY <3>1 DEF UnplantInv
    <3> QED
      BY <1>0, <2>3, <3>2 DEF Completed
  <2> QED
    BY <1>2, <2>1, <2>2, <2>3
<1>5. pc \in {"recover", "restore", "plant"}
  BY <1>2
<1>6. ASSUME NEW g \in D.owned, tree'[g].planted
      PROVE  Awaited(g)'
  <2>1. CASE pc = "plant"
    BY <1>1, <2>1 DEF UnplantInv, Awaited, Copied
  <2>2. CASE pc # "plant"
    <3>1. g # f /\ Awaited(g)
      BY <1>0, <1>4, <1>6, <2>2 DEF UnplantInv
    <3> QED
      BY <1>1, <1>4, <3>1 DEF Awaited
  <2> QED
    BY <2>1, <2>2
<1>7. pc # "plant" => \A p \in writing' : p[1] \in D.owned => ~p[2].planted
  BY <1>4
<1> QED
  BY <1>1, <1>5, <1>6, <1>7 DEF UnplantInv, Copied

(* The other agent stages no damage, by assumption, and takes nothing back   *)
(* from git but what is whole.                                              *)
LEMMA AgentUnplants ==
  ASSUME TypeInv, UnplantInv, Agent, ~tainted', D' = D
  PROVE  UnplantInv' /\ ~tainted
<1>0. /\ tree \in [Files -> Content] /\ index \in [Files -> Content]
      /\ D.owned \subseteq Files
  BY DisciplineFacts DEF TypeInv, TypeOK
<1>1. UNCHANGED <<pc, snap, expect, way, kept, todo, writing>>
  BY DEF Agent, Commit, Edit, Stage, Checkout, proc
<1>2. /\ ~tainted
      /\ \A g \in D.owned : ~index'[g].planted /\ (tree'[g].planted => tree[g].planted)
  <2>1. CASE Commit
    BY <2>1 DEF Commit, UnplantInv
  <2>2. ASSUME NEW f \in Files, Edit(f)
        PROVE  ~tainted /\ UNCHANGED index
               /\ \A g \in D.owned : tree'[g].planted => tree[g].planted
    <3>1. tree' = [tree EXCEPT ![f].edits = @ \cup {edits + 1}]
      BY <2>2 DEF Edit
    <3>2. \A g \in Files : tree'[g].planted = tree[g].planted
      BY <1>0, <3>1 DEF Content
    <3> QED
      BY <1>0, <2>2, <3>2 DEF Edit
  <2>3. ASSUME NEW f \in Files, Stage(f)
        PROVE  ~tainted /\ UNCHANGED tree /\ \A g \in D.owned : ~index'[g].planted
    <3>1. ~tainted /\ ~tree[f].planted
      BY <2>3 DEF Stage, Pristine
    <3> QED
      BY <1>0, <2>3, <3>1 DEF Stage, UnplantInv
  <2>4. ASSUME NEW f \in Files, Checkout(f)
        PROVE  ~tainted /\ UNCHANGED index
               /\ \A g \in D.owned : tree'[g].planted => tree[g].planted
    BY <1>0, <2>4 DEF Checkout, UnplantInv, git
  <2> QED
    BY <2>1, <2>2, <2>3, <2>4 DEF Agent, UnplantInv
<1>3. \A g \in D.owned : tree'[g].planted => Awaited(g)'
  BY <1>1, <1>2 DEF UnplantInv, Awaited
<1> QED
  BY <1>1, <1>2, <1>3 DEF UnplantInv, Copied

(* From the start of a run to the end of its recovery. *)
LEMMA RecoverUnplants ==
  ASSUME TypeInv, TornInv, UnplantInv, D' = D, D.keep # "no",
         Start \/ (Recover /\ pc' # "recover")
  PROVE  UnplantInv'
<1>0. D.owned \subseteq Files /\ todo \subseteq Files
  BY DisciplineFacts DEF TypeInv, TypeOK
<1>1. CASE Start
  <2>1. /\ pc = "off" /\ pc' = "recover" /\ todo' = {f \in D.owned : kept[f] # NoCopy}
        /\ UNCHANGED <<tree, index, snap, expect, kept, writing>>
    BY <1>1 DEF Start, git
  <2>2. writing' = {}
    BY <2>1 DEF TornInv
  <2> QED
    BY <2>1, <2>2 DEF UnplantInv, Awaited, Copied
<1>2. CASE Recover /\ pc' # "recover"
  <2>1. /\ pc = "recover" /\ todo = {} /\ Drop /\ UNCHANGED <<tree, index, snap, expect, writing>>
        /\ pc' = IF D.gateFirst THEN "gate" ELSE "read"
    BY <1>2 DEF Recover, git, proc
  <2>2. writing = {} /\ \A f \in D.owned : ~tree[f].planted
    BY <2>1 DEF TornInv, UnplantInv, Awaited
  <2> QED
    BY <1>0, <2>1, <2>2 DEF UnplantInv, Drop, Copied
<1> QED
  BY <1>1, <1>2

(* From there to the control, where no file holds a defect. *)
LEMMA ReadUnplants ==
  ASSUME TypeInv, TornInv, UnplantInv, D' = D, D.keep \in {"early", "late"},
         D.keep = "late" => D.control # "none" /\ D.runFinally,
         Gate \/ ReadSnapshot \/ ReadExpected \/ Keep
  PROVE  UnplantInv'
<1>0. /\ D.owned \subseteq Files /\ todo \subseteq Files /\ kept \in [Files -> Content]
      /\ tree \in [Files -> Content]
  BY DisciplineFacts DEF TypeInv, TypeOK
<1>1. pc \in {"gate", "read", "expect", "keep"}
  BY DEF Gate, ReadSnapshot, ReadExpected, Keep
<1>2. writing = {} /\ \A f \in D.owned : ~tree[f].planted
  BY <1>1 DEF TornInv, UnplantInv, Awaited
<1>3. CASE Gate /\ pc' = "off"
  <2>1. Stop("fail")
    BY <1>3 DEF Gate, AfterRead, AfterExpected
  <2> QED
    BY <1>0, <1>3, <2>1, StopUnplants DEF Gate, git
<1>4. CASE (Gate /\ pc' # "off") \/ ReadSnapshot \/ ReadExpected
  <2>1. UNCHANGED <<tree, index, kept, writing>>
    BY <1>4 DEF Gate, ReadSnapshot, ReadExpected, Stop, git
  <2>2. \A f \in D.owned : ~snap'[f].planted /\ ~expect'[f].planted
    BY <1>2, <1>4 DEF Gate, ReadSnapshot, ReadExpected, Stop, UnplantInv
  <2>3. D.owned \subseteq todo' \/ pc' = "read"
    BY <1>4 DEF Gate, ReadSnapshot, ReadExpected, Stop, UnplantInv
  <2>4. \/ pc' \in {"read", "gate", "expect", "keep"}
        \/ pc' = "control" /\ D.keep = "late"
    BY <1>4 DEF Gate, ReadSnapshot, ReadExpected, Stop, AfterRead, AfterExpected
  <2> QED
    BY <1>2, <2>1, <2>2, <2>3, <2>4 DEF UnplantInv, Copied
<1>5. CASE Keep
  <2>0. UNCHANGED <<tree, index, snap, expect, writing>>
    BY <1>5 DEF Keep, git, proc
  <2>1. CASE todo = {} /\ UNCHANGED <<kept, todo>>
             /\ pc' = IF D.keep = "early" THEN "control" ELSE "arms"
    <3>1. \A f \in D.owned : kept[f] # NoCopy
      BY <1>5, <2>1 DEF Keep, UnplantInv
    <3> QED
      BY <1>2, <2>0, <2>1, <3>1 DEF UnplantInv, Copied
  <2>2. ASSUME NEW f \in todo, pc' = pc,
               \/ kept' = [kept EXCEPT ![f] = snap[f]] /\ todo' = todo \ {f}
               \/ kept' = [kept EXCEPT ![f] = Torn] /\ todo' = todo
        PROVE  UnplantInv'
    <3>1. pc = "keep" /\ pc' = "keep"
      BY <1>5, <2>2 DEF Keep
    <3>2. NoCopy.planted /\ ~Torn.planted
      BY DEF NoCopy, Torn
    <3>3. \A g \in D.owned : kept'[g].planted => kept'[g] = NoCopy
      BY <1>0, <2>2, <3>2 DEF UnplantInv
    <3>4. \A g \in D.owned \ todo' : kept'[g] # NoCopy
      <4>1. f \in D.owned => snap[f] # NoCopy
        BY <3>2 DEF UnplantInv
      <4> QED
        BY <1>0, <2>2, <3>1, <4>1 DEF UnplantInv
    <3> QED
      BY <1>2, <2>0, <3>1, <3>3, <3>4 DEF UnplantInv, Copied
  <2> QED
    BY <1>5, <2>1, <2>2 DEF Keep
<1> QED
  BY <1>3, <1>4, <1>5

LEMMA ControlUnplants ==
  ASSUME TypeInv, TornInv, UnplantInv, D' = D, D.keep \in {"early", "late"},
         D.keep = "late" => D.runFinally, NEW o, Control(o)
  PROVE  UnplantInv'
<1>0. /\ D.owned \subseteq Files /\ pc = "control"
      /\ UNCHANGED <<tree, index>>
  BY DisciplineFacts DEF TypeInv, TypeOK, Control, git
<1>1. writing = {} /\ \A f \in D.owned : ~tree[f].planted
  BY <1>0 DEF TornInv, UnplantInv, Awaited
<1>2. ASSUME NEW kind, Leave(kind)
      PROVE  UnplantInv'
  <2>1. kept' = kept \/ Drop
    BY DEF Control
  <2> QED
    BY <1>0, <1>1, <1>2, <2>1, OutUnplants
<1>3. CASE RestoreThen("exit", D.owned) /\ UNCHANGED <<snap, expect, kept>>
  BY <1>0, <1>3, RestoreUnplants
<1>4. CASE /\ pc' = IF D.keep = "late" THEN "keep" ELSE "arms"
           /\ UNCHANGED <<snap, expect, kept, todo, writing>>
  BY <1>0, <1>1, <1>4 DEF UnplantInv, Copied
<1> QED
  BY <1>2, <1>3, <1>4 DEF Control, proc

(* The arms and the end of the run. *)
LEMMA ArmUnplants ==
  ASSUME TypeInv, TornInv, UnplantInv, D' = D,
         D.keep = "late" => D.runFinally,
         \/ \E a \in Arms : BeginArm(a)
         \/ NeedleMissing \/ RunSuite \/ CheckRestored
         \/ \E o : SuiteEnds(o)
  PROVE  UnplantInv'
<1>0. D.owned \subseteq Files /\ UNCHANGED <<tree, index, kept>>
  BY DisciplineFacts
  DEF TypeInv, TypeOK, BeginArm, NeedleMissing, RunSuite, CheckRestored, SuiteEnds, git
<1>1. Copied /\ pc # "off"
  BY DEF Copied, BeginArm, NeedleMissing, RunSuite, CheckRestored, SuiteEnds
<1>2. ASSUME NEW kind, Leave(kind) \/ Raise(kind)
      PROVE  UnplantInv'
  BY <1>0, <1>2, OutUnplants
<1>3. ASSUME NEW next, NEW files, RestoreThen(next, files), UNCHANGED <<snap, expect>>,
             next = "exit" => files = D.owned
      PROVE  UnplantInv'
  BY <1>0, <1>1, <1>3, RestoreUnplants
<1>4. ASSUME pc' \in {"arms", "plant", "suite"}, UNCHANGED <<snap, expect, writing>>,
             pc # "plant" \/ todo = {} \/ writing = {}, pc # "restore"
      PROVE  UnplantInv'
  <2>1. writing = {}
    BY <1>1, <1>4 DEF TornInv, Copied
  <2> QED
    BY <1>0, <1>1, <1>4, <2>1, OnUnplants
<1>5. ASSUME NEW a \in Arms, BeginArm(a)
      PROVE  UnplantInv'
  <2>1. CASE \/ Leave("fail")
             \/ /\ RestoreThen("exit", D.owned) \/ RestoreThen("plant", D.owned)
                /\ UNCHANGED <<snap, expect>>
    BY <1>2, <1>3, <2>1
  <2>2. CASE pc' = "plant" /\ UNCHANGED <<snap, expect, writing>> /\ pc = "arms"
    BY <1>4, <2>2
  <2> QED
    BY <1>5, <2>1, <2>2 DEF BeginArm
<1>6. CASE NeedleMissing
  <2>1. CASE NextArm /\ UNCHANGED <<snap, expect, writing>>
    BY <1>4, <1>6, <2>1 DEF NextArm, NeedleMissing
  <2>2. CASE RestoreThen(Unscored, Scope) /\ UNCHANGED <<snap, expect>>
    BY <1>3, <2>2 DEF Unscored
  <2>3. CASE Raise("exception")
    BY <1>2, <2>3
  <2> QED
    BY <1>6, <2>1, <2>2, <2>3 DEF NeedleMissing
<1>7. CASE RunSuite
  BY <1>4, <1>7 DEF RunSuite, proc
<1>8. CASE CheckRestored
  <2>1. CASE NextArm /\ UNCHANGED <<snap, expect, writing>>
    BY <1>4, <1>8, <2>1 DEF NextArm, CheckRestored
  <2>2. CASE Leave("fail")
    BY <1>2, <2>2
  <2> QED
    BY <1>8, <2>1, <2>2 DEF CheckRestored
<1>9. ASSUME NEW o, SuiteEnds(o)
      PROVE  UnplantInv'
  <2>1. CASE NextArm /\ UNCHANGED <<snap, expect, writing>>
    BY <1>4, <1>9, <2>1 DEF NextArm, SuiteEnds
  <2>2. ASSUME NEW next \in {"arm", "skip"}, RestoreThen(next, Scope),
               UNCHANGED <<snap, expect>>
        PROVE  UnplantInv'
    BY <1>3, <2>2
  <2>3. CASE Raise("exception")
    BY <1>2, <2>3
  <2> QED
    BY <1>9, <2>1, <2>2, <2>3 DEF SuiteEnds, Unscored
<1> QED
  BY <1>5, <1>6, <1>7, <1>8, <1>9

LEMMA RestoredUnplants ==
  ASSUME TypeInv, TornInv, UnplantInv, D' = D, Restored
  PROVE  UnplantInv'
<1>0. /\ D.owned \subseteq Files /\ UNCHANGED <<tree, index>>
      /\ pc = "restore" /\ todo = {}
  BY DisciplineFacts DEF TypeInv, TypeOK, Restored, git
<1>1. writing = {}
  BY <1>0 DEF TornInv
<1>2. ASSUME NEW kind, way = "exit", Stop(kind),
             IF D.keep = "late" THEN Drop ELSE UNCHANGED kept
      PROVE  UnplantInv'
  <2>1. D.keep = "late" => \A f \in D.owned : ~tree[f].planted
    BY <1>0, <1>2 DEF UnplantInv, Awaited
  <2> QED
    BY <1>0, <1>2, <2>1, StopUnplants
<1>3. CASE /\ way # "exit" /\ pc' \in {"plant", "arms", "check", "endcontrol"}
           /\ UNCHANGED <<snap, expect, writing, kept>>
  BY <1>0, <1>1, <1>3, OnUnplants DEF Copied
<1> QED
  BY <1>2, <1>3 DEF Restored, NextArm, proc

LEMMA EndUnplants ==
  ASSUME TypeInv, TornInv, UnplantInv, D' = D,
         D.keep = "late" => D.runFinally,
         EndArms \/ (\E o : EndControl(o))
  PROVE  UnplantInv'
<1>0. /\ D.owned \subseteq Files /\ UNCHANGED <<tree, index>>
      /\ pc \in {"arms", "endcontrol"}
  BY DisciplineFacts DEF TypeInv, TypeOK, EndArms, EndControl, git
<1>1. ASSUME NEW kind, Leave(kind), UNCHANGED kept
      PROVE  UnplantInv'
  BY <1>0, <1>1, OutUnplants
<1>2. ASSUME NEW fail, Finish(fail)
      PROVE  UnplantInv'
  <2>1. kept' = kept \/ (Drop /\ \A f \in D.owned : tree[f] = expect[f])
    BY <1>2 DEF Finish, Drifted
  <2>2. kept' = kept \/ (Drop /\ \A f \in D.owned : ~tree[f].planted)
    BY <2>1 DEF UnplantInv
  <2>3. \E kind : Leave(kind)
    BY <1>2 DEF Finish
  <2> QED
    BY <1>0, <2>2, <2>3, OutUnplants
<1>3. CASE pc' = "endcontrol" /\ UNCHANGED <<snap, expect, kept, writing>>
  <2>1. writing = {}
    BY <1>0 DEF TornInv
  <2> QED
    BY <1>0, <1>3, <2>1, OnUnplants DEF Copied
<1>4. CASE RestoreThen("endcontrol", D.owned) /\ UNCHANGED <<snap, expect, kept>>
  BY <1>0, <1>4, RestoreUnplants DEF Copied
<1> QED
  BY <1>1, <1>2, <1>3, <1>4 DEF EndArms, EndControl, proc

LEMMA SignalUnplants ==
  ASSUME TypeInv, UnplantInv, D' = D, D.keep = "late" => D.runFinally,
         Interrupt \/ Terminate \/ Kill
  PROVE  UnplantInv'
<1>1. D.owned \subseteq Files /\ UNCHANGED <<tree, index, kept>>
  BY DisciplineFacts DEF TypeInv, TypeOK, Interrupt, Terminate, Kill, git
<1>2. \E kind : Stop(kind) \/ Leave(kind) \/ Raise(kind)
  BY DEF Interrupt, Terminate, Kill
<1> QED
  BY <1>1, <1>2, OutUnplants

LEMMA RecoverStep ==
  ASSUME TypeInv, TornInv, CopyInv, RecoverInv, Recovering, [Next]_vars
  PROVE  RecoverInv'
<1>0. /\ D' = D
      /\ D.keep \in {"no", "early", "late"}
      /\ D.keep = "late" => D.control # "none" /\ D.runFinally
  BY SameDriver, DisciplineFacts DEF TypeInv, TypeOK, Recovering, D
<1>1. SUFFICES ASSUME D.keep # "no", ~tainted'
               PROVE  UnplantInv'
  BY <1>0 DEF RecoverInv
<1>2. CASE Agent
  <2>1. tainted \/ UnplantInv
    BY <1>1 DEF RecoverInv
  <2>2. tainted => tainted'
    BY <1>2 DEF Agent, Commit, Edit, Stage, Checkout, git
  <2> QED
    BY <1>0, <1>1, <1>2, <2>1, <2>2, AgentUnplants
<1>3. CASE UNCHANGED vars
  BY <1>0, <1>1, <1>3
  DEF RecoverInv, UnplantInv, Awaited, Copied, vars, git, proc
<1>4. CASE Start \/ Step \/ Suite \/ Interrupt \/ Terminate \/ Kill
  <2>1. tainted' = tainted
    BY <1>4
    DEF Start, Step, Suite, Recover, Gate, ReadSnapshot, ReadExpected, Keep, BeginArm, Plant, Restore,
        NeedleMissing, RunSuite, Restored, CheckRestored, EndArms, Control, SuiteEnds,
        EndControl, Interrupt, Terminate, Kill, git
  <2>2. UnplantInv
    BY <1>1, <2>1 DEF RecoverInv
  <2>3. CASE Start \/ Recover
    BY <1>0, <1>1, <2>2, <2>3, RecoverUnplants, RecoverForms, WriteUnplants
  <2>4. CASE Gate \/ ReadSnapshot \/ ReadExpected \/ Keep \/ \E o : Control(o)
    BY <1>0, <1>1, <2>2, <2>4, ReadUnplants, ControlUnplants
  <2>5. CASE \E f \in Files : Plant(f) \/ Restore(f)
    BY <1>0, <2>2, <2>5, WriteUnplants
  <2>6. CASE \/ \E a \in Arms : BeginArm(a)
             \/ NeedleMissing \/ RunSuite \/ CheckRestored
             \/ \E o : SuiteEnds(o)
    BY <1>0, <2>2, <2>6, ArmUnplants
  <2>7. CASE Restored \/ EndArms \/ (\E o : EndControl(o)) \/ Interrupt \/ Terminate \/ Kill
    BY <1>0, <2>2, <2>7, RestoredUnplants, EndUnplants, SignalUnplants
  <2> QED
    BY <1>4, <2>3, <2>4, <2>5, <2>6, <2>7 DEF Step, Suite
<1> QED
  BY <1>2, <1>3, <1>4 DEF Next

(* Wherever a run was killed, no defect is left once the next has recovered: *)
(* what remains true of what the docs say of the copies (RecoveryRestores). *)
THEOREM RecoveryUnplantsHolds ==
  ASSUME Recovering
  PROVE  Spec => []RecoveryUnplants
<1>1. Init => TornInv /\ CopyInv /\ RecoverInv
  <2>1. ASSUME Init
        PROVE  UnplantInv
    <3>1. D.owned \subseteq Files
      BY <2>1, DisciplineFacts DEF Init
    <3>2. /\ pc = "off" /\ writing = {}
          /\ \A f \in Files : /\ tree[f] = Clean /\ index[f] = Clean /\ snap[f] = Clean
                              /\ expect[f] = Clean /\ kept[f] = NoCopy
      BY <2>1 DEF Init
    <3> QED
      BY <3>1, <3>2 DEF UnplantInv, Copied, Clean
  <2> QED
    BY <2>1, PreserveInit DEF RecoverInv
<1>2. TypeInv /\ TornInv /\ CopyInv /\ RecoverInv /\ [Next]_vars
        => TornInv' /\ CopyInv' /\ RecoverInv'
  BY TornStep, CopyStep, RecoverStep
<1>3. RecoverInv => RecoveryUnplants
  BY DEF RecoverInv, UnplantInv, Awaited, RecoveryUnplants
<1> QED
  BY <1>1, <1>2, <1>3, TypeInvariant, PTL DEF Spec

=============================================================================
