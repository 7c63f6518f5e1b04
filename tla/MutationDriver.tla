--------------------------- MODULE MutationDriver ---------------------------
(***************************************************************************)
(* A mutation-matrix driver (hub/scripts/*_matrix.py and                   *)
(* scripts/r485_matrix.py).  It owns a few tracked files of a git checkout *)
(* that other agents edit and commit at the same time; it plants a         *)
(* deliberate defect in them (an arm), runs a test suite, writes the files *)
(* back and records whether the suite noticed (KILLED) or not (SURVIVED).  *)
(*                                                                         *)
(* Every driver is written on its own; they differ in what they check      *)
(* before they start, where the pristine bytes are kept, how a file is     *)
(* written, what is restored on which way out, and how the test runner's   *)
(* output is read.  Discipline[d] records those choices (MatrixScripts     *)
(* gives them script by script); the actions below are what the scripts do *)
(* with them.                                                              *)
(*                                                                         *)
(* A file is abstracted to the set of the other agent's edits it holds,    *)
(* whether a defect is planted in it, and whether it is whole: open(p,'w') *)
(* truncates the file before the bytes are written.                        *)
(***************************************************************************)
EXTENDS Naturals, FiniteSets

CONSTANTS
  Drivers,     \* the drivers considered
  Discipline,  \* what each of them does
  Files,       \* the files a driver can own
  MaxEdits,    \* bound: edits the other agent makes
  MaxCommits,  \* bound: commits the other agent makes
  MaxRuns,     \* bound: times the driver is started
  MaxArms      \* bound: arms a run goes through

ASSUME BoundsAssumption ==
  MaxEdits \in Nat /\ MaxCommits \in Nat /\ MaxRuns \in Nat /\ MaxArms \in Nat

(* What a run of the test suite can come to.  offred: tests fail, but not  *)
(* the ones the arm names; allred: every test fails, so the summary has no *)
(* "passed"; errored: tests fail on a thrown error, not on an assertion;   *)
(* broken: the suite does not load ("Tests  no tests"); silent: the runner *)
(* dies before it prints a summary; hung: it does not return within the    *)
(* timeout; rejected: the arm is thrown out whatever the suite says, by tsc  *)
(* or (r502) because the planted text changes nothing the oracle sees.     *)
Outcomes == {"green", "red", "offred", "allred", "errored", "broken", "silent",
             "hung", "rejected"}
Verdicts == {"KILLED", "SURVIVED", "HARNESS"}
Arms == [files : (SUBSET Files) \ {{}}, expect : {"KILLED", "SURVIVED"}]

Disciplines == [
  owned       : SUBSET Files,
  gate        : {"none", "index", "status", "head"},  \* what "clean" is compared with
  gateFirst   : BOOLEAN,   \* the check precedes the reading of the snapshot
  expects     : {"snapshot", "reread", "gate"},  \* what later checks compare a file
                           \* with: the snapshot, a second reading, what the gate saw
  control     : {"first", "noted", "none"},  \* noted: a red control does not stop the run
  green       : SUBSET Outcomes,  \* outcomes the control accepts
  keep        : {"no", "early", "late"},  \* pristine copies in the tree, before or after the control
  redRestores : BOOLEAN,   \* a red control writes the snapshot back before it stops the run
  endControl  : {"no", "noted", "strict"},  \* a control after the last arm
  endRewrites : BOOLEAN,   \* the files are written back once more before it
  before      : {"none", "assert", "restore", "overwrite"},  \* the check made before every arm
  source      : {"disk", "snapshot"},  \* the text the defect is planted in
  tornPlant   : BOOLEAN,   \* planting truncates first
  tornRestore : BOOLEAN,   \* restoring truncates first
  restoreAll  : BOOLEAN,   \* every owned file is written back, not only the arm's
  back        : {"snapshot", "index"},  \* from the snapshot, or git checkout
  perArm      : BOOLEAN,   \* the files are written back after every arm
  ifDiffers   : BOOLEAN,   \* only files that differ are written back
  check       : {"no", "noted", "scored", "stop"},  \* what a file that differs after
                           \* that does; scored: stop, but only after a verdict
  miss        : {"skip", "skiprestore", "abort"},  \* what a needle that is not found does
  armFinally  : BOOLEAN,   \* an exception inside an arm restores
  runFinally  : BOOLEAN,   \* every way out of the arms restores
  guardsControl : BOOLEAN, \* and so does every way out of the control
  onTerm      : BOOLEAN,   \* SIGTERM is handled by restoring
  timeout     : BOOLEAN,   \* the suite is run with a timeout
  killed      : SUBSET Outcomes,   \* outcomes scored KILLED
  survived    : SUBSET Outcomes,   \* outcomes scored SURVIVED
  raises      : SUBSET Outcomes,   \* outcomes that raise an exception
  screens     : BOOLEAN,   \* an arm can be rejected
  honest      : BOOLEAN,   \* exit status 0 only if every verdict is the expected one
  final       : {"no", "before", "after", "head"},  \* ... only if the files are back:
                           \* looked at before or after the last restore, or (head)
                           \* after it and against HEAD
  arms        : SUBSET Arms ]

ASSUME DisciplineAssumption == Discipline \in [Drivers -> Disciplines]

Content == [edits : SUBSET (1..MaxEdits), planted : BOOLEAN, whole : BOOLEAN]
Clean == [edits |-> {}, planted |-> FALSE, whole |-> TRUE]
Torn  == [edits |-> {}, planted |-> FALSE, whole |-> FALSE]
NoCopy == [edits |-> {}, planted |-> TRUE, whole |-> FALSE]  \* no copy is kept
NoArm == [files |-> {}, expect |-> "SURVIVED"]

VARIABLES
  driver,   \* the driver that is run
  pc,       \* where its process is, "off" when there is none
  tree,     \* the owned files in the working tree
  index,    \* the same files in git's index
  head,     \* the same files in HEAD
  snap,     \* the driver's snapshot (its memory, or a directory outside the tree)
  expect,   \* what its checks compare the files with (their md5 sums)
  kept,     \* the copies in the snapshot directory inside the tree
  todo,     \* the files the current write loop has still to write
  writing,  \* the file that is truncated, with what is being written to it
  arm,      \* the arm under way
  left,     \* how many arms the run may still go through
  way,      \* what follows the restore under way
  exit,     \* how the last process ended, or is about to end
  bad,      \* a verdict of this run differs from the expected one
  runs, commits, edits,  \* counters
  \* history, read by the properties only
  uncovered, \* a process has ended where its script restores nothing
  ctl,      \* the control of this run was green
  sham,     \* an arm of this run did not end in the verdict it expects, or did
            \* though no suite ran to its end
  tainted,  \* a planted or truncated file has been staged
  when,     \* when[e]: when edit e was made
  lost      \* edits a driver wrote over while neither HEAD nor the index had them

git   == <<index, head, edits, commits, when, tainted>>
proc  == <<snap, expect, arm, left, way, bad, exit>>
hist  == <<ctl, sham, lost>>
vars  == <<driver, pc, tree, git, proc, kept, todo, writing, runs, uncovered, hist>>

D == Discipline[driver]

Ends == {"ok", "fail", "exception", "interrupted", "term", "kill"}
ArmPhase == {"plant", "suite", "restore", "check"}
PCs == ArmPhase \cup {"off", "recover", "gate", "read", "expect", "keep", "control",
                      "arms", "endcontrol"}

TypeOK ==
  /\ driver \in Drivers /\ pc \in PCs
  /\ tree \in [Files -> Content] /\ index \in [Files -> Content]
  /\ head \in [Files -> Content] /\ snap \in [Files -> Content]
  /\ expect \in [Files -> Content] /\ kept \in [Files -> Content]
  /\ todo \in SUBSET Files /\ writing \in SUBSET (Files \X Content)
  /\ arm \in Arms \cup {NoArm}
  /\ left \in 0..MaxArms
  /\ way \in {"arm", "skip", "plant", "endcontrol", "exit"}
  /\ exit \in Ends \cup {"never"}
  /\ {bad, sham, tainted, uncovered, ctl} \subseteq BOOLEAN
  /\ runs \in 0..MaxRuns /\ commits \in 0..MaxCommits /\ edits \in 0..MaxEdits
  /\ when \in [1..MaxEdits -> {"never", "rest", "stale", "run", "gap", "arm"}]
  /\ lost \in SUBSET (1..MaxEdits)

Init ==
  /\ driver \in Drivers /\ pc = "off"
  /\ tree = [f \in Files |-> Clean] /\ index = tree /\ head = tree
  /\ snap = tree /\ expect = tree
  /\ kept = [f \in Files |-> NoCopy]
  /\ todo = {} /\ writing = {} /\ arm = NoArm /\ left = 0 /\ way = "exit"
  /\ exit = "never"
  /\ bad = FALSE /\ sham = FALSE /\ tainted = FALSE /\ uncovered = FALSE /\ ctl = FALSE
  /\ runs = 0 /\ commits = 0 /\ edits = 0
  /\ when = [e \in 1..MaxEdits |-> "never"]
  /\ lost = {}

-----------------------------------------------------------------------------
(* The other agent: edits, stages and commits the owned files, or takes a  *)
(* file that looks damaged back from the index.                            *)

Pristine(c) == ~c.planted /\ c.whole

(* Between the reading of the snapshot and that of what the checks compare *)
(* with, where these are two.                                              *)
Gap == /\ D.expects = "reread"
       /\ pc = "expect" \/ (pc = "gate" /\ ~D.gateFirst)

Edit(f) ==
  /\ f \in D.owned /\ tree[f].whole
  /\ edits < MaxEdits
  /\ edits' = edits + 1
  /\ tree' = [tree EXCEPT ![f].edits = @ \cup {edits + 1}]
  /\ when' = [when EXCEPT ![edits + 1] =
       IF pc = "off" THEN IF \A g \in Files : kept[g] = NoCopy THEN "rest" ELSE "stale"
       ELSE IF pc \in ArmPhase THEN "arm" ELSE IF Gap THEN "gap" ELSE "run"]
  /\ UNCHANGED <<driver, pc, index, head, commits, tainted, proc, kept, todo, writing,
                 runs, uncovered, hist>>

Stage(f) ==
  /\ index[f] # tree[f]
  /\ commits < MaxCommits
  /\ index' = [index EXCEPT ![f] = tree[f]]
  /\ tainted' = (tainted \/ ~Pristine(tree[f]))
  /\ UNCHANGED <<driver, pc, tree, head, edits, commits, when, proc, kept, todo, writing,
                 runs, uncovered, hist>>

Commit ==
  /\ head # index /\ commits < MaxCommits
  /\ head' = index /\ commits' = commits + 1
  /\ UNCHANGED <<driver, pc, tree, index, edits, when, tainted, proc, kept, todo, writing,
                 runs, uncovered, hist>>

(* Environment: the damage is looked at while no driver is under way.      *)
Checkout(f) ==
  /\ pc \in {"off", "gate", "read"}
  /\ ~Pristine(tree[f]) /\ tree[f] # index[f]
  /\ tree' = [tree EXCEPT ![f] = index[f]]
  /\ UNCHANGED <<driver, pc, git, proc, kept, todo, writing, runs, uncovered, hist>>

Agent == Commit \/ \E f \in Files : Edit(f) \/ Stage(f) \/ Checkout(f)

-----------------------------------------------------------------------------
(* How a process ends, and the restore that precedes it.                   *)

(* The ways a process can end without its script having written the files  *)
(* back; interrupted: an exception that hits the restore itself.           *)
Uncovered ==
  {"kill", "interrupted"} \cup (IF D.onTerm THEN {} ELSE {"term"})
  \cup (IF D.armFinally \/ D.runFinally THEN {} ELSE {"exception"})

Stop(kind) ==
  /\ pc' = "off" /\ exit' = kind /\ uncovered' = (uncovered \/ kind \in Uncovered)
  /\ todo' = {} /\ writing' = {} /\ arm' = NoArm /\ left' = 0 /\ way' = "exit"
  /\ snap' = [f \in Files |-> Clean] /\ expect' = snap'
  /\ UNCHANGED bad

(* The pristine copies an orderly exit removes: r530 in its finally block, *)
(* r523 only when every owned file is back at the baseline.                *)
Drop == kept' = [f \in Files |-> NoCopy]

RestoreThen(next, files) ==
  /\ pc' = "restore" /\ way' = next
  /\ todo' = {f \in files : D.ifDiffers => tree[f] # snap[f]}
  /\ writing' = {}

(* Where the outer finally block, and the signal handlers, are in force.   *)
Guarded == pc \in ArmPhase \cup {"arms", "endcontrol"} \/ (pc = "control" /\ D.guardsControl)

(* A way out of the process once the snapshot is taken: through the outer  *)
(* finally block, where the script has one.                                *)
Leave(kind) ==
  IF D.runFinally /\ Guarded
    THEN /\ RestoreThen("exit", D.owned)
         /\ exit' = kind
         /\ UNCHANGED <<snap, expect, arm, left, bad, uncovered>>
    ELSE Stop(kind)

(* The files an arm's own restore writes back.                             *)
Scope == IF D.restoreAll THEN D.owned ELSE arm.files

(* Mutant: no finally block around an arm.                                 *)
RaiseUnrestored(kind) == Leave(kind)

(* An exception inside an arm: the innermost finally block restores.       *)
Raise(kind) ==
  IF D.armFinally /\ ~D.runFinally
    THEN /\ RestoreThen("exit", Scope)
         /\ exit' = kind
         /\ UNCHANGED <<snap, expect, arm, left, bad, uncovered>>
    ELSE Leave(kind)

(* Write c to file f of the tree; with torn, the file is truncated first   *)
(* and holds nothing until the second step.                                *)
Write(f, c, torn) ==
  \/ /\ torn /\ writing = {}
     /\ tree' = [tree EXCEPT ![f] = Torn]
     /\ writing' = {<<f, c>>}
     /\ lost' = lost \cup (tree[f].edits \ (c.edits \cup index[f].edits \cup head[f].edits))
     /\ UNCHANGED todo
  \/ /\ ~torn
     /\ tree' = [tree EXCEPT ![f] = c]
     /\ todo' = todo \ {f}
     /\ lost' = lost \cup (tree[f].edits \ (c.edits \cup index[f].edits \cup head[f].edits))
     /\ UNCHANGED writing
  \/ \E p \in writing :
     /\ p[1] = f
     /\ tree' = [tree EXCEPT ![f] = p[2]]
     /\ writing' = {} /\ todo' = todo \ {f}
     /\ UNCHANGED lost

-----------------------------------------------------------------------------
(* The start of a run.                                                     *)

Start ==
  /\ pc = "off" /\ runs < MaxRuns
  /\ runs' = runs + 1
  /\ pc' = IF D.keep # "no" THEN "recover" ELSE IF D.gateFirst THEN "gate" ELSE "read"
  /\ todo' = {f \in D.owned : kept[f] # NoCopy}
  /\ left' = MaxArms
  /\ bad' = FALSE /\ ctl' = FALSE /\ sham' = FALSE /\ exit' = "never"
  /\ UNCHANGED <<driver, tree, git, kept, writing, snap, expect, arm, way, uncovered, lost>>

(* restore_from_leftover_snapshot: write the copies a killed run left in   *)
(* the tree back, before anything is checked.                              *)
Recover ==
  /\ pc = "recover"
  /\ \/ \E f \in todo :
          /\ Write(f, kept[f], D.tornRestore)
          /\ UNCHANGED <<pc, kept>>
     \/ /\ todo = {} /\ Drop
        /\ pc' = IF D.gateFirst THEN "gate" ELSE "read"
        /\ UNCHANGED <<tree, todo, writing, lost>>
  /\ UNCHANGED <<driver, git, proc, runs, uncovered, ctl, sham>>

(* Mutant: the file only has to exist.                                     *)
AtBaselineIfThere(f) == TRUE

AtBaseline(f) ==
  /\ D.gate \in {"index", "status"} => tree[f] = index[f]
  /\ D.gate \in {"head", "status"} => tree[f] = head[f]

AfterExpected == IF D.keep = "early" THEN "keep"
                 ELSE IF D.control = "none" THEN "arms" ELSE "control"
AfterRead == IF D.expects = "reread" THEN "expect" ELSE AfterExpected

Gate ==
  /\ pc = "gate"
  /\ IF \A f \in D.owned : AtBaseline(f)
       THEN /\ pc' = IF D.gateFirst THEN "read" ELSE AfterRead
            /\ expect' = IF D.expects = "gate" THEN tree ELSE expect
            /\ UNCHANGED <<snap, arm, left, way, bad, exit, todo, writing, uncovered>>
       ELSE Stop("fail")
  /\ UNCHANGED <<driver, tree, git, kept, runs, hist>>

(* Mutant: the snapshot is what HEAD holds.                                *)
ReadSnapshotOfHead ==
  /\ pc = "read"
  /\ snap' = head
  /\ expect' = IF D.expects = "gate" THEN expect ELSE head
  /\ pc' = IF D.gateFirst THEN AfterRead ELSE "gate"
  /\ todo' = IF D.keep # "no" THEN D.owned ELSE {}
  /\ UNCHANGED <<driver, tree, git, kept, writing, arm, left, way, bad, exit, runs, uncovered, hist>>

ReadSnapshot ==
  /\ pc = "read"
  /\ snap' = tree
  /\ expect' = IF D.expects = "gate" THEN expect ELSE tree
  /\ pc' = IF D.gateFirst THEN AfterRead ELSE "gate"
  /\ todo' = IF D.keep # "no" THEN D.owned ELSE {}
  /\ UNCHANGED <<driver, tree, git, kept, writing, arm, left, way, bad, exit, runs, uncovered, hist>>

(* The second reading of the files, for the checks.                        *)
ReadExpected ==
  /\ pc = "expect"
  /\ expect' = tree
  /\ pc' = AfterExpected
  /\ UNCHANGED <<driver, tree, git, snap, arm, left, way, bad, exit, kept, todo, writing,
                 runs, uncovered, hist>>

(* write_snapshot: the copies inside the tree, not written atomically.     *)
Keep ==
  /\ pc = "keep"
  /\ \/ \E f \in todo :
          IF kept[f] = Torn
            THEN kept' = [kept EXCEPT ![f] = snap[f]] /\ todo' = todo \ {f} /\ UNCHANGED pc
            ELSE /\ \A g \in todo : kept[g] # Torn
                 /\ kept' = [kept EXCEPT ![f] = Torn] /\ UNCHANGED <<pc, todo>>
     \/ /\ todo = {}
        /\ pc' = IF D.keep = "early" THEN "control" ELSE "arms"
        /\ UNCHANGED <<kept, todo>>
  /\ UNCHANGED <<driver, tree, git, proc, writing, runs, uncovered, hist>>

(* The suite on the unmodified tree.                                       *)
Drifted(files) == \E f \in files : tree[f] # expect[f]

(* Mutant: a red control is passed over.                                   *)
AcceptsAny(o) == o # "hung"

(* Whether the run goes on after a control.                                *)
Accepts(o) == o \in D.green \/ (D.control = "noted" /\ o # "hung")

Control(o) ==
  /\ pc = "control"
  /\ o # "rejected" /\ (o = "hung" => D.timeout)
  /\ ctl' = (o \in D.green)
  /\ IF D.before = "assert" /\ Drifted(D.owned)
       THEN Leave("fail") /\ UNCHANGED kept
       ELSE IF Accepts(o)
       THEN /\ pc' = IF D.keep = "late" THEN "keep" ELSE "arms"
            /\ UNCHANGED <<proc, kept, todo, writing, uncovered>>
       ELSE IF D.redRestores /\ o # "hung"
       THEN RestoreThen("exit", D.owned) /\ exit' = "fail"
            /\ UNCHANGED <<snap, expect, arm, left, bad, uncovered, kept>>
       ELSE /\ Leave(IF o = "hung" THEN "exception" ELSE "fail")
            /\ IF o # "hung" /\ D.keep = "early" THEN Drop ELSE UNCHANGED kept
  /\ UNCHANGED <<driver, tree, git, runs, sham, lost>>

-----------------------------------------------------------------------------
(* One arm.                                                                *)

Checked(a) == IF D.restoreAll THEN D.owned ELSE a.files

BeginArm(a) ==
  /\ pc = "arms" /\ left > 0 /\ a \in D.arms
  /\ LET drifted == Drifted(Checked(a))
     IN \/ /\ D.before = "assert" /\ drifted
           /\ Leave("fail")
        \/ /\ D.before = "overwrite" /\ drifted
           /\ RestoreThen("exit", D.owned) /\ exit' = "fail"
           /\ UNCHANGED <<snap, expect, arm, left, bad, uncovered>>
        \/ /\ D.before = "restore"
           /\ RestoreThen("plant", D.owned) /\ arm' = a
           /\ UNCHANGED <<snap, expect, left, bad, exit, uncovered>>
        \/ /\ D.before = "none" \/ (D.before \in {"assert", "overwrite"} /\ ~drifted)
           /\ pc' = "plant" /\ todo' = a.files /\ arm' = a
           /\ UNCHANGED <<snap, expect, left, way, bad, exit, uncovered, writing>>
  /\ UNCHANGED <<driver, tree, git, kept, runs, hist>>

Plant(f) ==
  /\ pc = "plant" /\ f \in todo
  /\ Write(f, [(IF D.source = "disk" THEN tree[f] ELSE snap[f]) EXCEPT !.planted = TRUE],
           D.tornPlant)
  /\ UNCHANGED <<driver, pc, git, proc, kept, runs, uncovered, ctl, sham>>

(* Mutant: an arm is gone through again.                                   *)
NextArmOnce == pc' = "arms" /\ arm' = NoArm /\ left' = left + 1

NextArm == pc' = "arms" /\ arm' = NoArm /\ left' = left - 1

Unscored == IF D.check = "scored" THEN "skip" ELSE "arm"

(* The text an arm replaces is absent, or not unique: NOT-INJECTED.        *)
NeedleMissing ==
  /\ pc = "plant" /\ todo # {} /\ writing = {}
  /\ \/ /\ D.miss = "skip" /\ todo = arm.files
        /\ NextArm /\ bad' = TRUE /\ todo' = {}
        /\ UNCHANGED <<snap, expect, way, exit, uncovered, writing>>
     \/ /\ D.miss = "skiprestore"
        /\ RestoreThen(Unscored, Scope) /\ bad' = TRUE
        /\ UNCHANGED <<snap, expect, arm, left, exit, uncovered>>
     \/ D.miss = "abort" /\ Raise("exception")
  /\ sham' = TRUE
  /\ UNCHANGED <<driver, tree, git, kept, runs, ctl, lost>>

RunSuite ==
  /\ pc = "plant" /\ todo = {}
  /\ pc' = "suite"
  /\ UNCHANGED <<driver, tree, git, proc, kept, todo, writing, runs, uncovered, hist>>

(* Mutant: what is no kill is a survival.                                  *)
VerdictOfTwo(o) == IF o \in D.killed THEN "KILLED" ELSE "SURVIVED"

Verdict(o) == IF o \in D.killed THEN "KILLED"
              ELSE IF o \in D.survived THEN "SURVIVED" ELSE "HARNESS"

(* What a verdict should rest on: a suite that ran to its end.             *)
Failing == {"red", "offred", "allred", "errored"}
Earned(o) == /\ Verdict(o) = "KILLED" => o \in Failing
             /\ Verdict(o) = "SURVIVED" => o = "green"

SuiteEnds(o) ==
  /\ pc = "suite"
  /\ (o = "hung" => D.timeout) /\ (o = "rejected" => D.screens)
  /\ IF o \in D.raises
       THEN Raise("exception") /\ UNCHANGED sham
       ELSE /\ bad' = (bad \/ Verdict(o) # arm.expect)
            /\ sham' = (sham \/ Verdict(o) # arm.expect \/ ~Earned(o))
            /\ IF D.perArm
                 THEN /\ RestoreThen(IF o = "rejected" THEN Unscored ELSE "arm", Scope)
                      /\ UNCHANGED <<arm, left>>
                 ELSE NextArm /\ UNCHANGED <<todo, writing, way>>
            /\ UNCHANGED <<snap, expect, exit, uncovered>>
  /\ UNCHANGED <<driver, tree, git, kept, runs, ctl, lost>>

(* Writing the files back, one by one, and what follows.                   *)
Restore(f) ==
  /\ pc = "restore" /\ f \in todo
  /\ Write(f, IF D.back = "index" THEN index[f] ELSE snap[f], D.tornRestore)
  /\ UNCHANGED <<driver, pc, git, proc, kept, runs, uncovered, ctl, sham>>

(* The last look at the files, after the last restore.                     *)
StillDiffers ==
  \/ D.final = "after" /\ Drifted(D.owned)
  \/ D.final = "head" /\ \E f \in D.owned : tree[f] # head[f]

Restored ==
  /\ pc = "restore" /\ todo = {}
  /\ \/ /\ way = "exit"
        /\ Stop(IF exit = "ok" /\ StillDiffers THEN "fail" ELSE exit)
        /\ IF D.keep = "late" THEN Drop ELSE UNCHANGED kept
     \/ /\ way = "plant"
        /\ pc' = "plant" /\ todo' = arm.files
        /\ UNCHANGED <<proc, writing, uncovered, kept>>
     \/ /\ way = "endcontrol" /\ pc' = "endcontrol"
        /\ UNCHANGED <<proc, todo, writing, uncovered, kept>>
     \/ /\ way \in {"arm", "skip"}
        /\ IF D.check = "no" \/ way = "skip"
             THEN NextArm ELSE pc' = "check" /\ UNCHANGED <<arm, left>>
        /\ UNCHANGED <<snap, expect, way, bad, exit, todo, writing, uncovered, kept>>
  /\ UNCHANGED <<driver, tree, git, runs, hist>>

CheckRestored ==
  /\ pc = "check"
  /\ LET differs == Drifted(Scope)
     IN \/ /\ differs /\ D.check \in {"scored", "stop"}
           /\ Leave("fail")
        \/ /\ ~differs \/ D.check = "noted"
           /\ NextArm /\ bad' = (bad \/ differs)
           /\ UNCHANGED <<snap, expect, way, exit, todo, writing, uncovered>>
  /\ UNCHANGED <<driver, tree, git, kept, runs, hist>>

-----------------------------------------------------------------------------
(* The end of a run.                                                       *)

Finish(fail) ==
  LET differs == Drifted(D.owned)
  IN /\ Leave(IF fail \/ (D.honest /\ bad) \/ (D.final = "before" /\ differs)
              THEN "fail" ELSE "ok")
     /\ IF D.keep = "early" /\ ~differs THEN Drop ELSE UNCHANGED kept

EndArms ==
  /\ pc = "arms"
  /\ \/ D.endControl = "no" /\ Finish(FALSE)
     \/ /\ D.endControl # "no" /\ ~D.endRewrites
        /\ pc' = "endcontrol" /\ UNCHANGED <<proc, kept, todo, writing, uncovered>>
     \/ /\ D.endControl # "no" /\ D.endRewrites
        /\ RestoreThen("endcontrol", D.owned)
        /\ UNCHANGED <<snap, expect, arm, left, bad, exit, uncovered, kept>>
  /\ UNCHANGED <<driver, tree, git, runs, hist>>

EndControl(o) ==
  /\ pc = "endcontrol"
  /\ o # "rejected" /\ (o = "hung" => D.timeout)
  /\ IF o = "hung" THEN Leave("exception") /\ UNCHANGED kept
     ELSE IF D.before = "assert" /\ Drifted(D.owned) THEN Leave("fail") /\ UNCHANGED kept
     ELSE Finish(D.endControl = "strict" /\ o # "green")
  /\ UNCHANGED <<driver, tree, git, runs, hist>>

-----------------------------------------------------------------------------
(* Signals.  SIGKILL and an unhandled SIGTERM end the process where it is; *)
(* SIGINT is an exception, which a finally block that is already running   *)
(* does not survive.                                                       *)

Interrupt ==
  /\ pc # "off"
  /\ IF pc \in {"recover", "keep"} \/ (pc = "restore" /\ ~(D.runFinally /\ way # "exit"))
       THEN Stop("interrupted")
       ELSE IF pc \in ArmPhase THEN Raise("exception") ELSE Leave("exception")
  /\ UNCHANGED <<driver, tree, git, kept, runs, hist>>

Terminate ==
  /\ pc # "off"
  /\ IF D.onTerm /\ Guarded
       THEN IF pc = "restore" /\ way = "exit" THEN Stop("interrupted") ELSE Leave("term")
       ELSE Stop("term")
  /\ UNCHANGED <<driver, tree, git, kept, runs, hist>>

Kill ==
  /\ pc # "off" /\ Stop("kill")
  /\ UNCHANGED <<driver, tree, git, kept, runs, hist>>

-----------------------------------------------------------------------------
Suite == \E o \in Outcomes : Control(o) \/ SuiteEnds(o) \/ EndControl(o)

Step ==
  \/ Recover \/ Gate \/ ReadSnapshot \/ ReadExpected \/ Keep
  \/ \E a \in Arms : BeginArm(a)
  \/ \E f \in Files : Plant(f) \/ Restore(f)
  \/ NeedleMissing \/ RunSuite \/ Restored \/ CheckRestored \/ EndArms

Next == Start \/ Step \/ Suite \/ Interrupt \/ Terminate \/ Kill \/ Agent

Spec == Init /\ [][Next]_vars

-----------------------------------------------------------------------------
(* Properties.                                                             *)

(* When no driver runs, an owned file holds a planted defect or is empty   *)
(* only if some process was ended in a way its script has no cover for, or *)
(* the other agent staged the defect.                                      *)
NoResidueAtRest ==
  (pc = "off" /\ \E f \in D.owned : ~Pristine(tree[f]))
    => tainted \/ uncovered

(* What the drivers have in common that this rests on: an arm's files are  *)
(* owned ones; they are written back after every arm or on every way out;  *)
(* and SIGTERM is handled only by a driver that has a way out to take and  *)
(* no copies in the tree.                                                  *)
Restoring == \A d \in Drivers :
  /\ \A a \in Discipline[d].arms : a.files \subseteq Discipline[d].owned
  /\ Discipline[d].perArm \/ Discipline[d].runFinally
  /\ Discipline[d].onTerm => Discipline[d].runFinally /\ Discipline[d].keep = "no"

(* A driver that checks its files against git before it reads them never   *)
(* takes a planted or truncated file for its baseline: what a killed run   *)
(* left behind stops the next run and is not restored for ever after.      *)
BaselineIsPristine ==
  (pc \notin {"off", "recover", "gate", "read"} /\ D.gate # "none" /\ D.gateFirst /\ ~tainted)
    => \A f \in D.owned : Pristine(snap[f])

(* A driver that looks before every arm whether its files are still what it *)
(* read, and writes nothing back on its way out.                           *)
Looks(d) == /\ Discipline[d].before = "assert"
            /\ ~Discipline[d].runFinally /\ ~Discipline[d].redRestores

(* A driver that writes back what was not compared with git just before:   *)
(* copies an earlier run left in the tree, or files read ahead of the check *)
(* that it does not look at again, or only against a second reading.       *)
Roundabout ==
  \/ D.keep # "no"
  \/ ~D.gateFirst /\ (Looks(driver) => D.expects = "reread")

(* The edits a driver may write over: those made while it has the file     *)
(* mutated, or between the reading of the bytes it restores and of those it *)
(* compares with; those made at any time of the run, unless it looks; those *)
(* made after a run died whose copies the next run writes back; and any    *)
(* edit when it restores from the index, or when a damaged file was staged *)
(* over an edit and the baseline was taken in a roundabout way.            *)
Exposed ==
  {"arm", "gap"} \cup (IF Looks(driver) THEN {} ELSE {"run"})
  \cup (IF D.keep # "no" THEN {"stale"} ELSE {})
  \cup (IF D.back = "index" \/ (tainted /\ Roundabout) THEN {"rest", "run"} ELSE {})

(* Only such edits are ever written over while git does not hold them: an  *)
(* edit that was there before the run started survives it.                 *)
OnlyExposedEditsLost == \A e \in lost : when[e] \in Exposed

(* What the drivers have in common that this rests on: an arm's files are  *)
(* owned ones; a driver that keeps copies in the tree, or reads its files  *)
(* before the check, does check them; one that keeps copies, or looks      *)
(* before every arm, restores from its snapshot; and what it looks for is  *)
(* no older than the snapshot.                                             *)
Preserving == \A d \in Drivers :
  /\ \A a \in Discipline[d].arms : a.files \subseteq Discipline[d].owned
  /\ Discipline[d].keep # "no" \/ ~Discipline[d].gateFirst => Discipline[d].gate # "none"
  /\ Discipline[d].keep # "no" => ~Looks(d)
  /\ Discipline[d].keep # "no" \/ Looks(d) => Discipline[d].back = "snapshot"
  /\ Looks(d) => Discipline[d].expects # "gate" /\ ~Discipline[d].endRewrites

(* A suite that is run on an arm measures that arm: a driver that begins   *)
(* with a control has seen it green, and no owned file outside the arm     *)
(* holds a defect, the ones of its own baseline apart.                     *)
VerdictIsAttributable ==
  pc = "suite" =>
    /\ D.control = "first" => ctl
    /\ \A f \in D.owned \ arm.files : tree[f].planted => tainted \/ snap[f].planted

(* What the drivers have in common that the second half rests on: the      *)
(* files of an arm are written back, or compared, before the next begins,  *)
(* or the next one is planted over them (r517).                            *)
Separating == \A d \in Drivers :
  /\ \A a \in Discipline[d].arms : a.files \subseteq Discipline[d].owned
  /\ \/ Discipline[d].perArm \/ Discipline[d].before = "restore"
     \/ /\ Discipline[d].before \in {"assert", "overwrite"} /\ Discipline[d].restoreAll
        /\ Discipline[d].expects # "gate"
     \/ \A a \in Discipline[d].arms : a.files = Discipline[d].owned

(* A matrix whose exit status stands for its verdicts, and whose parser    *)
(* scores only suites that ran, exits with 0 only if every arm ended in    *)
(* the verdict it expects of a suite that ran to its end.                  *)
Discerning == D.killed \subseteq Failing /\ D.survived \subseteq {"green"}
PassIsEarned == (pc = "off" /\ exit = "ok" /\ D.honest /\ Discerning) => ~sham

(* The copies a killed run leaves in the tree are the pristine ones: what  *)
(* the next run writes back from them is never a defect or an empty file.  *)
RecoveryRestores ==
  (pc \in {"gate", "read"} /\ D.keep # "no" /\ ~tainted)
     => \A f \in D.owned : Pristine(tree[f])

(* Of that, the first half: wherever the earlier run was killed, in its     *)
(* arms, its recovery or while it wrote the copies, no defect that it has   *)
(* planted is left in an owned file once the next run has recovered.  (An   *)
(* empty file may be.)                                                      *)
RecoveryUnplants ==
  (pc \in {"gate", "read"} /\ D.keep # "no" /\ ~tainted)
     => \A f \in D.owned : ~tree[f].planted

(* What this rests on: a driver that makes the copies after its control has *)
(* one, and writes every file back on each way out on which it removes them. *)
Recovering == \A d \in Drivers :
  Discipline[d].keep = "late" => Discipline[d].control # "none" /\ Discipline[d].runFinally

=============================================================================
