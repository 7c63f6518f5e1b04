--------------------------- MODULE MatrixScripts ---------------------------
(***************************************************************************)
(* The disciplines of the mutation-matrix drivers of hub/scripts (and of   *)
(* scripts/r485_matrix.py), for MutationDriver.  Of each script,           *)
(*   FlowN    is its main: the gate, the control, the loop over the arms   *)
(*            and the ways out of it;                                      *)
(*   WritesN  is how it snapshots, plants and restores;                    *)
(*   ReadsN   is how it reads the output of the suite;                     *)
(*   ArmsN    is its table of mutations.                                   *)
(* Each gives only what differs from Default.                              *)
(*                                                                         *)
(* Two files stand for those a driver owns: "a" is the first of its arms'  *)
(* targets, "b" every other one.  r504_matrix.py is not here: it mutates a *)
(* copy of the repository in a temporary directory.                        *)
(***************************************************************************)
EXTENDS Naturals, FiniteSets, TLC

A == {"a"}
B == {"b"}
AB == {"a", "b"}
Killed(files) == [files |-> files, expect |-> "KILLED"]
Survives(files) == [files |-> files, expect |-> "SURVIVED"]

Fails == {"red", "offred", "allred", "errored"}
NoRun == {"broken", "silent"}

(* git status before the snapshot, which is also what the checks compare   *)
(* with; a control that must be green; files written in place, planted     *)
(* from the text on disk and all written back; a suite that is given a     *)
(* timeout whose expiry nobody catches; every red run a kill.              *)
Default == [
  owned |-> A, gate |-> "status", gateFirst |-> TRUE, expects |-> "snapshot",
  control |-> "first", keep |-> "no", redRestores |-> FALSE,
  endControl |-> "no", endRewrites |-> FALSE, before |-> "none", perArm |-> TRUE,
  check |-> "no", armFinally |-> FALSE, runFinally |-> FALSE, guardsControl |-> FALSE,
  onTerm |-> FALSE, honest |-> FALSE, final |-> "no",
  source |-> "disk", tornPlant |-> TRUE, tornRestore |-> TRUE, restoreAll |-> TRUE,
  back |-> "snapshot", ifDiffers |-> FALSE, miss |-> "skip",
  green |-> {"green"}, killed |-> Fails, survived |-> {"green"}, raises |-> {"hung"},
  timeout |-> TRUE, screens |-> FALSE ]

Atomic == [tornPlant |-> FALSE, tornRestore |-> FALSE]
Untimed == [timeout |-> FALSE, raises |-> {}]

(* A summary line whose shape is checked: what fails is a kill, no summary *)
(* is a harness error and not a verdict.                                   *)
Strict == [killed |-> Fails, survived |-> {"green"}]
(* No summary counts as zero failures.                                     *)
Lenient == [killed |-> Fails, survived |-> {"green"} \cup NoRun]
(* The summary must show the known number of tests, and a run that shows a *)
(* crash is a harness error.                                               *)
Counted == [killed |-> {"red", "offred"}, survived |-> {"green"}]

-----------------------------------------------------------------------------
(* r469_matrix.py: db.ts; git checkout puts the file back.                 *)
Flow469 == [gate |-> "none"]
Writes469 == [back |-> "index", armFinally |-> TRUE, check |-> "noted", restoreAll |-> FALSE]
Reads469 == Untimed @@ [green |-> {"green", "broken"}, killed |-> Fails \cup {"silent"},
                        survived |-> {"green", "broken"}]
Arms469 == [arms |-> {Killed(A)}]
R469 == Arms469 @@ Reads469 @@ Writes469 @@ Flow469 @@ Default

(* r476_matrix.py: ws_server.ts, db.ts, rest_server.ts; no control before  *)
(* the arms, and an arm is killed only if the tests it names fail.         *)
Flow476 == [owned |-> AB, control |-> "none", endControl |-> "noted", runFinally |-> TRUE]
Writes476 == [ifDiffers |-> TRUE]
Reads476 == Untimed @@ [killed |-> Fails \ {"offred"}, miss |-> "abort",
                        survived |-> {"green", "offred"} \cup NoRun]
Arms476 == [arms |-> {Killed(A), Killed(B)}]
R476 == Arms476 @@ Reads476 @@ Writes476 @@ Flow476 @@ Default

(* r477_matrix.py: scheduler.ts, rest_server.ts; git diff before the       *)
(* snapshot; only the restore is atomic.                                   *)
Gate477 == [gate |-> "index"]
Flow477 == [owned |-> AB, armFinally |-> TRUE, runFinally |-> TRUE, guardsControl |-> TRUE,
            honest |-> TRUE, final |-> "before"]
Writes477 == [tornRestore |-> FALSE, miss |-> "skiprestore"]
Reads477 == [killed |-> {"red", "offred", "errored"}]
Arms477 == [arms |-> {Killed(A), Killed(B), Survives(A)}]
R477 == Arms477 @@ Reads477 @@ Writes477 @@ Gate477 @@ Flow477 @@ Default

(* r478_matrix.py: db.ts, rest_server.ts; written atomically; a run that   *)
(* shows no summary has zero failures, in the control too.                 *)
Flow478 == [owned |-> AB, runFinally |-> TRUE, guardsControl |-> TRUE]
Gate478 == [gate |-> "status", tornRestore |-> FALSE]
Writes478 == [tornPlant |-> FALSE, miss |-> "skiprestore"]
Reads478 == Untimed @@ [green |-> {"green", "allred"} \cup NoRun,
                        killed |-> {"red", "offred", "errored"},
                        survived |-> {"green", "allred"} \cup NoRun]
Arms478 == [arms |-> {Killed(A), Killed(B), Survives(A), Survives(B)}]
R478 == Arms478 @@ Reads478 @@ Writes478 @@ Gate478 @@ Flow478 @@ Default

(* r479_matrix.py: federation.ts, ws_server.ts; the verdicts decide the    *)
(* exit status; a run without a summary passes.                            *)
Flow479 == [owned |-> AB, redRestores |-> TRUE, armFinally |-> TRUE, honest |-> TRUE]
Gate479 == [gate |-> "status"]
Writes479 == [miss |-> "skiprestore"]
Reads479 == Untimed @@ [green |-> {"green"} \cup NoRun, killed |-> {"red", "offred", "errored"},
                        survived |-> {"green"} \cup NoRun]
Arms479 == [arms |-> {Killed(A), Survives(A), Killed(B)}]
R479 == Arms479 @@ Reads479 @@ Writes479 @@ Gate479 @@ Flow479 @@ Default

(* r482_matrix.py: memory.ts, ws_server.ts, rest_server.ts; the bytes to   *)
(* restore are read, the gate follows, and the sums to compare with are    *)
(* taken of a second reading; a red control is printed and passed over.    *)
Gate482 == [owned |-> AB, gateFirst |-> FALSE, expects |-> "reread"]
Flow482 == [control |-> "noted", before |-> "assert", armFinally |-> TRUE, check |-> "stop",
            restoreAll |-> FALSE]
Writes482 == [miss |-> "abort"]
Reads482 == Strict
Arms482 == [arms |-> {Killed(A), Survives(A), Killed(B), Killed(AB)}]
R482 == Arms482 @@ Reads482 @@ Writes482 @@ Gate482 @@ Flow482 @@ Default

(* scripts/r485_matrix.py: rest_server.ts; the snapshot precedes the gate; *)
(* the exit status of the runner is the verdict.                           *)
Gate485 == [gateFirst |-> FALSE]
Control485 == Untimed @@ [redRestores |-> TRUE]
Arm485 == [screens |-> TRUE, armFinally |-> TRUE, check |-> "stop", runFinally |-> TRUE,
           killed |-> Fails \cup NoRun]
Arms485 == [arms |-> {Killed(A)}]
R485 == Arms485 @@ Arm485 @@ Control485 @@ Gate485 @@ Default

(* r488_matrix.py: ws_server.ts, index.ts and two more; the bytes and the  *)
(* sums are two readings.                                                  *)
Gate488 == [owned |-> AB, expects |-> "reread"]
Flow488 == [before |-> "assert", armFinally |-> TRUE, check |-> "stop", restoreAll |-> FALSE]
Writes488 == [miss |-> "abort"]
Reads488 == Strict
Arms488 == [arms |-> {Killed(A), Killed(AB), Survives(A)}]
R488 == Arms488 @@ Reads488 @@ Writes488 @@ Gate488 @@ Flow488 @@ Default

(* r494_matrix.py: ws_server.ts; no gate; a file that changed between two  *)
(* arms is written over before the run stops; a timeout is a kill.         *)
Flow494 == [gate |-> "none", before |-> "overwrite", check |-> "scored", screens |-> TRUE,
            miss |-> "skiprestore", raises |-> {}]
Writes494 == [source |-> "disk"]
Reads494 == [green |-> {"green"} \cup NoRun, killed |-> Fails \cup {"hung"},
             survived |-> {"green"} \cup NoRun]
Arms494 == [arms |-> {Killed(A), Survives(A)}]
R494 == Arms494 @@ Reads494 @@ Writes494 @@ Flow494 @@ Default

(* r496_matrix.py: index.ts, graph/store.ts and four more; no gate, no     *)
(* finally; every step asserts that the files are at the baseline.         *)
Flow496 == [owned |-> AB, gate |-> "none", check |-> "stop", endControl |-> "noted",
            screens |-> TRUE, miss |-> "skiprestore"]
Writes496 == [before |-> "assert"]
Reads496 == Strict
Arms496 == [arms |-> {Killed(A), Killed(B), Survives(B)}]
R496 == Arms496 @@ Reads496 @@ Writes496 @@ Flow496 @@ Default

(* r497_matrix.py: crypto.ts, rest_server.ts, db.ts; no finally; restored  *)
(* before every arm.                                                       *)
Flow497 == [owned |-> AB, redRestores |-> TRUE, before |-> "restore", check |-> "scored",
            endControl |-> "strict", screens |-> TRUE]
Writes497 == [gate |-> "status", expects |-> "reread"]
Reads497 == Lenient
Arms497 == [arms |-> {Killed(A), Killed(B)}]
R497 == Arms497 @@ Reads497 @@ Writes497 @@ Flow497 @@ Default

(* r498b_matrix.py: ui_static.ts; the gate asks only that the file exists. *)
Gate498b == [gate |-> "none"]
Guard498b == [expects |-> "reread", runFinally |-> TRUE, guardsControl |-> TRUE]
Flow498b == [before |-> "restore", check |-> "scored", endControl |-> "strict",
             screens |-> TRUE, honest |-> TRUE]
Writes498b == Atomic
Reads498b == Lenient
Arms498b == [arms |-> {Killed(A), Survives(A)}]
R498b == Arms498b @@ Reads498b @@ Writes498b @@ Guard498b @@ Gate498b @@ Flow498b @@ Default

(* r501_matrix.py: r501_detector.py; handlers for TERM, INT and HUP.       *)
Flow501 == [gate |-> "none", redRestores |-> TRUE, onTerm |-> TRUE, runFinally |-> TRUE,
            source |-> "snapshot", check |-> "scored"]
Reads501 == Lenient
Arms501 == [arms |-> {Killed(A)}]
R501 == Arms501 @@ Reads501 @@ Flow501 @@ Default

(* r502_matrix.py: r502_detector.py; handlers and atexit installed before  *)
(* the control; an arm that changes nothing the oracle sees is thrown out. *)
Flow502 == [gate |-> "none", onTerm |-> TRUE, runFinally |-> TRUE, guardsControl |-> TRUE]
Oracle502 == [screens |-> TRUE, miss |-> "skiprestore"]
Reads502 == Strict
Arms502 == [arms |-> {Killed(A)}]
R502 == Arms502 @@ Reads502 @@ Oracle502 @@ Flow502 @@ Default

(* r506_matrix.py: system-file-marker.ts; compared with the md5 the script *)
(* itself took when it was loaded.                                         *)
Gate506 == [gate |-> "none", expects |-> "reread"]
Flow506 == [redRestores |-> TRUE, onTerm |-> TRUE, runFinally |-> TRUE, before |-> "restore",
            check |-> "scored", endControl |-> "strict", screens |-> TRUE]
Writes506 == Atomic
Reads506 == Lenient
Arms506 == [arms |-> {Killed(A), Survives(A)}]
R506 == Arms506 @@ Reads506 @@ Writes506 @@ Gate506 @@ Flow506 @@ Default

(* r514_matrix.py: index.ts and web_ui_port.ts, both written for every arm, *)
(* and once more before the last control, from text read at the start (a   *)
(* third reading, taken here for the snapshot); tsc builds the mutated tree. *)
Writes514 == [source |-> "snapshot"]
Build514 == [screens |-> TRUE, raises |-> {"hung", "rejected", "silent"}]
Reads514 == Strict
Arms514 == [arms |-> {Killed(AB), Survives(AB)}]
Flow514 == [owned |-> AB, gate |-> "none", expects |-> "reread", control |-> "none",
            endControl |-> "strict", endRewrites |-> TRUE, runFinally |-> TRUE,
            honest |-> TRUE, final |-> "before"]
R514 == Arms514 @@ Reads514 @@ Build514 @@ Writes514 @@ Flow514 @@ Default

(* r515_matrix.py: db.ts, ws_server.ts.                                    *)
Gate515 == [gate |-> "status"]
Flow515 == [owned |-> AB, expects |-> "reread", redRestores |-> TRUE, check |-> "scored",
            runFinally |-> TRUE, final |-> "after"]
Writes515 == [miss |-> "skiprestore"]
Reads515 == [killed |-> Fails \cup NoRun]
Arms515 == [arms |-> {Killed(A), Survives(B)}]
R515 == Arms515 @@ Reads515 @@ Writes515 @@ Gate515 @@ Flow515 @@ Default

(* r517_matrix.py: db.ts, compared with HEAD; written atomically, put back *)
(* only once, after the last arm, and looked at after that.                *)
Flow517 == [gate |-> "head", expects |-> "gate", source |-> "snapshot", perArm |-> FALSE,
            runFinally |-> TRUE, honest |-> TRUE, final |-> "after"] @@ Atomic
Needles517 == [miss |-> "skip"]
Reads517 == Counted
Arms517 == [arms |-> {Killed(A), Survives(A)}]
R517 == Arms517 @@ Reads517 @@ Needles517 @@ Flow517 @@ Default

(* r520_matrix.py: db.ts.                                                  *)
Flow520 == [gate |-> "head", expects |-> "gate", armFinally |-> TRUE, check |-> "noted",
            honest |-> TRUE, final |-> "before"]
Needles520 == [miss |-> "skip"]
Reads520 == Counted
Arms520 == [arms |-> {Killed(A), Survives(A)}]
R520 == Arms520 @@ Reads520 @@ Needles520 @@ Flow520 @@ Default

(* r521_matrix.py: memory.ts, db.ts; an arm puts back its own file.        *)
Flow521 == [owned |-> AB, gate |-> "head", expects |-> "reread", armFinally |-> TRUE,
            check |-> "noted", restoreAll |-> FALSE, honest |-> TRUE, final |-> "before"]
Needles521 == [miss |-> "skip"]
Reads521 == Counted
Arms521 == [arms |-> {Killed(A), Killed(B), Survives(A)}]
R521 == Arms521 @@ Reads521 @@ Needles521 @@ Flow521 @@ Default

(* r523_matrix.py: crypto.ts, rest_server.ts; copies in the tree from      *)
(* before the control until every file is verified back.                   *)
Flow523 == [owned |-> AB, gate |-> "head", expects |-> "reread", armFinally |-> TRUE,
            check |-> "noted", restoreAll |-> FALSE, honest |-> TRUE, final |-> "before"]
Writes523 == [keep |-> "early"]
Needles523 == [miss |-> "skip"]
Reads523 == Counted
Arms523 == [arms |-> {Killed(A), Killed(B), Survives(A)}]
R523 == Arms523 @@ Reads523 @@ Needles523 @@ Writes523 @@ Flow523 @@ Default

(* r530_matrix.py: db.ts, rest_server.ts, memory.ts; read before the gate; *)
(* copies in the tree from after the control.                              *)
Flow530 == [owned |-> AB, gate |-> "head", gateFirst |-> FALSE, source |-> "snapshot",
            restoreAll |-> FALSE, runFinally |-> TRUE, final |-> "head"]
Writes530 == [keep |-> "late"]
Reads530 == [killed |-> {"red", "offred", "errored"}]
Arms530 == [arms |-> {Killed(A), Killed(B)}]
R530 == Arms530 @@ Reads530 @@ Writes530 @@ Flow530 @@ Default

-----------------------------------------------------------------------------
Scripts ==
  {"r469", "r476", "r477", "r478", "r479", "r482", "r485", "r488", "r494", "r496", "r497",
   "r498b", "r501", "r502", "r506", "r514", "r515", "r517", "r520", "r521", "r523", "r530"}

DisciplineOf == [s \in Scripts |->
  CASE s = "r469" -> R469 [] s = "r476" -> R476 [] s = "r477" -> R477 [] s = "r478" -> R478
    [] s = "r479" -> R479 [] s = "r482" -> R482 [] s = "r485" -> R485 [] s = "r488" -> R488
    [] s = "r494" -> R494 [] s = "r496" -> R496 [] s = "r497" -> R497 [] s = "r498b" -> R498b
    [] s = "r501" -> R501 [] s = "r502" -> R502 [] s = "r506" -> R506 [] s = "r514" -> R514
    [] s = "r515" -> R515 [] s = "r517" -> R517 [] s = "r520" -> R520 [] s = "r521" -> R521
    [] s = "r523" -> R523 [] s = "r530" -> R530]

=============================================================================
