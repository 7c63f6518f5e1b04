------------------------------ MODULE MCMatrix ------------------------------
(* The drivers of hub/scripts, beside an agent that edits and commits.     *)
EXTENDS MutationDriver, MatrixScripts

MCDiscipline == [d \in Drivers |-> DisciplineOf[d]]

(* The scripts are as the proofs assume. *)
ASSUME ScriptsRestore == Restoring
ASSUME ScriptsSeparate == Separating
ASSUME ScriptsPreserve == Preserving
ASSUME ScriptsRecover == Recovering
=============================================================================
