---------------------------- MODULE MCDelegations ----------------------------
(* Small instances of Delegations. *)
EXTENDS Delegations, TLC

AgentSymmetry == Permutations(Agent)
=============================================================================
