---------------------------- MODULE MCMemoryPool ----------------------------
(* Small instances of MemoryPool. *)
EXTENDS MemoryPool, TLC

MemorySymmetry == Permutations(Key) \cup Permutations(Value)
=============================================================================
