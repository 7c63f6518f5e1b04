--------------------------- MODULE MCSessionStore ---------------------------
(* Small instances of SessionStore. *)
EXTENDS SessionStore, TLC

Scores == {-1, 3}

StoreSymmetry == Permutations(Session) \cup Permutations(Agent)
=============================================================================
