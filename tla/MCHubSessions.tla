---------------------------- MODULE MCHubSessions ----------------------------
(* Small instances of HubSessions: two agents and three sockets, so that an  *)
(* agent can reconnect while its first socket is still closing.              *)
EXTENDS HubSessions, TLC

NoTtl  == {}
OneTtl == {[text |-> FALSE, ms |-> 1]}

SessionSymmetry == Permutations(Agent) \cup Permutations(Socket)
=============================================================================
