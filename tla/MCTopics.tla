------------------------------ MODULE MCTopics ------------------------------
(* Small instances of Topics: two agents, two topics, three invites, a      *)
(* clock of three ticks.  TTL 0 is an invite that is expired when issued, -2 *)
(* one whose expiry is 0 when it is issued at tick 2; the texts are "0" and  *)
(* "-1".                                                                    *)
EXTENDS Topics, TLC

Number(n)  == [text |-> FALSE, ms |-> n]
Text(n)    == [text |-> TRUE, ms |-> n]
ManyTtls   == {Number(-2), Number(0), Number(2), Text(0), Text(-1)}

AgentTopicSymmetry == Permutations(Agent) \cup Permutations(Topic)
=============================================================================
