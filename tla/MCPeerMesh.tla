----------------------------- MODULE MCPeerMesh ------------------------------
(* PeerMesh for TLC: two nodes whose askers ask each other. *)
EXTENDS PeerMesh

CONSTANTS n1, n2, q1, q2, q3

MCNodes == {n1, n2}
MCQuestions == {q1, q2, q3}
MCAsker == [q \in MCQuestions |-> IF q = q2 THEN n2 ELSE n1]
MCOwner == [q \in MCQuestions |-> IF q = q2 THEN n1 ELSE n2]
=============================================================================
