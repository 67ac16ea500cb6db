------------------------------ MODULE MCAskFlow ------------------------------
(* AskFlow for TLC: its .cfg files give Requests and Targets as sets of model *)
(* values.  Liveness and refinement are checked, so no symmetry is declared.  *)
EXTENDS AskFlow
=============================================================================
