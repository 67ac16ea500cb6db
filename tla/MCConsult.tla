----------------------------- MODULE MCConsult ------------------------------
(* Consult for TLC: the asker, Agents of this node and one of another. *)
EXTENDS Consult
=============================================================================
