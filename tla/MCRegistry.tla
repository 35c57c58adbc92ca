----------------------------- MODULE MCRegistry -----------------------------
(* An instance of Registry for TLC. *)
EXTENDS Registry

CONSTANTS s1, s2

\* One plan for the first strategy; the second can only be granted.
FirstStrategy == [p \in Plans |-> s1]
=============================================================================
