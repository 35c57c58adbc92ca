---------------------------- MODULE MCHierarchy ----------------------------
(* An instance of Hierarchy for TLC. *)
EXTENDS Hierarchy

CONSTANTS shared, f1, c1, m1, e1, x1
=============================================================================
