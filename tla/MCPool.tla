------------------------------- MODULE MCPool -------------------------------
(* An instance of Pool for TLC. *)
EXTENDS Pool

CONSTANTS r1, r2
=============================================================================
