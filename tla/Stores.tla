------------------------------- MODULE Stores -------------------------------
(***************************************************************************)
(* The two implementations of the DataStore interface: maps under one lock *)
(* in the process, or PostgreSQL.  main chooses one when it starts.        *)
(***************************************************************************)

VARIABLE backend

Backends == {"memory", "postgres"}
=============================================================================
