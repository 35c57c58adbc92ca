---------------------------- MODULE MCLifecycle ----------------------------
(* Instances of Lifecycle for TLC: constant values and symmetry. *)
EXTENDS Lifecycle, TLC

\* A kill switch on the whole imperium or on one marine.
AllScopes == {Marines} \cup {{m} : m \in Marines}
ImperiumScope == {Marines}

\* No property of the symmetric runs is temporal.
Symmetry == Permutations(Loops) \cup Permutations(Requests) \cup Permutations(Marines)

\* The state but for how the last cycle ended, which no step and no other
\* variable depends on.
Seen == <<rows, routines, cancels, handlers, server, halted>>
=============================================================================
