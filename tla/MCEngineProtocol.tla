-------------------------- MODULE MCEngineProtocol --------------------------
(* Instances of EngineProtocol for TLC: two topologies. *)
EXTENDS EngineProtocol, TLC

CONSTANTS m1, m2, c1, c2, f1, f2, e1, e2

\* One engine with all marines in one company.
OneCompany == [m \in Marines |-> c1]
OneFortress == [c \in Companies |-> f1]
OneEngine == [f \in Fortresses |-> e1]

\* Two engines with a fortress, a company and a marine each.
TwoCompanies == (m1 :> c1) @@ (m2 :> c2)
TwoFortresses == (c1 :> f1) @@ (c2 :> f2)
TwoEngines == (f1 :> e1) @@ (f2 :> e2)

Imperium == {"imperium"}
Symmetry == Permutations(Requests) \cup Permutations(Commands)
=============================================================================
