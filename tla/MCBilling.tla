------------------------------ MODULE MCBilling ------------------------------
(* Instances of Billing for TLC. *)
EXTENDS Billing, TLC

CONSTANT s1

OneStrategy == [p \in Plans |-> s1]

\* Two periods; day 3 is of the second.
Calendar == [d \in Days |-> IF d = 3 THEN 2 ELSE 1]
=============================================================================
