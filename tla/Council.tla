------------------------------- MODULE Council -------------------------------
(***************************************************************************)
(* The council's side of the server: payouts, goals and plans over one     *)
(* store.  The parts share the store but no row, so a behaviour in which   *)
(* clients use one of them at a time shows all that each can do; Apis says *)
(* which parts are used together.                                          *)
(***************************************************************************)
EXTENDS Payouts, Goals, Plans

CONSTANT Apis   \* the sets of parts that the clients of a behaviour use

VARIABLE api

councilVars == <<api, payoutVars, goalVars, planVars>>

CouncilInit ==
    /\ api \in Apis
    /\ backend \in Backends
    /\ PayoutsInit
    /\ GoalsInit
    /\ PlansInit

CouncilNext ==
    \/ "payouts" \in api /\ PayoutsStep /\ UNCHANGED <<api, goalVars, planVars>>
    \/ "goals" \in api /\ GoalsStep /\ UNCHANGED <<api, payoutVars, planVars>>
    \/ "roadmap" \in api /\ RoadmapStep /\ UNCHANGED <<api, payoutVars, goalVars>>
    \/ "allocations" \in api /\ AllocationsStep /\ UNCHANGED <<api, payoutVars, goalVars>>

CouncilSpec == CouncilInit /\ [][CouncilNext]_councilVars

-----------------------------------------------------------------------------

\* The variables of all parts hold values of their types.
CouncilTypeOK == api \in Apis /\ PayoutsTypeOK /\ GoalsTypeOK /\ PlansTypeOK
=============================================================================
