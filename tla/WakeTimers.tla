---------------------------- MODULE WakeTimers ----------------------------
(***************************************************************************)
(* What primarch's scheduler promises about recurring wake timers, without *)
(* saying how: a marine has at most one armed timer; arming replaces the   *)
(* old timer, disarming takes it away; a timer that lost its place only    *)
(* drains, always for the marine it was armed for, and is gone in the end. *)
(* Lifecycle implements this with goroutines, contexts and a map.          *)
(***************************************************************************)
CONSTANTS Marines, Timers, None

VARIABLES
    armed,      \* the timer of each marine, or None
    draining    \* the marine a replaced or disarmed timer still works for, or None

vars == <<armed, draining>>

Unused(t) == draining[t] = None /\ \A m \in Marines : armed[m] # t

Init ==
    /\ armed = [m \in Marines |-> None]
    /\ draining = [t \in Timers |-> None]

\* The timers of the marines in S start to drain.
DrainOf(S) ==
    [t \in Timers |-> IF \E m \in S : armed[m] = t
                      THEN CHOOSE m \in S : armed[m] = t
                      ELSE draining[t]]

Arm(m) ==
    \E t \in Timers :
        /\ Unused(t)
        /\ armed' = [armed EXCEPT ![m] = t]
        /\ draining' = DrainOf({m})

Disarm(S) ==
    /\ armed' = [m \in Marines |-> IF m \in S THEN None ELSE armed[m]]
    /\ draining' = DrainOf(S)

Gone(t) ==
    /\ draining[t] # None
    /\ draining' = [draining EXCEPT ![t] = None]
    /\ UNCHANGED armed

\* The process ends and every timer with it.
Reset ==
    /\ armed' = [m \in Marines |-> None]
    /\ draining' = [t \in Timers |-> None]

Next ==
    \/ \E m \in Marines : Arm(m) \/ Disarm({m})
    \/ Disarm(Marines)
    \/ \E t \in Timers : Gone(t)
    \/ Reset

Spec == Init /\ [][Next]_vars

\* A timer that drains is gone in the end.
Drains == \A t \in Timers : draining[t] # None ~> draining[t] = None

Promise == Spec /\ Drains
=============================================================================
