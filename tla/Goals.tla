-------------------------------- MODULE Goals --------------------------------
(***************************************************************************)
(* Savings goals and the contributions to them.  A contribution is a row   *)
(* and an addition to the goal's CurrentAmount, in one transaction or      *)
(* under one lock; an edit of a goal replaces the whole row, that amount   *)
(* included, by what its client read before.                               *)
(***************************************************************************)
EXTENDS Stores, Integers, FiniteSets

CONSTANTS
    GoalIds,        \* goal ids
    GiftIds,        \* ids of contributions, the same in a retry
    Editors,        \* clients that read a goal and send it back (bound)
    Targets,        \* target amounts
    Statuses,       \* the statuses a client may send
    MaxGifts        \* bound: rows of the in-memory store with one id

ASSUME GoalsAssumption ==
    /\ Targets \subseteq Nat \ {0}
    /\ Statuses \subseteq {"active", "paused", "completed"}
    /\ MaxGifts \in Nat \ {0}

VARIABLES
    status,     \* status[g], "none" when there is no such goal
    saved,      \* saved[g]: CurrentAmount
    target,     \* target[g]: TargetAmount
    gifts,      \* gifts[<<c, g>>]: rows with id c that contribute to goal g
    page,       \* page[x]: the goal an editor has in hand, or "none"
    read,       \* read[x]: CurrentAmount as the editor read it
    opening,    \* history: saved[g] less the contributions listed for it then
    lost        \* history: an edit overwrote a contribution it had not seen

goalVars == <<backend, status, saved, target, gifts, page, read, opening, lost>>
goals == <<status, saved, target>>
editing == <<page, read>>
goalHistory == <<opening, lost>>

-----------------------------------------------------------------------------
Gift == GiftIds \X GoalIds
HasGoal(g) == status[g] # "none"

\* A contribution is of one unit: the number of rows is their sum.
Given(g) ==
    Cardinality({k \in GiftIds \X (1 .. MaxGifts) : k[2] <= gifts[<<k[1], g>>]})

GoalsInit ==
    /\ status = [g \in GoalIds |-> "none"]
    /\ saved = [g \in GoalIds |-> 0]
    /\ target = [g \in GoalIds |-> 0]
    /\ gifts = [k \in Gift |-> 0]
    /\ page = [x \in Editors |-> "none"]
    /\ read = [x \in Editors |-> 0]
    /\ opening = [g \in GoalIds |-> 0]
    /\ lost = [g \in GoalIds |-> FALSE]

\* An id that is taken is refused by either store.
NewGoal(g, t, n, s) ==
    /\ ~HasGoal(g)
    /\ status' = [status EXCEPT ![g] = s]
    /\ saved' = [saved EXCEPT ![g] = n]
    /\ target' = [target EXCEPT ![g] = t]
    /\ opening' = [opening EXCEPT ![g] = n - Given(g)]
    /\ lost' = [lost EXCEPT ![g] = FALSE]
    /\ UNCHANGED <<backend, gifts, editing>>

\* handleCreateGoal: only a goal with a target is created.
CreateGoal(g, t, n, s) ==
    /\ t > 0
    /\ NewGoal(g, t, n, s)

\* A goal that has what it takes is completed, if it is active.
Completes(s, n, t) == IF s = "active" /\ n >= t THEN "completed" ELSE s

\* handleGetGoal, for a client that will send the goal back.
ReadGoal(x, g) ==
    /\ HasGoal(g)
    /\ page[x] = "none"
    /\ page' = [page EXCEPT ![x] = g]
    /\ read' = [read EXCEPT ![x] = saved[g]]
    /\ UNCHANGED <<backend, goals, gifts, goalHistory>>

\* The row becomes the one that was sent, the status and the amount included.
StoreGoal(g, n, t, s) ==
    /\ saved' = [saved EXCEPT ![g] = n]
    /\ target' = [target EXCEPT ![g] = t]
    /\ status' = [status EXCEPT ![g] = Completes(s, n, t)]
    /\ lost' = [lost EXCEPT ![g] = @ \/ saved[g] # n]

\* handleUpdateGoal.  A goal that has gone is an error in memory and no
\* change, answered as one, in PostgreSQL.
PutGoal(x, t, s) ==
    /\ page[x] # "none"
    /\ IF HasGoal(page[x]) THEN StoreGoal(page[x], read[x], t, s)
                           ELSE UNCHANGED <<goals, lost>>
    /\ page' = [page EXCEPT ![x] = "none"]
    /\ read' = [read EXCEPT ![x] = 0]
    /\ UNCHANGED <<backend, gifts, opening>>

\* Wrong: a goal is deleted by a status the dashboard does not know.
DropGoalStatus(g) ==
    /\ HasGoal(g)
    /\ status' = [status EXCEPT ![g] = "deleted"]
    /\ UNCHANGED <<backend, saved, target, gifts, editing, goalHistory>>

\* PostgreSQL keeps a goal that has contributions; the in-memory store leaves
\* them behind.
DropGoal(g) ==
    /\ HasGoal(g)
    /\ backend = "postgres" => \A c \in GiftIds : gifts[<<c, g>>] = 0
    /\ status' = [status EXCEPT ![g] = "none"]
    /\ saved' = [saved EXCEPT ![g] = 0]
    /\ target' = [target EXCEPT ![g] = 0]
    /\ UNCHANGED <<backend, gifts, editing, goalHistory>>

DeleteGoal(g) == DropGoal(g)

\* Wrong: a completed goal takes the row of the contribution and not its sum.
AddGiftUncounted(c, g) ==
    /\ gifts' = [gifts EXCEPT ![<<c, g>>] = @ + 1]
    /\ saved' = [saved EXCEPT ![g] = IF status[g] = "active" THEN @ + 1 ELSE @]
    /\ status' = [status EXCEPT ![g] = Completes(status[g], saved[g] + 1, target[g])]
    /\ UNCHANGED <<backend, target, editing, opening, lost>>

\* The sum grows with the row, and may complete the goal.
AddGift(c, g) ==
    /\ gifts' = [gifts EXCEPT ![<<c, g>>] = @ + 1]
    /\ saved' = [saved EXCEPT ![g] = @ + 1]
    /\ status' = [status EXCEPT ![g] = Completes(status[g], saved[g] + 1, target[g])]
    /\ UNCHANGED <<backend, target, editing, opening, lost>>

\* Wrong: a contribution that is refused as known is added once more.
ContributeTwice(c, g) ==
    /\ HasGoal(g)
    /\ gifts[<<c, g>>] < MaxGifts + 1
    /\ AddGift(c, g)

\* handleContributeGoal.  The primary key of PostgreSQL refuses an id that is
\* taken, by whichever goal, and the transaction ends without a trace.
Contribute(c, g) ==
    /\ HasGoal(g)
    /\ IF backend = "postgres" THEN \A h \in GoalIds : gifts[<<c, h>>] = 0
                               ELSE gifts[<<c, g>>] < MaxGifts
    /\ AddGift(c, g)

GoalsStep ==
    \/ \E g \in GoalIds :
          \/ \E t \in Targets, n \in {0} \cup Targets, s \in Statuses : CreateGoal(g, t, n, s)
          \/ DeleteGoal(g)
          \/ \E x \in Editors : ReadGoal(x, g)
          \/ \E c \in GiftIds : Contribute(c, g)
    \/ \E x \in Editors, t \in Targets, s \in Statuses : PutGoal(x, t, s)

-----------------------------------------------------------------------------

\* The variables hold values of their types.
GoalsTypeOK ==
    /\ backend \in Backends
    /\ status \in [GoalIds -> {"active", "paused", "completed", "none"}]
    /\ saved \in [GoalIds -> Nat]
    /\ target \in [GoalIds -> Nat]
    /\ gifts \in [Gift -> Nat]
    /\ page \in [Editors -> GoalIds \cup {"none"}]
    /\ read \in [Editors -> Nat]
    /\ opening \in [GoalIds -> Int]
    /\ lost \in [GoalIds -> BOOLEAN]

\* What a goal has is what it was opened with and the contributions listed
\* for it, until an edit overwrites one that its client had not read: the
\* transaction and the lock keep row and sum together, in a goal that is
\* deleted and created again as well.
ContributionsAddUp ==
    \A g \in GoalIds : HasGoal(g) /\ ~lost[g] => saved[g] = opening[g] + Given(g)

\* In PostgreSQL one contribution counts once, for one goal, however often
\* it is sent.
ContributionOnce ==
    backend = "postgres" =>
        \A c \in GiftIds : \A g, h \in GoalIds :
            gifts[<<c, g>>] > 0 /\ gifts[<<c, h>>] > 0 => g = h /\ gifts[<<c, g>>] = 1
=============================================================================
