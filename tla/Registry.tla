------------------------------ MODULE Registry ------------------------------
(***************************************************************************)
(* Who may draw strategy bundles from the registry, and who is billed for  *)
(* them: the rows of registry_clients, registry_subscriptions and          *)
(* client_billing, and the handlers that change them.                      *)
(*                                                                         *)
(* A handler is a coroutine that runs one SQL statement after the other,   *)
(* each committed on its own: no handler opens a transaction.  A step is   *)
(* one statement with the code around it, so that the handlers of the      *)
(* operator, of Stripe and of the clients interleave between statements,   *)
(* and a crash may leave any of them half done.                            *)
(***************************************************************************)
EXTENDS FiniteSets

CONSTANTS
    Clients, Strategies, Plans,
    StrategyOf,   \* plan -> strategy
    Admins,       \* handlers of the operator and of Stripe (bound: how many coexist)
    Downloads,    \* download handlers (bound: how many coexist)
    None,
    Api,          \* the operations that are used
    Crashes       \* may the server die between two statements?

ASSUME RegistryAssumption ==
    /\ StrategyOf \in [Plans -> Strategies]
    /\ Admins \cap Downloads = {}
    /\ None \notin Clients \cup Plans \cup Strategies
    /\ Api \subseteq {"grant", "revoke", "suspend", "resume", "assign", "stripeCancel", "pay", "waive"}
    /\ Crashes \in BOOLEAN

VARIABLES
    client,    \* registry_clients.status; "none": not registered yet
    granted,   \* the strategies a client has a subscription row for
    active,    \* those whose row is active
    billing,   \* client_billing.status of a client's plan; "none": no row
    stage,     \* the statement a handler runs next
    subject,   \* the client it is about
    item,      \* the plan or the strategy it is about
    held,      \* history: a suspend or revoke has taken the client's subscriptions
               \* away, and no handler that gives some back was then, or has been
               \* since, at work on it
    mixed,     \* history: have two handlers of Admins been at work on it at once,
               \* or has a crash cut one off?
    late       \* history: has it been assigned a plan while its status was not
               \* ACTIVE, and no resume has made it ACTIVE since?

access == <<client, granted, active, billing>>
handlers == <<stage, subject, item>>
history == <<held, mixed, late>>
registryVars == <<access, handlers, history>>

Handlers == Admins \cup Downloads
ClientStatuses == {"none", "ACTIVE", "SUSPENDED", "REVOKED"}
Accounts == Clients \X Plans
BillingStatuses == {"none", "ACTIVE", "SUSPENDED", "CANCELLED"}
AdminStages == {"revokeSubs", "revokeBilling", "suspendSubs", "suspendBilling", "resumeSubs",
                "resumeBilling", "assignSub"}
Stages == AdminStages \cup {"free", "checkSub", "deliver"}

RegistryInit ==
    /\ client = [c \in Clients |-> "none"]
    /\ granted = [c \in Clients |-> {}]
    /\ active = [c \in Clients |-> {}]
    /\ billing = [x \in Accounts |-> "none"]
    /\ stage = [h \in Handlers |-> "free"]
    /\ subject = [h \in Handlers |-> None]
    /\ item = [h \in Handlers |-> None]
    /\ held = [c \in Clients |-> FALSE]
    /\ mixed = [c \in Clients |-> FALSE]
    /\ late = [c \in Clients |-> FALSE]

-----------------------------------------------------------------------------
(* Handlers *)

\* A handler for client c, about x, has run its first statement.
Begin(h, c, x, s) ==
    /\ stage[h] = "free"
    /\ stage' = [stage EXCEPT ![h] = s]
    /\ subject' = [subject EXCEPT ![h] = c]
    /\ item' = [item EXCEPT ![h] = x]

Continue(h, s) ==
    /\ stage' = [stage EXCEPT ![h] = s]
    /\ UNCHANGED <<subject, item>>

Return(h) ==
    /\ stage' = [stage EXCEPT ![h] = "free"]
    /\ subject' = [subject EXCEPT ![h] = None]
    /\ item' = [item EXCEPT ![h] = None]

\* A handler that is about to give client c subscriptions back.
Restoring(c) == {a \in Admins : subject[a] = c /\ stage[a] \in {"resumeSubs", "assignSub"}}

Release(c) == held' = [held EXCEPT ![c] = FALSE]
Hold(c) == held' = [held EXCEPT ![c] = Restoring(c) = {}]

\* A handler of Admins at work on client c.
AtWork(c) == \E a \in Admins : subject[a] = c

Mix(c) == mixed' = [mixed EXCEPT ![c] = @ \/ AtWork(c)]

Registered(c) == client[c] # "none"

\* UPDATE client_billing SET status = t WHERE client_id = c AND status IN from
SetBilling(c, from, t) ==
    billing' = [x \in Accounts |-> IF x[1] = c /\ billing[x] \in from THEN t ELSE billing[x]]

\* A subscription row is inserted, or made active again.
Subscribe(c, s) ==
    /\ granted' = [granted EXCEPT ![c] = @ \cup {s}]
    /\ active' = [active EXCEPT ![c] = @ \cup {s}]

\* The server dies; what was committed stays.
Crash ==
    /\ Crashes
    /\ stage' = [h \in Handlers |-> "free"]
    /\ subject' = [h \in Handlers |-> None]
    /\ item' = [h \in Handlers |-> None]
    /\ mixed' = [c \in Clients |-> mixed[c] \/ AtWork(c)]
    /\ UNCHANGED <<access, held, late>>

-----------------------------------------------------------------------------
(* One statement: register, grant, and the end of a Stripe subscription *)

Register(c) ==
    /\ ~Registered(c)
    /\ client' = [client EXCEPT ![c] = "ACTIVE"]
    /\ UNCHANGED <<granted, active, billing, handlers, history>>

\* The status of the client is not looked at.
Grant(c, s) ==
    /\ "grant" \in Api
    /\ Registered(c)
    /\ Subscribe(c, s)
    /\ Release(c)
    /\ UNCHANGED <<client, billing, handlers, mixed, late>>

\* customer.subscription.deleted
StripeCancel(c, p) ==
    /\ "stripeCancel" \in Api
    /\ billing[<<c, p>>] # "none"
    /\ billing' = [billing EXCEPT ![<<c, p>>] = "CANCELLED"]
    /\ UNCHANGED <<client, granted, active, handlers, history>>

-----------------------------------------------------------------------------
(* Three statements: revoke, suspend, resume *)

Revoke(a, c) ==
    /\ "revoke" \in Api
    /\ Registered(c)
    /\ client' = [client EXCEPT ![c] = "REVOKED"]
    /\ Mix(c)
    /\ Begin(a, c, None, "revokeSubs")
    /\ UNCHANGED <<granted, active, billing, held, late>>

RevokeSubs(a) ==
    /\ stage[a] = "revokeSubs"
    /\ active' = [active EXCEPT ![subject[a]] = {}]
    /\ Hold(subject[a])
    /\ Continue(a, "revokeBilling")
    /\ UNCHANGED <<client, granted, billing, mixed, late>>

\* Wrong: the status is the one of the client table.
RevokeBillingRevoked(a) ==
    /\ stage[a] = "revokeBilling"
    /\ SetBilling(subject[a], BillingStatuses \ {"none"}, "REVOKED")
    /\ Return(a)
    /\ UNCHANGED <<client, granted, active, history>>

\* Wrong: a plan that is suspended is not cancelled.
RevokeBillingActive(a) ==
    /\ stage[a] = "revokeBilling"
    /\ SetBilling(subject[a], {"ACTIVE"}, "CANCELLED")
    /\ Return(a)
    /\ UNCHANGED <<client, granted, active, history>>

RevokeBilling(a) ==
    /\ stage[a] = "revokeBilling"
    /\ SetBilling(subject[a], BillingStatuses \ {"none"}, "CANCELLED")
    /\ Return(a)
    /\ UNCHANGED <<client, granted, active, history>>

\* Also what the webhook does when Stripe gives up on a payment.
Suspend(a, c) ==
    /\ "suspend" \in Api
    /\ Registered(c)
    /\ client' = [client EXCEPT ![c] = "SUSPENDED"]
    /\ Mix(c)
    /\ Begin(a, c, None, "suspendSubs")
    /\ UNCHANGED <<granted, active, billing, held, late>>

\* Wrong: only the strategies of plans that are being billed are taken away.
SuspendSubsOfPlans(a) ==
    /\ stage[a] = "suspendSubs"
    /\ LET c == subject[a] IN
       active' = [active EXCEPT ![c] = @ \ {StrategyOf[p] : p \in {q \in Plans : billing[<<c, q>>] = "ACTIVE"}}]
    /\ Hold(subject[a])
    /\ Continue(a, "suspendBilling")
    /\ UNCHANGED <<client, granted, billing, mixed, late>>

SuspendSubs(a) ==
    /\ stage[a] = "suspendSubs"
    /\ active' = [active EXCEPT ![subject[a]] = {}]
    /\ Hold(subject[a])
    /\ Continue(a, "suspendBilling")
    /\ UNCHANGED <<client, granted, billing, mixed, late>>

SuspendBilling(a) ==
    /\ stage[a] = "suspendBilling"
    /\ SetBilling(subject[a], {"ACTIVE"}, "SUSPENDED")
    /\ Return(a)
    /\ UNCHANGED <<client, granted, active, history>>

Resume(a, c) ==
    /\ "resume" \in Api
    /\ Registered(c)
    /\ client' = [client EXCEPT ![c] = IF @ = "SUSPENDED" THEN "ACTIVE" ELSE @]
    /\ late' = [late EXCEPT ![c] = @ /\ client[c] # "SUSPENDED"]
    /\ Release(c)
    /\ Mix(c)
    /\ Begin(a, c, None, "resumeSubs")
    /\ UNCHANGED <<granted, active, billing>>

\* Every subscription the client ever had, whatever ended it.
ResumeSubs(a) ==
    /\ stage[a] = "resumeSubs"
    /\ active' = [active EXCEPT ![subject[a]] = granted[subject[a]]]
    /\ Continue(a, "resumeBilling")
    /\ UNCHANGED <<client, granted, billing, history>>

\* Wrong: the status the billing row has is not asked for.
ResumeBillingAll(a) ==
    /\ stage[a] = "resumeBilling"
    /\ SetBilling(subject[a], BillingStatuses \ {"none"}, "ACTIVE")
    /\ Return(a)
    /\ UNCHANGED <<client, granted, active, history>>

ResumeBilling(a) ==
    /\ stage[a] = "resumeBilling"
    /\ SetBilling(subject[a], {"SUSPENDED"}, "ACTIVE")
    /\ Return(a)
    /\ UNCHANGED <<client, granted, active, history>>

-----------------------------------------------------------------------------
(* Two statements: assign a plan, which also grants its strategy *)

\* The status of the client is not looked at.
Assign(a, c, p) ==
    /\ "assign" \in Api
    /\ Registered(c)
    /\ billing' = [billing EXCEPT ![<<c, p>>] = "ACTIVE"]
    /\ late' = [late EXCEPT ![c] = @ \/ client[c] # "ACTIVE"]
    /\ Release(c)
    /\ Mix(c)
    /\ Begin(a, c, p, "assignSub")
    /\ UNCHANGED <<client, granted, active>>

AssignSub(a) ==
    /\ stage[a] = "assignSub"
    /\ Subscribe(subject[a], StrategyOf[item[a]])
    /\ Return(a)
    /\ UNCHANGED <<client, billing, history>>

-----------------------------------------------------------------------------
(* A client downloads a bundle *)

\* require_client: only an active client's key is accepted.
Download(d, c, s) ==
    /\ client[c] = "ACTIVE"
    /\ Begin(d, c, s, "checkSub")
    /\ UNCHANGED <<access, history>>

CheckSub(d) ==
    /\ stage[d] = "checkSub"
    /\ IF item[d] \in active[subject[d]] THEN Continue(d, "deliver") ELSE Return(d)
    /\ UNCHANGED <<access, history>>

Deliver(d) ==
    /\ stage[d] = "deliver"
    /\ Return(d)
    /\ UNCHANGED <<access, history>>

-----------------------------------------------------------------------------

AdminStep(a) ==
    \/ RevokeSubs(a) \/ RevokeBilling(a)
    \/ SuspendSubs(a) \/ SuspendBilling(a)
    \/ ResumeSubs(a) \/ ResumeBilling(a)
    \/ AssignSub(a)
Order(a) == \E c \in Clients : Revoke(a, c) \/ Suspend(a, c) \/ Resume(a, c)
AtOnce ==
    \E c \in Clients :
        \/ Register(c)
        \/ \E s \in Strategies : Grant(c, s)
        \/ \E p \in Plans : StripeCancel(c, p)
DownloadStep(d) ==
    \/ \E c \in Clients, s \in Strategies : Download(d, c, s)
    \/ CheckSub(d) \/ Deliver(d)

\* Billing extends Assign and Crash.
RegistryStep ==
    \/ AtOnce
    \/ \E a \in Admins : Order(a) \/ AdminStep(a)
    \/ \E d \in Downloads : DownloadStep(d)

RegistryNext ==
    \/ RegistryStep
    \/ \E a \in Admins, c \in Clients, p \in Plans : Assign(a, c, p)
    \/ Crash

RegistrySpec == RegistryInit /\ [][RegistryNext]_registryVars

-----------------------------------------------------------------------------
(* Properties *)

RegistryTypeOK ==
    /\ client \in [Clients -> ClientStatuses]
    /\ granted \in [Clients -> SUBSET Strategies]
    /\ active \in [Clients -> SUBSET Strategies]
    /\ billing \in [Accounts -> BillingStatuses]
    /\ stage \in [Handlers -> Stages]
    /\ subject \in [Handlers -> Clients \cup {None}]
    /\ item \in [Handlers -> Plans \cup Strategies \cup {None}]
    /\ held \in [Clients -> BOOLEAN]
    /\ mixed \in [Clients -> BOOLEAN]
    /\ late \in [Clients -> BOOLEAN]

\* Once a suspend or revoke has taken the subscriptions of a client away, no
\* download, however early it began, passes the subscription check until
\* somebody resumes, grants or assigns, whichever handlers overlap and crash.
SuspendStopsDelivery ==
    [][\A d \in Downloads :
          stage[d] = "checkSub" /\ stage'[d] = "deliver" => ~held[subject[d]]]_registryVars

\* A cancelled plan is billed again only when it is assigned again: suspends
\* and resumes that overlap the cancellation never revive it.
CancelledUntilAssigned ==
    [][\A x \in Accounts :
          billing[x] = "CANCELLED" /\ billing'[x] # "CANCELLED" =>
              \E a \in Admins :
                  /\ stage[a] = "free" /\ stage'[a] = "assignSub"
                  /\ subject'[a] = x[1] /\ item'[a] = x[2]]_registryVars

\* Both checks of a download: the status of the client, by require_client,
\* and its subscription to the strategy of the plan.
Delivered(c, p) == client[c] = "ACTIVE" /\ StrategyOf[p] \in active[c]

\* Client c is billed for plan p, and the handlers of the operator and of
\* Stripe for it have followed one another to their ends.
BilledAtRest(c, p) == billing[<<c, p>>] = "ACTIVE" /\ ~mixed[c] /\ ~AtWork(c)

\* A client that is billed for a plan may download its strategy, whatever
\* suspends, resumes, revokes, grants, assignments and cancellations there
\* were, as long as the handlers for it followed one another to their ends (a
\* suspend and a resume that overlap, or a crash within either, can leave it
\* billed for nothing) and no plan was assigned to it while it was suspended
\* or revoked.
PaidForIsDelivered ==
    \A c \in Clients, p \in Plans : BilledAtRest(c, p) /\ ~late[c] => Delivered(c, p)

\* What the docstring of assign_plan promises without that exception: to
\* assign a plan also grants access to its strategy.  It does not make a
\* suspended or revoked client ACTIVE, so that the client is billed and refused.
AssignedIsDelivered ==
    \A c \in Clients, p \in Plans : BilledAtRest(c, p) => Delivered(c, p)
=============================================================================
