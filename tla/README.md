# Verification of Astartes Primaris

TLA+ specifications of the control plane of Astartes Primaris, the TLC
configurations that check them on small instances, and theorems about them that
TLAPS proves for every instance. Paths are relative to the repository;
`primarch` stands for `services/primarch`, `server.py` without a directory for
`services/registry/registry/server.py`.

1. [Inventory](#1-inventory)
2. [Plan](#2-plan)
3. [Modules and how they correspond to the code](#3-modules)
4. [Runs](#4-runs)
5. [Proofs](#5-proofs)
6. [What the code does otherwise than it says](#6-what-the-code-does-otherwise-than-it-says)
7. [What is not modelled](#7-what-is-not-modelled)

To use it: `tlc -config LifecycleOne.cfg MCLifecycle.tla` (the module of a run is
in section 4), `tlapm LifecycleProofs.tla`.

## 1. Inventory

Strategies ("marines") belong to companies, companies to fortresses. *Primarch*
(Go) keeps the rows of all three, wakes marines on a schedule, runs them, and
takes reports from external trading *engines*. The *registry* (Python) sells
strategy bundles to clients and bills them. *Auspex* (Python) batches market data
into PostgreSQL, *Aurum* (JavaScript) is the dashboard. The other service
directories (apothecary, codex, forge, iron-halo, logis, tacticarium, vox) hold a
README and no code. There are no tests.

| component | state | operations | talks to | what is hard | what makes it correct |
|---|---|---|---|---|---|
| Scheduler `primarch/internal/scheduler/scheduler.go` | `cancels` (marine -> cancel function), `running`, goroutines | Start, Stop, ScheduleMarine, UnscheduleMarine, WakeNow, runLoop, executeCycle | store, runner, event hub | several goroutines per marine; rows read before a lock; cancelled contexts still race ticks | one live loop per marine, reachable by its cancel function; cancelled loops drain; halted marines stay halted |
| Runner `primarch/internal/runner/runner.go` | none of its own | Run: process, container or HTTP call with a timeout | the strategy | a run may hang, be killed or fail | every run ends; failure is reported |
| Marine API and kill switch `primarch/internal/api/server.go` | none of its own | create, update, delete, wake, sleep, enable, disable, kill | store, scheduler | each handler is several store and scheduler calls; handlers overlap | a kill stops everything in scope and nothing else |
| Process `primarch/cmd/primarch/main.go` | phase of the process | boot, serve, signal, exit | scheduler, store | crash and restart; Shutdown lets main return early | a restart does not revive what was halted |
| Store `primarch/internal/store/store.go`, `pgstore.go` | rows of all entities, in memory under one RWMutex or in PostgreSQL | CRUD, kill switch, command queue | PostgreSQL | the two implementations differ; multi-statement operations without a transaction | each operation keeps references and totals consistent |
| Engine protocol `primarch/internal/api/engine.go` | marine rows, command rows | register, heartbeat, completion | engines, store | lost answers, stale reports, overlapping heartbeats, read-modify-write of rows | every command is delivered and settled; a halt is not lifted by an old report |
| Council `primarch/internal/store/council.go`, `primarch/internal/api/council.go` | accounts, payouts, budget, goals, billing, roadmap | CRUD, RecordPayout, contributions | store | totals kept beside the rows they sum up; whole-row replacement | totals equal the sum of their rows |
| Ingest, wheel, holdings, CFO `primarch/internal/api/{ingest,wheel,wheel_cycles,holdings,cfo}.go`, `primarch/internal/cfo` | rows keyed by id; none for CFO | upserts, read-only reports | engines, external HTTP services | repeated and reordered ingests | upserts are idempotent |
| Sessions `primarch/internal/api/auth.go` | map token -> expiry | login, logout, middleware, cleanup | every handler | expiry against requests | an expired or logged-out session is refused |
| Event hub `primarch/internal/api/websocket.go` | set of client channels | register, unregister, Broadcast | scheduler, handlers, the middleware of server.go | what the handler needs of the writer it is handed; full channels | a client that asks for the stream gets it |
| Registry: clients and subscriptions `server.py` | rows of clients, subscriptions, billing; bundle files | register, grant, revoke, suspend, resume, assign, Stripe webhook, download, publish | PostgreSQL, Stripe, client agents | each handler is several autocommitted statements; Stripe and the operator overlap; crashes in between | suspended clients get nothing; paying clients get what they pay for |
| Registry: billing `server.py` | reports of equity, high-water marks, invoices | report, sync, close-period, mark-paid, waive | as above | reports between the statements of a closing; repeated closings | no gain is charged twice |
| Registry encryption `services/registry/registry/encryption.py` | none | key wrapping | registry | -- | (pure functions) |
| Auspex `services/auspex/auspex` | buffers of bars, ticks and option chains (writer.py) | add_bar, add_tick, add_option_chain, _flush, stop | PostgreSQL, brokers | a flush that fails or is cancelled after part of it was committed | no row lost or repeated silently |
| Aurum `services/aurum` | browser state | polling, buttons | primarch API | -- | (presentation) |
| Librarium schema, ecosystem tooling, infrastructure, protobuf | none at run time | -- | -- | -- | -- |

Scheduler, API, process and store share memory: a kill is rows (store) and
contexts (scheduler) changed by one handler while loops read the rows. Engines
and primarch exchange requests and answers that may be lost; a kill is a command
row that waits for the engine's next heartbeat. Registry handlers meet only in
the database.

The list of what is hard to test, line by line, is under "hazards" in
PROJECT.json, each entry with the properties that cover it.

## 2. Plan

| module | models | state |
|---|---|---|
| Lifecycle, WakeTimers | scheduler, runner, process, marine handlers; the abstract timers they implement | done, proved |
| EngineProtocol | registration, heartbeats, commands, kill switch towards engines | done, safety proved |
| Registry | clients, subscriptions, assignments, Stripe events, downloads | done, proved |
| Billing (composed with Registry) | reports, marks, closing, payment | done, proved for one closing at a time |
| Pool | the connections that nested queries of the PostgreSQL store hold | done, safety proved |
| Hierarchy | fortress, company and marine rows in both stores, registration of a path, the scope and the owners of a kill | done, proved |
| Council of Payouts, Goals, Plans (over Stores) | accounts and payouts, goals and contributions, roadmap and allocations, in both stores | done, proved |
| Hub | the stream of events behind the middleware | done; what it would take to check more is that the program serves a stream (section 6) |
| Schedule | intervals, ticks, trading hours and the status of the row of one loop | done, safety proved |
| Bundles | publish and download of bundle files against their hash rows | open |
| BatchWriter | the buffers of Auspex's writer, the flush with its three committed statements and its putting back, stop; abstract specification: a log that has each row once | open |
| Figures | the pure computations: payouts needed, withdrawal advice, business metrics, billing summary, performance | open |

Every safety property of a passing run is stated by a theorem (section 5). The
liveness properties stay with TLC.

## 3. Modules

A handler or goroutine is a coroutine: a variable (`at`, `stage`, `closing`)
holds the call it makes next, and a step is that call together with the
straight-line code up to the next one. What a handler has read and still uses is
kept in variables of its own (`copy`, `marks`, `listed`), so that it can be
stale. Handlers are members of constant sets; the size of the set bounds how many
coexist and not how many there are in a behaviour. A slot that is over returns
to its initial values.

Some definitions whose comment begins "Wrong:" are mutations of the definition
below them; nothing in the specifications uses them. PROJECT.json says which
property each of them breaks.

### Lifecycle

| TLA+ | code |
|---|---|
| `status`, `enabled`, `kind`, `lastCycle` | the marine rows and the newest row of marine_cycles |
| `cancels` | `Scheduler.cancels`; the cancel function is the loop it cancels |
| `Loops`, `at`, `owner`, `done` | goroutines of `runLoop` and of `WakeNow`, their position, marine and `ctx.Done()` |
| `Fetch`, `Wake`, `RunEnds`, `Settle`, `Record` | `executeCycle` from reading the row to AddCycle |
| `Tick`, `LoopExit` | the two branches of the select in `runLoop` |
| `Arm`, `Unschedule` | the locked sections of ScheduleMarine and UnscheduleMarine |
| `BootSchedule`, `BootDone`, `Stop`, `Restart` | `Start`, `Stop`, and the process ending by signal or crash |
| `Create` ... `Kill`, `KillList`, `KillUnschedule` | the handlers of server.go, call by call |
| `Register`, `RegisterWrite`, `Beat`, `BeatWrite` | what handleEngineRegister and handleEngineHeartbeat do to a marine's row: create it or else replace it; read it, and write that copy back with the status the engine reports |
| `copy`, `copyOn` | the status and the Schedule.Enabled a handler has read and will write back |
| `halted` | history: was the marine killed or disabled since it was last configured, by an operator or by its engine, and what was under way then: nothing ("sure"), a cycle ("off"), or a heartbeat that had read the row with Enabled on ("unsure") |

Marines of an engine and of the scheduler have their rows in one table, and no
handler of the code asks which of them a marine is: a report or a registration
may concern a marine that the scheduler wakes. So a halt holds only as far as
these writers let it, which is what "sure" and "off" say. The answers and
commands of engines are EngineProtocol's.

A wake request runs its cycle under the context of the request, which net/http
cancels when the handler returns: `ReturnWake` cancels it. Trading hours, ticks
and results of a run are choices. `kind = "invalid"` is a schedule that
`resolveInterval` refuses. A marine row has more statuses in the code (deployed,
in_combat and so on); clients can write them, and every branch treats them like
"dormant", which stands for all of them. With `Persistent` the rows survive a
restart (PGStore), otherwise they do not (Store; the seed of main.go holds a
fortress and two companies and no marine).

### WakeTimers

What the scheduler promises, without goroutines: a marine has at most one armed
timer, arming replaces it, disarming drains it, drained timers are gone in the
end. Lifecycle implements it under the mapping armed <- cancels,
draining <- the marine of a loop whose context is cancelled.

### EngineProtocol

| TLA+ | code |
|---|---|
| `status`, `enabled` | marine rows (the two fields the protocol changes) |
| `cmd`, `addressee`, `scopeOf` | rows of engine_commands |
| `Kill`, `KillQueue` | handleKillSwitch with engineIDsForScope and QueueCommand |
| `Enable`/`EnableWrite`, `Disable`/`DisableWrite` | read and write of handleEnable-, handleDisableMarine |
| `EngineStart`, `RegisterMarine` | handleEngineRegister, row by row |
| `Beat`, `BeatRead`, `BeatWrite`, `BeatList`, `BeatAck`, `Deliver` | handleEngineHeartbeat: read and write each reported marine, list the pending commands, mark them one by one, answer |
| `Answer`, `Complete` | handleCommandComplete |
| `Lose`, `LoseAnswer`, `Crash` | a lost answer, a lost report, the end of primarch |

The engines are not in the repository; `EngineStart`, `Beat`, `Answer` and
`LoseAnswer` let them do whatever the handlers' interface provides for. Engine
commands other than the kill switch are accepted by the types of the code and
queued by none of it. The part of a kill that concerns the scheduler of primarch
is in Lifecycle.

### Registry

| TLA+ | code |
|---|---|
| `client` | registry_clients.status |
| `granted`, `active` | registry_subscriptions: a row exists, and is active |
| `billing` | client_billing.status per client and plan |
| `Register`, `Grant`, `StripeCancel` | register_client, grant_strategy, customer.subscription.deleted: one statement each |
| `Revoke`, `RevokeSubs`, `RevokeBilling` (and Suspend..., Resume...) | the three statements of revoke_client, suspend_client, resume_client; the webhook calls suspend_client too |
| `Assign`, `AssignSub` | assign_plan |
| `Download`, `CheckSub`, `Deliver` | require_client, the subscription query, the answer of download_latest |
| `Crash` | the server dies; committed statements stay |
| `held`, `mixed`, `late` | history, used by properties only: have subscriptions been taken away for good; have two handlers for the client overlapped; was the client assigned a plan while its status was not ACTIVE |

Each statement commits on its own: no handler opens a transaction. PaidForIsDelivered
is about all three rows that decide a download: a client that is billed and that
no handler is at work on is ACTIVE and subscribed, when its handlers followed one
another, but for the plans assigned to it `late`. That exception is what
AssignedIsDelivered drops (section 6).

### Billing

Extends Registry with reports of equity per day (`equity`), the mark (`hwm`), the
invoices (`invoice`, `fee`, `top`) and the handlers that work on them. `Post`,
`StoreReport`, `RaiseMarks`, `Posted` are report_daily_pnl and sync; `CloseList`,
`ClosePeak`, `CloseWrite`, `CloseRaise`, `Closed` are close_billing_period,
statement by statement; `MarkPaid` and `Waive` the two payment handlers.
`RegistryOnly`, `AssignPlan` and `Die` compose it with Registry: AssignPlan
conjoins the ledger's part of the assignment (the starting equity) with
`Assign`, Die takes the handlers of both down.

Equity is a whole number, a plan takes 100 percent of the gain, and the flat fee
is left out: it depends on nothing in the model. `start`, `since`, `settled` and
`torn` are history. Stripe's invoice.paid has no action: its statement is an
UPDATE with ORDER BY and LIMIT, which PostgreSQL rejects, so it changes nothing.

### Pool

| TLA+ | code |
|---|---|
| `conns` | `SetMaxOpenConns(20)` of NewPGStore; the model takes every size |
| `held`, `frame`, `rest` | the open `*sql.Rows` of a request, the query of each, the rows it has still to read |
| `Calls` | the sequences of queries of each handler, one after the other; that of the withdrawal advice asks for the goals once for each account |
| `Call`, `Nest` | a query of the handler, a query made while the rows of another are open (ListFortresses, companiesForFortress, ListGoals) |
| `Open`, `Close` | database/sql lends a connection, and takes it back when the rows are read |

No query of pgstore.go has a context, so that a wait for a connection has no end
of its own.

### Hierarchy

| TLA+ | code |
|---|---|
| `engine`, `parent`, `home`, `off` | Metadata["engine_id"], FortressID, CompanyID, and the marines whose Schedule.Enabled is off; their status is Lifecycle's |
| `Create...`, `Update...`, `Delete...` | the handlers of fortresses, companies and marines, one store call each |
| `CompanyFits`, `MarineFits`, `DeleteFortressRow`, `DeleteCompanyRow` | what the in-memory store checks by hand and PostgreSQL by foreign keys, which is not the same for updates |
| `Register`, `UpsertFortress` ... `UpsertMarineUpdate` | handleEngineRegister: create, else update, whose error is dropped |
| `KillInMemory`; `KillFortressRows`, `KillCompanyRows`, `KillMarineRow` | Store.ActivateKillSwitch under one lock; the statements of PGStore.ActivateKillSwitch |
| `KillFind`, `KillParent`, `KillOwner` | engineIDsForScope, read by read |
| `due`, `owners`, `alone` | history: what a kill owes its caller as long as nobody interferes, and whether a registration was left alone |

`UpdateMarine` is a PUT, and the write-back of a copy of a row by an enable, a
disable or a heartbeat as well: it takes any company and either switch, which
includes what a stale copy says. The writes of a status alone (cycles, sleep) touch neither, and
are in Lifecycle.

An engine registers a path (one fortress, company and marine) at a time; the
handler runs through several in the same way. One id may name a row of each kind.
Lifecycle has the part of a kill that concerns the scheduler, EngineProtocol the
part after its commands are queued.

### Stores, Payouts, Goals, Plans, Council

Stores is the choice between the two implementations of DataStore. The other
three are parts of the council over it, and Council composes them; the parts
share no row, so `Apis` lets a behaviour use one of them at a time.

| TLA+ | code |
|---|---|
| `open`, `split`, `total` | accounts, ProfitSplit, TotalPayouts |
| `RecordInMemory`; `ReadSplit`, `Insert`, `Count`, `CountFails` | Store.RecordPayout; the statements of PGStore.RecordPayout |
| `Deposit`, `DepositFails` | RecordPayoutTransaction towards Firefly III after the store |
| `UpdateAccount`, `Snapshot` | whole rows from a client or an engine, the totals included |
| `saved`, `gifts`, `Contribute` | CurrentAmount, contribution rows, ContributeToGoal |
| `ReadGoal`, `PutGoal` | a client reads a goal and sends it back |
| `current`, `active`, `done` | CurrentPhase, Active of the phases, Completed of the milestones |
| `ReadRoadmap` ... `WriteRoadmap` | handleAdvancePhase and handleUpdateMilestone: in memory on slices shared with the store, in PostgreSQL on a copy |
| `table`, `BeginAllocate`, `DeleteLists`, `InsertList`, `CommitList` | SetAllocations and its transaction at READ COMMITTED |

Amounts of a payout are in tenths; a contribution is of one unit. `table = {}`
stands for DefaultAllocations, which the in-memory store is seeded with and which
PGStore.GetAllocations returns for an empty table.

### Hub

`Handler` is what Server.Handler makes of the writer net/http gives it: a
`StatusWriter`, which has the methods of the interface it embeds and no others.
`Connect` is HandleWebSocket up to its first event, with the check for a Flusher
and its 500; `Receive`, `Disconnect` and `Broadcast` are what follows when the
check succeeds. In the program it never does (section 6), so that nothing is
stated about the rest.

### Schedule

`Interval` is resolveInterval, `InHours` and `Active` are withinTradingHours,
`StartLoop`, `TakeTick`, `EndCycle` are runLoop, and `Pass` lets a minute go by:
a ticker keeps its beat and drops a tick when one waits. A loop whose interval is
not positive panics in time.NewTicker and takes the process down, as in the code.
`status` is whether the row says disabled: clients and engines write it with the
row (`Put`, `Create`), cycles and Sleep write it alone (`EndCycle`,
`OtherCycleEnds`, `Sleep`: `Revive`), `BeginCycle` returns on it as executeCycle
does, and `Boot` skips the marine as Start does. An opening hour may be negative,
which Sscanf accepts; `Opening` is the first minute it leaves. The row survives a
restart. How handlers overlap is Lifecycle's, but for an enable between the two
calls of a delete, which leaves a loop without a row (`Delete`).

### MC modules, proof modules

The modules MC* give constants that a configuration cannot write down
(functions, symmetry sets). LifecycleProofs, EngineProofs,
RegistryProofs (about Registry and Billing), PoolProofs, HierarchyProofs,
CouncilProofs and ScheduleProofs hold theorems, the lemmas they rest
on and the inductive invariants.

## 4. Runs

| run (module) | properties | what it shows |
|---|---|---|
| LifecycleOne (MCLifecycle) | TypeOK, OneTimerPerMarine, SureHaltHolds, BootRespectsHalt, WakingOnlyWhileBusy | one marine, two loops, two handlers, all operations of operators and of its engine, rows that survive crashes |
| LifecycleFair (MCLifecycle) | CyclesEnd, UnscheduledDrains, ImplementsTimers | liveness, and the refinement of WakeTimers; also schedules that do not resolve and the in-memory store |
| EngineOne (MCEngineProtocol) | TypeOK, DeliveredIsAcked, EnginesHearTheirOwn, CleanHaltStaysOff | two engines, one of them with a marine; two kills, two handlers of any kind, losses, engine restarts, a crash |
| EngineFair (MCEngineProtocol) | CommandsSettle, KillConverges | every kill is delivered, settled and reflected in the rows in the end |
| RegistryThree (MCRegistry) | RegistryTypeOK, SuspendStopsDelivery, CancelledUntilAssigned, PaidForIsDelivered | three overlapping handlers, a download, crashes |
| BillingTwo (MCBilling) | GainsChargedOnce | two periods, reports, payments, waivers, repeated closings, cancellations, crashes |
| PoolSmall (MCPool) | PoolTypeOK, NeverStuckWhenSized, RequestsAnswered | two requests of every kind of handler on pools of one to five connections |
| HierarchyOne (MCHierarchy) | HierarchyTypeOK, KillCoversScope, OwnersAreTold, RegistrationLands, OnlyUpdatesStrand | a kill or a registration among clients that create, replace, move and delete, in both stores; one id names a row of each kind |
| CouncilParts (MCCouncil) | CouncilTypeOK, PayoutsAddUp, BookedOnce, ContributionsAddUp, ContributionOnce, RoadmapCoherent, MilestonesKept, AllocationsHold | two handlers at once in each part, retries, failures between statements, snapshots, stale edits, both stores |
| ScheduleWeek (MCSchedule) | HoursAreServed, CrashLoops | two days of four minutes, intervals of none to three minutes, cycles of up to two, hours that begin and end at every kind of edge, rows that are disabled, replaced and deleted, panics and restarts |

LifecycleKillInFlight (NoCycleAfterKill) and HubRefuses (StreamServed) end in
counterexamples; see section 6.

**Bounds.** Two loops per marine is the least at which one replaces another;
a third adds a second cancelled loop, which differs from the first in nothing a
property sees. LifecycleOne counts states that differ in `lastCycle` alone as one
(`VIEW`): it is written and never read, and in the type invariant only. Two handlers of primarch and three of the registry give every
pair of overlapping operations; for more of them, and for more marines, clients
and plans, the safety properties are proved. Two engines, the second without a
marine, are the least at which a command can reach the wrong one. Two commands:
one settled and one in flight. `MaxCrashes` is 1: a crash resets every handler,
so that a second one meets only states a first has produced. Billing has
MaxEquity 1 and the periods of days 1 and 3: a mark below and at the peak, a
period before and after the one of the gain, and reports of an earlier day that
come late. Starts is {0}: a plan assigned with a higher equity behaves like one
whose first report raised it. Five connections are one more than twice two
requests need, three is what one request needs alone. In HierarchyOne one handler
of several calls is enough to put every other handler between its calls, since
those of clients are one call each; the theorems are for any number. Two
payouts, two recorders and two retries of the in-memory store (`MaxBooked`) let
two bookings of one account, and of one id, overlap. One editor of goals already holds a stale copy while contributions come,
and a second one only overwrites what the first did; `MaxGifts` 1 leaves out
contributions repeated in memory. Two editors and `MaxGifts` 2 on one goal also
pass, and GoalsAddUp is for any number. Two phases and two writers,
and lists that share a category with one another or do not, do the same for
plans. HubRefuses needs one client and no event. Schedule: a day of four minutes has an opening, a middle
and a last minute with intervals below, at and above the length of the hours; the
code compares minutes of the day and does nothing else with them. Symmetry is
used for marines, loops, handlers and commands, and never in a run with a
liveness property.

**Fairness.** Lifecycle: weak fairness for goroutines and handlers, since the Go
runtime keeps scheduling them and every run has a deadline
(`exec.CommandContext`, `http.Client` with the context; a child of the strategy
that keeps its output pipe open past its parent's death is outside the model);
strong fairness for `LoopExit`, since a select whose two branches are ready again
and again picks one at random and so takes the cancelled one in the end. Requests,
ticks, Stop and crashes need not happen. EngineProtocol: weak fairness for
handlers; strong fairness for the beats of an engine, because a slot of
`Requests` is always found again (the bound is the model's, a server has none),
and for delivery and answers, because not every message is lost. The code beats
and answers on the engine's side, outside the repository: that engines keep
beating is the assumption of the two properties. Registry, Billing,
Hierarchy and Council state no liveness: nothing in their code retries. Pool:
weak fairness for handlers that are running, strong fairness for a request that
waits for a connection, because database/sql serves its waiting requests in
turn; that requests arrive is not assumed. Schedule:
weak fairness for the loop and the passing of time, and for the start of a
process that has ended, which is the restart policy of its container.

**Deadlock** is checked in every run but PoolSmall, which has pools that are too
small and in which the requests really wait for each other for ever (the property
says from which size on they do not).

## 5. Proofs

TLAPS checks every theorem below for all values of the constants (sets of marines,
loops, handlers, engines, commands, clients, plans, rows, connections; sizes of
pools) that satisfy the named assumptions of the module
(`LifecycleAssumption`, `ProtocolAssumption` and so on), which say only that the
identifiers of different kinds are different and that the parameters have their
types. TLC evaluates them in every run.

| theorem | states | argument |
|---|---|---|
| TypeCorrect, OneTimer (LifecycleProofs) | TypeOK, OneTimerPerMarine | `Inv` = TypeOK, Shape and OneTimerPerMarine together. Shape (idle slots are clean, slots at work have a marine) is not inductive alone: an idle slot stays uncancelled only because no entry of `cancels` points at it |
| SureHalt (LifecycleProofs) | SureHaltHolds | from Inv: writing disabled with no cycle in flight leaves no goroutine behind that could write another status, Fetch turns back on disabled, and the writers that remain (an operator, a registration, a report) end what was sure |
| BootHalt (LifecycleProofs) | BootRespectsHalt | `BootInv`: a halted row has Enabled off, no heartbeat holds a copy of it with Enabled on, during boot no handler runs, and boot only holds enabled marines |
| ImplementsTimersSafety (LifecycleProofs) | Lifecycle's Spec implies the safety of WakeTimers | Inv; one lemma per kind of step maps it to Arm, Disarm, Gone, Reset or a stutter. That drained timers are gone in the end is liveness, in LifecycleFair |
| WakingIsBusy (LifecycleProofs) | WakingOnlyWhileBusy, if no client writes the status waking itself | from Inv, step by step: no step but Fetch's and Settle's takes a goroutine out of the runner or marks a marine (`Quiet`), Wake goes on into the runner, Settle has written the outcome |
| ProtocolTypes, DeliveredAcked (EngineProofs) | TypeOK, DeliveredIsAcked | `Handed`: what a heartbeat has listed and will not mark any more is marked already, and marks never go back to pending |
| HearTheirOwn (EngineProofs) | EnginesHearTheirOwn | `Homes`: a command's addressee is among the engines of its scope, in the row, in the heartbeat's list and in the inbox |
| CleanHalt (EngineProofs) | CleanHaltStaysOff | `Copies`: no heartbeat holds a copy with Enabled on of a marine that was halted for sure |
| RegistryTypes (RegistryProofs) | RegistryTypeOK | `Shape`: a handler's stage says what its subject and item are |
| SuspendStops (RegistryProofs) | SuspendStopsDelivery | `HeldInv`: a held client has no active subscription and no handler about to make one active |
| CancelledRevival (RegistryProofs) | CancelledUntilAssigned | types, and one look at each statement that writes client_billing |
| PaidSerial (RegistryProofs) | PaidForIsDelivered | `Paid`: unless handlers for the client were mixed, one at most is at work on it, and a plan with a billing row has a subscription row, active where it is billed, but for what that handler has yet to do. `Welcome`: unless a plan was assigned late, a client that is not ACTIVE is billed only as long as the suspend or revoke at work has not come to its billing rows, and a revoked one has no suspended billing row that a resume would make active |
| BillingKeepsRegistry (RegistryProofs) | Billing's Spec implies RegistrySpec, so that the theorems above hold of the composition | each step of the composition is one of Registry or leaves its variables alone |
| BillingTypes (RegistryProofs) | BillingTypeOK | with `LedgerTypes`, the fields that fit the statement a closing is at |
| ChargedOnceSerial (RegistryProofs) | GainsChargedOnce, for `Closers` with one member at most | `FairInv`: per plan that is not torn, the charged stretches of equity are apart and the pending ones unpaid (`Apart`), and all that was charged is at or below the mark the next invoice starts from: the plan's own, the one a closing has listed, or the peak it is about to write (`Covered`). The property alone says nothing of the mark, so that the next closing could break it |
| TypeCorrect (PoolProofs) | PoolTypeOK | the number of connections in use is a cardinality, and each step adds or removes one member of the set; Nesting bounds the depth of a request by the depth of its query |
| SizedPoolNeverStuck (PoolProofs) | NeverStuckWhenSized | a request that waits owns at most two connections, since the third level makes no query; an empty pool of more than two for each would need one that owns three |
| OnlyUpdates (HierarchyProofs) | OnlyUpdatesStrand | `RowStep`: every step writes a row under a parent that is there, updates one in memory (a PUT, a registration's own update or a write-back), deletes one without children, or leaves the tree alone; each kind is looked at once |
| KillCovers (HierarchyProofs) | KillCoversScope | `Claim`: what a kill owes is in its scope as it is now, and a PostgreSQL kill that has passed a kind owes nothing when a row of that kind is there, because rows are `Rooted` and a new fortress or company has nothing below it |
| OwnersTold (HierarchyProofs) | OwnersAreTold | `Finding`: owners of a fortress have been found after the first read, those of a company own the fortress the second read has found |
| Lands (HierarchyProofs) | RegistrationLands | `Path`: what has been written so far is in place, and an update is made to a row that is there, as long as no other handler touched the path |
| HierarchyTypes (HierarchyProofs) | HierarchyTypeOK | `Placed`: only marines of the model are off, and a handler that does not register has a scope as its job |
| CouncilTypes (CouncilProofs) | CouncilTypeOK | the types of payouts, goals and plans, each with the invariant of its own part that needs them |
| PayoutBookedOnce (CouncilProofs) | BookedOnce | `PayoutInv`: a recorder that has inserted and not counted is the only one for its id, because the key refused the others; what is to be deposited is in the table |
| ContributedOnce (CouncilProofs) | ContributionOnce | the primary key as part of the transaction: an id has no row when one is added |
| TotalsAddUp (CouncilProofs) | PayoutsAddUp | `TotalInv`: the equation holds of deleted accounts too, which a payout can still be counted for, and few handlers wait at a time, so that adding or removing one changes the sum by its amount |
| GoalsAddUp (CouncilProofs) | ContributionsAddUp | `GoalInv`: with it, that the rows listed for a goal are finite in number; the number contributed is their cardinality |
| RoadmapStaysCoherent (CouncilProofs) | RoadmapCoherent | `Copies`: in PostgreSQL each handler's copy is coherent by itself. `Slices`: in memory, an advance that nothing overlapped has set exactly the phases it has passed |
| MilestonesAreKept (CouncilProofs) | MilestonesKept | `MarkInv`: who is alone is the only one at work; in memory (`Shared`) an update about to write back has set its milestone and nobody has since; in PostgreSQL (`Replaced`) the copy of one that is alone is the row but for its own milestone |
| AllocationsStayWhole (CouncilProofs) | AllocationsHold | `WholeLists`: what a transaction has seen, deletes and inserts is whole lists, as is what becomes of them by union, intersection and difference; `Sole`: one that is alone deletes all there is |
| HoursServed (ScheduleProofs) | HoursAreServed | `BeatInv`: while a settled loop waits in its hours, a tick is there or comes within one period of their beginning, and a cycle that delays it is one that was in progress then; the status stays live as long as it is settled |
| LoopsTick (ScheduleProofs) | a process that ended runs no loop, and a ticker has a positive period | the types of Schedule |

Beside the types of parameters three assumptions say something of the code.
`ScopeAssumption` (Hierarchy): what a kill is aimed at is not the path of a
registration, since both are bodies of requests. The hypothesis of
ChargedOnceSerial is needed: with two members of `Closers` TLC finds a gain
charged in two periods (section 6). That of WakingIsBusy is needed too: a PUT
of a marine takes the status its body has, and a client that writes waking has no
goroutine; the run has no such client.

The sums of PayoutsAddUp range over a set of handlers. That a sum grows by the
amount of the element that is added (`SumRec`, `SumRemove`, `SumSame` in
CouncilProofs) holds for finite sets only and needs induction, which is done
there over a set of good numbers and the well-founded order of the naturals,
without the theorems of the library that take an operator.

Model-checked only: the liveness properties (CyclesEnd, UnscheduledDrains,
CommandsSettle, KillConverges, RequestsAnswered, CrashLoops, and
the draining of ImplementsTimers), because TLAPS has no support here for fairness
and ENABLED; and the counterexamples of LifecycleKillInFlight and HubRefuses. BillingTypeOK documents the
types of its module; no run lists it, it is proved.

## 6. What the code does otherwise than it says

The run LifecycleKillInFlight ends in a counterexample to NoCycleAfterKill: a
cycle that is in flight when the kill switch is pulled writes its final status
over disabled; the kill handler's listing then misses the marine and its loop
goes on. PROJECT.json quotes the line that says otherwise.

HubRefuses ends in one to StreamServed: HandleWebSocket asks its writer for
`http.Flusher` (websocket.go:33), and logMiddleware has wrapped it in a
`statusWriter` (server.go:541) that has no Flush. Every GET /ws is answered with
500; the dashboard opens that stream (app.js:96) and falls back on polling.

These are stated as definitions too, each next to the property that holds; no
run checks them. TLC refutes each when it is named in the configuration of its
module (KillReachesItsEngines with a marine among KillScopes):

| definition (module) | what the code does |
|---|---|
| ManualWakeNotCancelled (Lifecycle) | the answer to a wake request cancels the cycle it started |
| KillReachesItsEngines (EngineProtocol) | the kill of a single marine queues no command |
| AssignedIsDelivered (Registry) | after a suspend or a revoke an assignment makes billing and subscription active, "also grants strategy access" (server.py:1183), and leaves the client's status as it is, for which `_get_client` (server.py:172) refuses its key; a resume mends it for a suspended client, for a revoked one only a suspend and a resume do |
| FeeAsDocumented (Billing) | every report raises the mark the fee is measured from, so the fee is 0 |
| NetNewProfitsOnly (Billing) | after a crash between invoice and mark the same gain is invoiced again |
| DepositIsThePayout (Payouts) | the handler deposits the net amount of its own copy of the request (api/council.go:220), 0 when the client left it to the split of the account, which the store computed on another copy |
| DaysAsDocumented (Schedule) | models.go:102 and the protobuf schema spell a trading day MON; scheduler.go:261 compares with Mon and Monday, so such a marine never trades |

The passing properties say what remains true next to these: SureHaltHolds is the
kill switch when no cycle is in flight and until the engine of the marine reports
something else; BootRespectsHalt bounds the damage of LifecycleKillInFlight to the
life of the process; PaidForIsDelivered excludes exactly the assignments of
AssignedIsDelivered (`late`); GainsChargedOnce excludes
exactly the crash of NetNewProfitsOnly (`torn`); BookedOnce speaks of the payout
and not of the amount deposited.

The models also show, without a property of their own:

- a heartbeat that an engine sent before it heard of a kill writes its status
  over disabled (engine.go:126), and one that had read the row before the kill
  switches Schedule.Enabled on again; the scheduler then starts the marine at the
  next boot. CleanHaltStaysOff, KillConverges and BootRespectsHalt say what holds
  nevertheless: the switch stays off when no such copy was under way, and the
  status converges;
- a PUT of a marine whose status is disabled leaves its loop on, and the loop
  skips every cycle (scheduler.go:168); a delete that an enable comes between
  leaves a loop without a row;
- in memory the update of a registration, as a PUT, lands under a parent that was
  deleted meanwhile (store.go:178, 264);
- a suspend and a resume that overlap, or a crash within one of them, leave a
  client active, billed, and without a subscription (server.py:627), which is
  why PaidForIsDelivered asks for `~mixed`;
- a revoked client that is suspended and resumed is active again
  (server.py:597), although revoke_client calls a revoke permanent;
- a closing writes the peak it has read over a mark that a report has raised
  since (server.py:1366);
- two closings that overlap list the same mark and charge the same gain in two
  periods (server.py:1316), which is why ChargedOnceSerial asks for one at a time;
- an enabled manual marine gets a ticker of 24 hours whose first cycle runs at
  once, although scheduler.go:235 says manual marines have no recurring timer;
- two requests that nest their queries can take all connections of a pool
  that is too small and wait for each other without end (pgstore.go:31 sets 20,
  and nothing limits the requests);
- overlapping advances of the roadmap leave two phases active, or none, in the
  in-memory store, which the handlers write without its lock (store/council.go:143);
- a PUT of an account, a snapshot of an engine or an edit of a goal writes a total
  its sender read earlier over payouts and contributions made since; the in-memory
  store takes a repeated contribution or payout twice;
- SetAllocations of PostgreSQL answers with the list it was sent although its
  transaction was rolled back (pgstore.go:923).

## 7. What is not modelled

- Failing SQL statements, but for the one between the insert and the totals of a
  payout, and lost database connections: a handler of primarch answers 500 and
  stops, which leaves the same half-done states as the crash the models have.
  PGStore.ActivateKillSwitch uses the result of a failed statement, which panics
  in the handler. PostgreSQL's Update of a row that is gone reports success; the
  models have it as a step that changes nothing.
- Budget, expenses, payout allocations and prop fees, which are replaced or
  appended as a whole; trades, positions, bars, holdings, wheel cycles and
  performance, which are upserts by id with one writer each: no handler of theirs
  keeps anything between two store calls.
- The computations of the council and the dashboard (payouts needed, advice,
  metrics, billing summary, performance): pure and read-only, see the plan.
- Fields no modelled step depends on: PostgreSQL's GetAccount does not restore
  Instruments; the split of a snapshot that leaves it out is that of a prop
  account for personal ones as well, which Payouts has as a choice of split.
- pgstore creates its own tables, without the foreign key from marine_cycles that
  Librarium's schema has; a cycle of a deleted marine can therefore be recorded,
  as Lifecycle's Record does.
- Days that are an hour longer or shorter where daylight saving begins or ends.
- The lock of the hub, channels that fill up and streams that end with the write
  timeout of 30 seconds (main.go:129): no stream begins (section 6).
- Publishing and bundle files of the registry (see the plan) and its listings.
- Two close-period requests at once are in Billing and not in the run, where
  `Closers` has one member: the code has nothing against them, one operator
  starts them by hand, and section 6 says what they do.
- Stripe identifiers of clients, which nothing in the code sets.
- Sessions: a map from tokens to expiry times under one lock, written once at
  login, deleted once at logout, and read in one step by the middleware.
- Auspex: feeds from brokers are external; its writer is in the plan.
- CFO integrations but for the deposit of a payout, Aurum, schema files, offline
  scripts, infrastructure and protobuf: no state of their own, or none the other
  parts depend on.
- Encryption of bundles: pure functions of cryptographic libraries.
