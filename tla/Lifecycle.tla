----------------------------- MODULE Lifecycle -----------------------------
(***************************************************************************)
(* The life of a marine under primarch: the rows of the marine table, the  *)
(* scheduler's per-marine wake loops, the goroutines of manual wakes and   *)
(* the HTTP handlers of operators (start, stop, disable marines) and of    *)
(* engines (register and report marines), all running concurrently in one  *)
(* server process that may be stopped or may crash.                        *)
(*                                                                         *)
(* A step is one section under one lock: a call on the store or a locked   *)
(* section of the scheduler together with the straight-line code around    *)
(* it.  What the strategies compute, the clock and the event sink are left *)
(* out; whether a marine is inside its trading hours, when a ticker fires  *)
(* and how a run ends are choices.                                         *)
(***************************************************************************)
EXTENDS FiniteSets

CONSTANTS
    Marines,         \* marine ids
    Loops,           \* goroutines running Scheduler.runLoop (bound: how many coexist)
    Requests,        \* HTTP handlers in progress (bound: how many coexist)
    None,            \* no marine, no loop
    Api,             \* the operations the clients and engines use
    Kinds,           \* the schedule types a marine may be given
    ClientStatuses,  \* the statuses a request body may carry
    Scopes,          \* the sets of marines a kill switch may name
    Persistent       \* TRUE: PGStore, rows survive the process; FALSE: in-memory Store

Operations == {"create", "update", "delete", "wake", "sleep", "enable", "disable", "kill",
               "register", "beat"}
ScheduleTypes == {"interval", "manual", "invalid"}
Statuses == {"dormant", "waking", "failed", "disabled"}
Results == {"dormant", "failed"}

ASSUME LifecycleAssumption ==
    /\ None \notin Marines \cup Loops \cup Requests
    /\ Loops \cap Requests = {}
    /\ Api \subseteq Operations
    /\ Kinds \subseteq ScheduleTypes
    /\ ClientStatuses \subseteq Statuses
    /\ Scopes \subseteq SUBSET Marines
    /\ Persistent \in BOOLEAN

VARIABLES
    \* the marine table; a marine that is not in it has status "absent"
    status, enabled, kind,
    lastCycle,  \* how the newest recorded cycle of each marine ended
    \* the goroutines that run cycles: loops, and one per wake request
    at,         \* where in runLoop and executeCycle the goroutine is
    owner,      \* the marine it runs
    done,       \* its context is cancelled
    result,     \* how its run ended
    cancels,    \* Scheduler.cancels: the loop whose context each marine can cancel
    \* the HTTP handlers in progress
    stage,      \* the call the handler makes next
    subject,    \* the marine of its URL
    copy,       \* the schedule type in the copy of the row it read
    copyOn,     \* and the switch in it, where the handler writes it back
    targets,    \* kill switch: the listed marines it has still to unschedule
    phase,      \* "booting" (inside Start), "serving", or "stopping" (after Stop)
    boot,       \* the marines Start has still to schedule
    halted      \* history: was m killed or disabled since it was last configured
                \* ("no" if not), and what met it on the way (HaltOf)

rows == <<status, enabled, kind>>
routines == <<at, owner, done, result>>
handlers == <<stage, subject, copy, copyOn, targets>>
server == <<phase, boot>>
vars == <<rows, lastCycle, routines, cancels, handlers, server, halted>>

-----------------------------------------------------------------------------
(* Data *)

Routines == Loops \cup Requests

\* "wake" .. "settle" lie between executeCycle's check of the row and the
\* status it writes at the end.
Points == {"idle", "fetch", "wake", "running", "settle", "record", "select"}
Stages == {"free", "schedule", "arm", "returnWake", "sleepStatus", "enableWrite",
           "disableRead", "disableWrite", "deleteRow", "killList", "killUnschedule",
           "registerWrite", "beatWrite"}
Halts == {"no", "unsure", "off", "sure"}

Registered(m) == status[m] # "absent"
InFlight(m) == {g \in Routines : owner[g] = m /\ at[g] \in {"wake", "running", "settle"}}

\* Wrong: Start looks at the status alone.
BootableByStatus(statusOf, enabledOf) == {m \in Marines : statusOf[m] # "disabled"}

\* scheduler.Start schedules the rows that are enabled and not disabled.
Bootable(statusOf, enabledOf) ==
    {m \in Marines : enabledOf[m] /\ statusOf[m] # "disabled"}

\* ScheduleMarine proceeds only on an enabled row whose interval resolves.
Schedulable(m) == Registered(m) /\ enabled[m] /\ kind[m] # "invalid"

\* Any table an earlier process may have left in the database.
SomeRows ==
    /\ status \in [Marines -> Statuses \cup {"absent"}]
    /\ enabled \in [Marines -> BOOLEAN]
    /\ kind \in [Marines -> Kinds \cup {"none"}]
    /\ \A m \in Marines : status[m] = "absent" <=> kind[m] = "none"
    /\ \A m \in Marines : status[m] = "absent" => ~enabled[m]

Init ==
    /\ SomeRows
    /\ ~Persistent => \A m \in Marines : ~Registered(m)
    /\ lastCycle = [m \in Marines |-> "none"]
    /\ at = [g \in Routines |-> "idle"]
    /\ owner = [g \in Routines |-> None]
    /\ done = [g \in Routines |-> FALSE]
    /\ result = [g \in Routines |-> "none"]
    /\ cancels = [m \in Marines |-> None]
    /\ stage = [r \in Requests |-> "free"]
    /\ subject = [r \in Requests |-> None]
    /\ copy = [r \in Requests |-> "none"]
    /\ copyOn = [r \in Requests |-> FALSE]
    /\ targets = [r \in Requests |-> {}]
    /\ phase = "booting"
    /\ boot = Bootable(status, enabled)
    /\ halted = [m \in Marines |-> "no"]

-----------------------------------------------------------------------------
(* The scheduler's own operations *)

\* Calling the cancel function of every marine of S.
Cancel(S) == done' = [g \in Routines |-> done[g] \/ \E m \in S : cancels[m] = g]

\* Wrong: the entry is deleted but its context is never cancelled.
UnscheduleForgets(m) ==
    /\ cancels' = [cancels EXCEPT ![m] = None]
    /\ UNCHANGED <<routines>>

Unschedule(m) ==
    /\ Cancel({m})
    /\ cancels' = [cancels EXCEPT ![m] = None]
    /\ UNCHANGED <<at, owner, result>>

\* A goroutine begins its first cycle, or is over.
Spawn(g, m) ==
    /\ at' = [at EXCEPT ![g] = "fetch"]
    /\ owner' = [owner EXCEPT ![g] = m]
    /\ UNCHANGED result

Over(g) ==
    /\ at' = [at EXCEPT ![g] = "idle"]
    /\ owner' = [owner EXCEPT ![g] = None]
    /\ done' = [done EXCEPT ![g] = FALSE]
    /\ result' = [result EXCEPT ![g] = "none"]

\* Wrong: the loop that is already there is not cancelled.
ArmKeepsOld(m) ==
    \E l \in Loops :
        /\ at[l] = "idle"
        /\ cancels' = [cancels EXCEPT ![m] = l]
        /\ Spawn(l, m)
        /\ UNCHANGED done

\* The locked section of ScheduleMarine and the goroutine it starts.
Arm(m) ==
    \E l \in Loops :
        /\ at[l] = "idle"
        /\ Cancel({m})
        /\ cancels' = [cancels EXCEPT ![m] = l]
        /\ Spawn(l, m)

\* Start, one marine after the other; the API is not being served yet.
BootSchedule(m) ==
    /\ phase = "booting"
    /\ m \in boot
    /\ boot' = boot \ {m}
    /\ IF Schedulable(m) THEN Arm(m) ELSE UNCHANGED <<routines, cancels>>
    /\ UNCHANGED <<rows, lastCycle, handlers, phase, halted>>

BootDone ==
    /\ phase = "booting"
    /\ boot = {}
    /\ phase' = "serving"
    /\ UNCHANGED <<rows, lastCycle, routines, cancels, handlers, boot, halted>>

\* SIGTERM: Stop cancels every loop in the map; handlers keep running.
Stop ==
    /\ phase = "serving"
    /\ phase' = "stopping"
    /\ Cancel(Marines)
    /\ cancels' = [m \in Marines |-> None]
    /\ UNCHANGED <<rows, lastCycle, at, owner, result, handlers, boot, halted>>

\* The process ends, by a crash or at the end of main, wherever its
\* goroutines and handlers are, and a new one starts on the rows that are left.
Restart ==
    /\ IF Persistent
       THEN UNCHANGED <<rows, lastCycle, halted>>
       ELSE /\ status' = [m \in Marines |-> "absent"]
            /\ enabled' = [m \in Marines |-> FALSE]
            /\ kind' = [m \in Marines |-> "none"]
            /\ lastCycle' = [m \in Marines |-> "none"]
            /\ halted' = [m \in Marines |-> "no"]
    /\ at' = [g \in Routines |-> "idle"]
    /\ owner' = [g \in Routines |-> None]
    /\ done' = [g \in Routines |-> FALSE]
    /\ result' = [g \in Routines |-> "none"]
    /\ cancels' = [m \in Marines |-> None]
    /\ stage' = [r \in Requests |-> "free"]
    /\ subject' = [r \in Requests |-> None]
    /\ copy' = [r \in Requests |-> "none"]
    /\ copyOn' = [r \in Requests |-> FALSE]
    /\ targets' = [r \in Requests |-> {}]
    /\ phase' = "booting"
    /\ boot' = Bootable(status', enabled')

-----------------------------------------------------------------------------
(* One cycle of a goroutine: executeCycle *)

\* A loop goes on to its select; the goroutine of a manual wake is over.
AfterCycle(g) ==
    IF g \in Loops
    THEN /\ at' = [at EXCEPT ![g] = "select"]
         /\ result' = [result EXCEPT ![g] = "none"]
         /\ UNCHANGED <<owner, done>>
    ELSE Over(g)

\* Wrong: a disabled marine is not told from the others.
FetchIgnoresDisabled(g) ==
    /\ at[g] = "fetch"
    /\ IF Registered(owner[g])
       THEN at' = [at EXCEPT ![g] = "wake"] /\ UNCHANGED <<owner, done, result>>
       ELSE AfterCycle(g)
    /\ UNCHANGED <<rows, lastCycle, cancels, handlers, server, halted>>

\* The row is read; a missing or disabled marine, or one outside its trading
\* hours, has no cycle.  Schedule.Enabled is not looked at.
Fetch(g) ==
    /\ at[g] = "fetch"
    /\ \/ /\ status[owner[g]] \notin {"absent", "disabled"}
          /\ at' = [at EXCEPT ![g] = "wake"]
          /\ UNCHANGED <<owner, done, result>>
       \/ AfterCycle(g)
    /\ UNCHANGED <<rows, lastCycle, cancels, handlers, server, halted>>

\* UpdateMarineStatus: a missing row stays missing.
WriteStatus(m, s) ==
    status' = IF Registered(m) THEN [status EXCEPT ![m] = s] ELSE status

\* Wrong: the refusal of the runner is not taken for a failure.
WakeDropsError(g) ==
    /\ at[g] = "wake"
    /\ WriteStatus(owner[g], "waking")
    /\ at' = [at EXCEPT ![g] = IF done[g] THEN "settle" ELSE "running"]
    /\ UNCHANGED <<enabled, kind, lastCycle, owner, done, result, cancels, handlers, server,
                   halted>>

\* Status waking, then the runner: it refuses a context that is already done.
Wake(g) ==
    /\ at[g] = "wake"
    /\ WriteStatus(owner[g], "waking")
    /\ IF done[g]
       THEN /\ at' = [at EXCEPT ![g] = "settle"]
            /\ result' = [result EXCEPT ![g] = "failed"]
       ELSE /\ at' = [at EXCEPT ![g] = "running"]
            /\ UNCHANGED result
    /\ UNCHANGED <<enabled, kind, lastCycle, owner, done, cancels, handlers, server, halted>>

\* Wrong: no timeout, so that only a cancelled context ends a run.
RunEndsWhenCancelled(g) ==
    /\ at[g] = "running"
    /\ done[g]
    /\ at' = [at EXCEPT ![g] = "settle"]
    /\ result' = [result EXCEPT ![g] = "failed"]
    /\ UNCHANGED <<rows, lastCycle, owner, done, cancels, handlers, server, halted>>

\* The strategy ends, fails, is killed by its timeout or by the context.
RunEnds(g) ==
    /\ at[g] = "running"
    /\ at' = [at EXCEPT ![g] = "settle"]
    /\ \E res \in Results : result' = [result EXCEPT ![g] = res]
    /\ UNCHANGED <<rows, lastCycle, owner, done, cancels, handlers, server, halted>>

\* Wrong: the error path returns before the status is written.
SettleOnSuccess(g) ==
    /\ at[g] = "settle"
    /\ IF result[g] = "failed" THEN UNCHANGED status ELSE WriteStatus(owner[g], result[g])
    /\ at' = [at EXCEPT ![g] = "record"]
    /\ UNCHANGED <<enabled, kind, lastCycle, owner, done, result, cancels, handlers, server,
                   halted>>

\* The status at the end of the cycle, whatever the row holds by now.
Settle(g) ==
    /\ at[g] = "settle"
    /\ WriteStatus(owner[g], result[g])
    /\ at' = [at EXCEPT ![g] = "record"]
    /\ UNCHANGED <<enabled, kind, lastCycle, owner, done, result, cancels, handlers, server,
                   halted>>

Record(g) ==
    /\ at[g] = "record"
    /\ lastCycle' = [lastCycle EXCEPT ![owner[g]] = result[g]]
    /\ AfterCycle(g)
    /\ UNCHANGED <<rows, cancels, handlers, server, halted>>

\* The two branches of runLoop's select; when both are ready Go picks one.
Tick(l) ==
    /\ at[l] = "select"
    /\ at' = [at EXCEPT ![l] = "fetch"]
    /\ UNCHANGED <<rows, lastCycle, owner, done, result, cancels, handlers, server, halted>>

LoopExit(l) ==
    /\ at[l] = "select"
    /\ done[l]
    /\ Over(l)
    /\ UNCHANGED <<rows, lastCycle, cancels, handlers, server, halted>>

-----------------------------------------------------------------------------
(* The HTTP handlers *)

Accepting(op, r) ==
    /\ op \in Api
    /\ phase # "booting"
    /\ stage[r] = "free"
    /\ at[r] = "idle"    \* the goroutine of r's previous wake is over

\* The handler of m goes on to a stage; the handler returns.
GoTo(r, m, s) ==
    /\ stage' = [stage EXCEPT ![r] = s]
    /\ subject' = [subject EXCEPT ![r] = m]
    /\ UNCHANGED <<copy, copyOn, targets>>

Return(r) ==
    /\ stage' = [stage EXCEPT ![r] = "free"]
    /\ subject' = [subject EXCEPT ![r] = None]
    /\ copy' = [copy EXCEPT ![r] = "none"]
    /\ copyOn' = [copyOn EXCEPT ![r] = FALSE]
    /\ UNCHANGED targets

\* The row m is replaced.
PutRow(m, s, e, k) ==
    /\ status' = [status EXCEPT ![m] = s]
    /\ enabled' = [enabled EXCEPT ![m] = e]
    /\ kind' = [kind EXCEPT ![m] = k]

\* A heartbeat that read the marine before it was switched off, and writes
\* what it read back, switch included.
Reviving(m) == \E r \in Requests : stage[r] = "beatWrite" /\ subject[r] = m /\ copyOn[r]

\* What a kill or a disable guarantees depends on what is under way: nothing
\* with a reviving heartbeat ("unsure"), only the switch with a cycle in
\* flight ("off"), the status as well without ("sure").
HaltOf(m) ==
    IF Reviving(m) THEN "unsure" ELSE IF InFlight(m) = {} THEN "sure" ELSE "off"

\* POST /marines, then its auto-schedule.
Create(r, m) ==
    /\ Accepting("create", r)
    /\ ~Registered(m)
    /\ \E s \in ClientStatuses, e \in BOOLEAN, k \in Kinds :
           /\ PutRow(m, s, e, k)
           /\ IF e THEN GoTo(r, m, "schedule") ELSE UNCHANGED handlers
    /\ halted' = [halted EXCEPT ![m] = "no"]
    /\ UNCHANGED <<lastCycle, routines, cancels, server>>

\* PUT /marines/{id} replaces the row and leaves the scheduler alone.
Update(r, m) ==
    /\ Accepting("update", r)
    /\ Registered(m)
    /\ \E s \in ClientStatuses, e \in BOOLEAN, k \in Kinds : PutRow(m, s, e, k)
    /\ halted' = [halted EXCEPT ![m] = "no"]
    /\ UNCHANGED <<lastCycle, routines, cancels, handlers, server>>

\* DELETE /marines/{id}, POST sleep and POST disable unschedule first.
UnscheduleFirst(op, r, m, next) ==
    /\ Accepting(op, r)
    /\ Unschedule(m)
    /\ GoTo(r, m, next)
    /\ UNCHANGED <<rows, lastCycle, server, halted>>

Delete(r, m) == UnscheduleFirst("delete", r, m, "deleteRow")
Sleep(r, m) == UnscheduleFirst("sleep", r, m, "sleepStatus")
Disable(r, m) == UnscheduleFirst("disable", r, m, "disableRead")

DeleteRow(r) ==
    /\ stage[r] = "deleteRow"
    /\ PutRow(subject[r], "absent", FALSE, "none")
    /\ halted' = [halted EXCEPT ![subject[r]] = "no"]
    /\ Return(r)
    /\ UNCHANGED <<lastCycle, routines, cancels, server>>

\* Sleep makes even a disabled row dormant.
SleepStatus(r) ==
    /\ stage[r] = "sleepStatus"
    /\ WriteStatus(subject[r], "dormant")
    /\ halted' = [halted EXCEPT ![subject[r]] = IF @ = "sure" THEN "off" ELSE @]
    /\ Return(r)
    /\ UNCHANGED <<enabled, kind, lastCycle, routines, cancels, server>>

\* GetMarine: the handler keeps a copy of the row while others may change it,
\* of which enable and disable will replace the switch.
ReadCopy(r, m, next) ==
    /\ stage' = [stage EXCEPT ![r] = next]
    /\ subject' = [subject EXCEPT ![r] = m]
    /\ copy' = [copy EXCEPT ![r] = kind[m]]
    /\ copyOn' = [copyOn EXCEPT ![r] = enabled[m] /\ next = "beatWrite"]
    /\ UNCHANGED <<rows, lastCycle, routines, cancels, targets, server, halted>>

\* UpdateMarine: the copy goes back with a new status and enabled flag, unless
\* the row is gone by now.
WriteCopy(r, s, e, h) ==
    LET m == subject[r] IN
    IF Registered(m)
    THEN /\ PutRow(m, s, e, copy[r])
         /\ halted' = [halted EXCEPT ![m] = h]
    ELSE UNCHANGED <<rows, halted>>

DisableRead(r) ==
    /\ stage[r] = "disableRead"
    /\ IF Registered(subject[r])
       THEN ReadCopy(r, subject[r], "disableWrite")
       ELSE Return(r) /\ UNCHANGED <<rows, lastCycle, routines, cancels, server, halted>>

DisableWrite(r) ==
    /\ stage[r] = "disableWrite"
    /\ WriteCopy(r, "disabled", FALSE, HaltOf(subject[r]))
    /\ Return(r)
    /\ UNCHANGED <<lastCycle, routines, cancels, server>>

\* POST enable: the row goes back dormant and enabled, then it is scheduled.
Enable(r, m) ==
    /\ Accepting("enable", r)
    /\ Registered(m)
    /\ ReadCopy(r, m, "enableWrite")

EnableWrite(r) ==
    /\ stage[r] = "enableWrite"
    /\ WriteCopy(r, "dormant", TRUE, "no")
    /\ stage' = [stage EXCEPT ![r] = "schedule"]
    /\ copy' = [copy EXCEPT ![r] = "none"]
    /\ copyOn' = [copyOn EXCEPT ![r] = FALSE]
    /\ UNCHANGED <<lastCycle, routines, cancels, subject, targets, server>>

\* POST engine/register, for one of its marines: create the row, or replace
\* the one that is there, status and schedule included.  Nothing is scheduled.
Register(r, m) ==
    /\ Accepting("register", r)
    /\ IF Registered(m)
       THEN /\ GoTo(r, m, "registerWrite")
            /\ UNCHANGED <<rows, halted>>
       ELSE /\ \E s \in ClientStatuses, e \in BOOLEAN, k \in Kinds : PutRow(m, s, e, k)
            /\ halted' = [halted EXCEPT ![m] = "no"]
            /\ UNCHANGED handlers
    /\ UNCHANGED <<lastCycle, routines, cancels, server>>

RegisterWrite(r) ==
    /\ stage[r] = "registerWrite"
    /\ IF Registered(subject[r])
       THEN /\ \E s \in ClientStatuses, e \in BOOLEAN, k \in Kinds : PutRow(subject[r], s, e, k)
            /\ halted' = [halted EXCEPT ![subject[r]] = "no"]
       ELSE UNCHANGED <<rows, halted>>
    /\ Return(r)
    /\ UNCHANGED <<lastCycle, routines, cancels, server>>

\* POST engine/heartbeat, for one of its marines: read the row, then write it
\* back with the status the engine reports.
Beat(r, m) ==
    /\ Accepting("beat", r)
    /\ Registered(m)
    /\ ReadCopy(r, m, "beatWrite")

\* A report other than disabled ends what was sure of the status.
AfterReport(halt, s) == IF halt = "sure" /\ s # "disabled" THEN "off" ELSE halt

BeatWrite(r) ==
    /\ stage[r] = "beatWrite"
    /\ \E s \in ClientStatuses :
           WriteCopy(r, s, copyOn[r], AfterReport(halted[subject[r]], s))
    /\ Return(r)
    /\ UNCHANGED <<lastCycle, routines, cancels, server>>

\* ScheduleMarine as a handler calls it: check the row, then arm a loop.
Schedule(r) ==
    /\ stage[r] = "schedule"
    /\ IF Schedulable(subject[r]) THEN GoTo(r, subject[r], "arm") ELSE Return(r)
    /\ UNCHANGED <<rows, lastCycle, routines, cancels, server, halted>>

ArmLoop(r) ==
    /\ stage[r] = "arm"
    /\ Arm(subject[r])
    /\ Return(r)
    /\ UNCHANGED <<rows, lastCycle, server, halted>>

\* POST wake: WakeNow starts one cycle under the request's own context, which
\* net/http cancels when the handler returns.
WakeNow(r, m) ==
    /\ Accepting("wake", r)
    /\ status[m] \notin {"absent", "disabled"}
    /\ Spawn(r, m)
    /\ GoTo(r, m, "returnWake")
    /\ UNCHANGED <<rows, lastCycle, done, cancels, server, halted>>

ReturnWake(r) ==
    /\ stage[r] = "returnWake"
    /\ done' = [done EXCEPT ![r] = at[r] # "idle"]
    /\ Return(r)
    /\ UNCHANGED <<rows, lastCycle, at, owner, result, cancels, server, halted>>

\* POST kill-switch/{scope}: the rows first, in one section; then whatever a
\* listing shows as disabled is unscheduled, one marine at a time.
Kill(r) ==
    /\ Accepting("kill", r)
    /\ \E scope \in Scopes :
           LET hit == {m \in scope : Registered(m)} IN
           /\ status' = [m \in Marines |-> IF m \in hit THEN "disabled" ELSE status[m]]
           /\ enabled' = [m \in Marines |-> enabled[m] /\ m \notin hit]
           /\ halted' = [m \in Marines |-> IF m \in hit THEN HaltOf(m) ELSE halted[m]]
    /\ stage' = [stage EXCEPT ![r] = "killList"]
    /\ UNCHANGED <<kind, lastCycle, routines, cancels, subject, copy, copyOn, targets, server>>

KillList(r) ==
    /\ stage[r] = "killList"
    /\ stage' = [stage EXCEPT ![r] = "killUnschedule"]
    /\ targets' = [targets EXCEPT ![r] = {m \in Marines : status[m] = "disabled"}]
    /\ UNCHANGED <<rows, lastCycle, routines, cancels, subject, copy, copyOn, server, halted>>

KillUnschedule(r) ==
    /\ stage[r] = "killUnschedule"
    /\ \/ \E m \in targets[r] :
              /\ Unschedule(m)
              /\ targets' = [targets EXCEPT ![r] = @ \ {m}]
              /\ UNCHANGED <<stage, subject, copy, copyOn>>
       \/ /\ targets[r] = {}
          /\ Return(r)
          /\ UNCHANGED <<routines, cancels>>
    /\ UNCHANGED <<rows, lastCycle, server, halted>>

-----------------------------------------------------------------------------

LoopStep(l) == Tick(l) \/ LoopExit(l)
CycleStep(g) == Fetch(g) \/ Wake(g) \/ RunEnds(g) \/ Settle(g) \/ Record(g)
HandlerStep(r) ==
    \/ DeleteRow(r) \/ SleepStatus(r) \/ DisableRead(r) \/ DisableWrite(r)
    \/ EnableWrite(r) \/ Schedule(r) \/ ArmLoop(r) \/ ReturnWake(r)
    \/ KillList(r) \/ KillUnschedule(r) \/ RegisterWrite(r) \/ BeatWrite(r)
Arrival(r) ==
    \/ \E m \in Marines :
           \/ Create(r, m) \/ Update(r, m) \/ Delete(r, m) \/ Sleep(r, m)
           \/ Disable(r, m) \/ Enable(r, m) \/ WakeNow(r, m)
           \/ Register(r, m) \/ Beat(r, m)
    \/ Kill(r)
ServerStep == (\E m \in Marines : BootSchedule(m)) \/ BootDone \/ Stop \/ Restart

Next ==
    \/ ServerStep
    \/ \E g \in Routines : CycleStep(g)
    \/ \E l \in Loops : LoopStep(l)
    \/ \E r \in Requests : HandlerStep(r) \/ Arrival(r)

Spec == Init /\ [][Next]_vars

\* The Go runtime keeps running every goroutine, the runner's timeout ends
\* every run, and a select that finds its context done again and again takes
\* that branch in the end.  Requests, ticks, Stop and crashes need not happen.
Fairness ==
    /\ \A g \in Routines : WF_vars(CycleStep(g))
    /\ \A l \in Loops : SF_vars(LoopExit(l))
    /\ \A r \in Requests : WF_vars(HandlerStep(r))

FairSpec == Spec /\ Fairness

-----------------------------------------------------------------------------
(* Invariants *)

TypeOK ==
    /\ status \in [Marines -> Statuses \cup {"absent"}]
    /\ enabled \in [Marines -> BOOLEAN]
    /\ kind \in [Marines -> Kinds \cup {"none"}]
    /\ lastCycle \in [Marines -> Results \cup {"none"}]
    /\ at \in [Routines -> Points]
    /\ owner \in [Routines -> Marines \cup {None}]
    /\ done \in [Routines -> BOOLEAN]
    /\ result \in [Routines -> Results \cup {"none"}]
    /\ cancels \in [Marines -> Loops \cup {None}]
    /\ stage \in [Requests -> Stages]
    /\ subject \in [Requests -> Marines \cup {None}]
    /\ copy \in [Requests -> Kinds \cup {"none"}]
    /\ copyOn \in [Requests -> BOOLEAN]
    /\ targets \in [Requests -> SUBSET Marines]
    /\ phase \in {"booting", "serving", "stopping"}
    /\ boot \subseteq Marines
    /\ halted \in [Marines -> Halts]

\* What the labels say about the other fields: the supporting facts of the
\* inductive invariant.
Shape ==
    /\ \A g \in Routines :
           /\ at[g] = "idle" => owner[g] = None /\ ~done[g] /\ result[g] = "none"
           /\ at[g] # "idle" => owner[g] \in Marines
           /\ at[g] \in {"settle", "record"} => result[g] \in Results
    /\ \A r \in Requests :
           stage[r] \notin {"free", "killList", "killUnschedule"} => subject[r] \in Marines

\* A loop that has not been cancelled is the one its marine's entry of
\* Scheduler.cancels can cancel, and an entry never points at a loop that is
\* gone, cancelled or someone else's.  So no marine is ever woken by two live
\* loops, and no live loop is out of reach of UnscheduleMarine and Stop,
\* however ScheduleMarine calls of boot, create and enable overlap.
Live(l) == at[l] # "idle" /\ ~done[l]

OneTimerPerMarine ==
    /\ \A l \in Loops : Live(l) => cancels[owner[l]] = l
    /\ \A m \in Marines :
           cancels[m] # None => Live(cancels[m]) /\ owner[cancels[m]] = m

\* A kill switch or a disable that met no cycle in flight and no reviving
\* heartbeat holds: until an operator configures, deletes or puts to sleep the
\* marine, or its engine registers it or reports another status, its row says
\* disabled and no goroutine, old or new, is past executeCycle's check for it.
SureHaltHolds ==
    \A m \in Marines :
        halted[m] = "sure" => status[m] = "disabled" /\ InFlight(m) = {}

\* Start does not revive what was killed or disabled before a restart, even
\* when a late cycle, a sleep or a report of the engine has overwritten the
\* status: it looks at Schedule.Enabled too, which only an operator or a
\* registration sets again, and no heartbeat but one that read the row before
\* the halt.
BootRespectsHalt ==
    phase = "booting" =>
        \A m \in Marines : m \in boot \/ cancels[m] # None => halted[m] \notin {"off", "sure"}

\* No path through the cycles and the handlers leaves a marine waking for good:
\* only the end of the process, which takes every goroutine along, leaves a row
\* that says waking without one inside the runner or about to write the outcome.
Busy(m) == \E g \in InFlight(m) : at[g] \in {"running", "settle"}

WakingOnlyWhileBusy ==
    [][\A m \in Marines :
          status'[m] = "waking" /\ ~Busy(m)' /\ (\E g \in Routines : at'[g] # "idle")
              => status[m] = "waking" /\ ~Busy(m)]_vars

-----------------------------------------------------------------------------
(* Liveness, under FairSpec *)

\* A cycle that marks its marine waking comes to its end and is recorded: the
\* runner is always given a deadline.
CyclesEnd ==
    \A g \in Routines : at[g] = "wake" ~> at[g] \in {"idle", "select"}

\* Once a marine stays out of Scheduler.cancels its loops drain: none goes on
\* forever on a context nobody can cancel any more.
UnscheduledDrains ==
    \A m \in Marines :
        <>[](cancels[m] = None) => <>[](\A l \in Loops : owner[l] # m)

-----------------------------------------------------------------------------
(* Refinement: contexts and goroutines implement the timers of WakeTimers *)

DrainingFor(l) == IF done[l] THEN owner[l] ELSE None

Abstract == INSTANCE WakeTimers WITH
                Timers <- Loops,
                armed <- cancels,
                draining <- [l \in Loops |-> DrainingFor(l)]

\* The scheduler, under all handlers, boots, stops and crashes, behaves as one
\* replaceable timer per marine, and what it replaced drains (FairSpec).
ImplementsTimers == Abstract!Promise

-----------------------------------------------------------------------------
(* What the repository says and the code does not do *)

\* "This will immediately disable ALL marines": a marine that was killed, and
\* not configured again, does not pass executeCycle's check any more under a
\* context that is still live.
NoCycleAfterKill ==
    [][\A g \in Routines :
          at[g] = "fetch" /\ at'[g] = "wake" /\ ~done[g]
              => halted[owner[g]] = "no"]_vars

\* "Trigger immediate wake cycle": the cycle a wake request starts is not
\* cancelled while its strategy runs.
ManualWakeNotCancelled ==
    \A r \in Requests : at[r] = "running" => ~done[r]
=============================================================================
