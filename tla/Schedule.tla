------------------------------ MODULE Schedule ------------------------------
(***************************************************************************)
(* When the wake loop of one marine runs its cycles: the interval that     *)
(* ScheduleMarine resolves once, the ticker of the loop, whose channel     *)
(* holds one tick, and the row that each cycle reads anew: its status and  *)
(* its trading hours.  Time is counted in minutes of a week, in the zone   *)
(* of the hours; the loop reacts within the minute.  The row is kept       *)
(* across restarts, as in PostgreSQL; overlapping handlers are the         *)
(* Lifecycle module's.                                                     *)
(***************************************************************************)
EXTENDS Integers

CONSTANTS
    Week,          \* the days of a week: 0 .. Week - 1
    DayLength,     \* minutes of a day, 1440 in the code
    Intervals,     \* what the intervals of clients parse to, in minutes
    Hours,         \* the trading hours that clients send
    MaxCycle,      \* the minutes a cycle takes at most
    Unparsed,      \* an interval that time.ParseDuration refuses
    Always         \* no trading hours, or a time zone that does not load

\* A day of the trading hours and how a client may spell it: the comment of
\* TradingHours says MON.
Days == (0 .. Week - 1) \X {"Mon", "Monday", "MON"}

\* parseTime reads any number, with a sign too: a clock time may lie before
\* or past the day.
ASSUME ScheduleAssumption ==
    /\ Week \in Nat \ {0}
    /\ DayLength \in Nat \ {0}
    /\ MaxCycle \in Nat
    /\ Intervals \subseteq Int
    /\ Unparsed \notin Int
    /\ Always \notin Hours
    /\ \A h \in Hours : h.days \subseteq Days /\ h.open \in Int /\ h.close \in Int

VARIABLES
    row,        \* type, interval, hours and Enabled of the marine's row
    status,     \* its status: "disabled", "live" (any other) or "absent" (no row)
    up,         \* the process runs
    loop,       \* "none", "new" (its goroutine was started) or "on"
    period,     \* the interval the loop was given
    next,       \* minutes to the next tick of its ticker
    tick,       \* a tick waits in the ticker's channel
    now,        \* the minute of the week
    cycle,      \* minutes since the loop's cycle in progress began; -1: none
    settled,    \* history: the loop ran and the marine was not disabled when the
                \* day's hours began, and nobody wrote the row or the loop since
    served      \* history: a cycle began in the hours of the day

vars == <<row, status, up, loop, period, next, tick, now, cycle, settled, served>>
ticker == <<loop, period, next, tick>>
history == <<settled, served>>

-----------------------------------------------------------------------------
Rows ==
    [type : {"interval"}, interval : Intervals \cup {Unparsed},
     hours : Hours \cup {Always}, enabled : BOOLEAN]
    \cup
    [type : {"cron", "manual", "event"}, interval : {Unparsed},
     hours : Hours \cup {Always}, enabled : BOOLEAN]

\* What row holds when there is none.
NoRow == [type |-> "event", interval |-> Unparsed, hours |-> Always, enabled |-> FALSE]

Day == now \div DayLength
Minute == now % DayLength
Idle == cycle = -1

\* resolveInterval: cron is every minute, manual once a day; no other type is
\* supported.
Interval(r) ==
    CASE r.type = "interval" -> r.interval
      [] r.type = "cron" -> 1
      [] r.type = "manual" -> DayLength
      [] OTHER -> Unparsed

\* The first minute of the hours.
Opening(h) == IF h.open > 0 THEN h.open ELSE 0

\* The days are compared with Weekday.String and its first three letters.
Active(h) == {<<Day, "Mon">>, <<Day, "Monday">>} \cap h.days # {}

\* Wrong: the minute in which the market opens is left out.
InHoursAfterOpen(h) ==
    h = Always \/ (Active(h) /\ h.open < Minute /\ Minute < h.close)

\* withinTradingHours: hours that close before they open, the next morning,
\* never come.
InHours(h) ==
    h = Always \/ (Active(h) /\ h.open <= Minute /\ Minute < h.close)

Init ==
    /\ row \in Rows
    /\ status \in {"live", "disabled"}
    /\ up = FALSE
    /\ loop = "none" /\ period = 1 /\ next = 0 /\ tick = FALSE
    /\ now = 0
    /\ cycle = -1
    /\ settled = FALSE /\ served = FALSE

\* ScheduleMarine: a new loop replaces the old one, whose cycle in progress
\* does not concern it; an error changes nothing.
ScheduleMarine(r) ==
    IF r.enabled /\ Interval(r) # Unparsed
    THEN /\ loop' = "new"
         /\ period' = Interval(r)
         /\ next' = 0
         /\ tick' = FALSE
         /\ cycle' = -1
    ELSE UNCHANGED <<ticker, cycle>>

NoLoop == loop' = "none" /\ period' = 1 /\ next' = 0 /\ tick' = FALSE /\ cycle' = -1

\* Scheduler.Start, when whatever supervises the process starts it again: a
\* marine whose status is disabled gets no loop.
Boot ==
    /\ ~up
    /\ up' = TRUE
    /\ IF status # "disabled" THEN ScheduleMarine(row) ELSE UNCHANGED <<ticker, cycle>>
    /\ settled' = FALSE
    /\ UNCHANGED <<row, status, now, served>>

-----------------------------------------------------------------------------
(* Clients *)

\* handleCreateMarine: scheduled if it is enabled, whatever status it is given.
Create(r, s) ==
    /\ up
    /\ status = "absent"
    /\ row' = r
    /\ status' = s
    /\ ScheduleMarine(r)
    /\ settled' = FALSE
    /\ UNCHANGED <<up, now, served>>

\* The row alone, its status included; the loop keeps its interval.
\* handleUpdateMarine, the row an engine registers, the write-back of a
\* heartbeat.
Put(r, s) ==
    /\ up
    /\ row' = r
    /\ status' = s
    /\ settled' = FALSE
    /\ UNCHANGED <<up, ticker, now, cycle, served>>

\* handleDeleteMarine: the loop, then the row; an enable between the two
\* leaves a loop without a row.
Delete ==
    /\ up
    /\ row' = NoRow
    /\ status' = "absent"
    /\ \/ NoLoop
       \/ /\ status # "absent" /\ Interval(row) # Unparsed
          /\ ScheduleMarine([row EXCEPT !.enabled = TRUE])
    /\ settled' = FALSE
    /\ UNCHANGED <<up, now, served>>

\* handleEnableMarine
Enable ==
    /\ up
    /\ status # "absent"
    /\ row' = [row EXCEPT !.enabled = TRUE]
    /\ status' = "live"
    /\ ScheduleMarine(row')
    /\ settled' = FALSE
    /\ UNCHANGED <<up, now, served>>

\* handleDisableMarine, and handleKillSwitch: the loop is stopped also when
\* there is no row.
Disable ==
    /\ up
    /\ row' = [row EXCEPT !.enabled = FALSE]
    /\ status' = IF status = "absent" THEN "absent" ELSE "disabled"
    /\ NoLoop
    /\ settled' = FALSE
    /\ UNCHANGED <<up, now, served>>

\* A write of the status alone makes a disabled marine live.
Revive == status' = IF status = "absent" THEN "absent" ELSE "live"

\* handleSleepMarine
Sleep ==
    /\ up
    /\ Revive
    /\ NoLoop
    /\ settled' = FALSE
    /\ UNCHANGED <<row, up, now, served>>

-----------------------------------------------------------------------------
(* The loop *)

\* executeCycle, up to the runner: it returns when the row has gone, when the
\* marine is disabled and when it is out of its hours.
BeginCycle ==
    IF status = "live" /\ InHours(row.hours)
    THEN /\ cycle' = 0
         /\ served' = TRUE
    ELSE UNCHANGED <<cycle, served>>

\* Wrong: an interval that is not positive becomes one minute.
StartLoopAnyway ==
    /\ up
    /\ loop = "new"
    /\ loop' = "on"
    /\ period' = IF period <= 0 THEN 1 ELSE period
    /\ next' = period'
    /\ BeginCycle
    /\ UNCHANGED <<up, tick, row, status, now, settled>>

\* runLoop: NewTicker panics when the interval is not positive, which ends
\* the process; else the first cycle comes at once.
StartLoop ==
    /\ up
    /\ loop = "new"
    /\ IF period <= 0
       THEN /\ up' = FALSE
            /\ NoLoop
            /\ UNCHANGED served
       ELSE /\ loop' = "on"
            /\ next' = period
            /\ BeginCycle
            /\ UNCHANGED <<up, period, tick>>
    /\ UNCHANGED <<row, status, now, settled>>

\* The loop takes a tick when its last cycle is over.
TakeTick ==
    /\ up /\ Idle
    /\ loop = "on" /\ tick
    /\ tick' = FALSE
    /\ BeginCycle
    /\ UNCHANGED <<row, status, up, loop, period, next, now, settled>>

\* It ends dormant or failed, also if it was disabled in the meantime.
EndCycle ==
    /\ ~Idle
    /\ cycle' = -1
    /\ Revive
    /\ UNCHANGED <<row, up, ticker, now, history>>

\* So does a cycle that a wake request or a loop since replaced has begun.
OtherCycleEnds ==
    /\ up
    /\ status = "disabled"
    /\ Revive
    /\ UNCHANGED <<row, up, ticker, now, cycle, history>>

\* The loop has done what it does in this minute.
Reacted ==
    /\ loop # "new"
    /\ tick => ~Idle
    /\ ~Idle => cycle < MaxCycle

\* A minute passes.  The ticker keeps its beat and drops a tick when one waits.
Pass ==
    /\ Reacted
    /\ now' = (now + 1) % (Week * DayLength)
    /\ cycle' = IF Idle THEN cycle ELSE cycle + 1
    /\ IF loop = "on"
       THEN /\ next' = IF next = 1 THEN period ELSE next - 1
            /\ tick' = (tick \/ next = 1)
       ELSE UNCHANGED <<next, tick>>
    /\ LET h == row.hours IN
       IF h # Always /\ now' % DayLength = Opening(h)
       THEN settled' = (loop = "on" /\ status = "live") /\ served' = FALSE
       ELSE UNCHANGED history
    /\ UNCHANGED <<row, status, up, loop, period>>

LoopStep == StartLoop \/ TakeTick \/ EndCycle \/ Pass
Client ==
    \/ \E r \in Rows, s \in {"live", "disabled"} : Create(r, s) \/ Put(r, s)
    \/ Delete \/ Enable \/ Disable \/ Sleep
Next == Boot \/ LoopStep \/ OtherCycleEnds \/ Client

\* Goroutines run, time passes and a process that ended is started again.
Spec == Init /\ [][Next]_vars /\ WF_vars(Boot) /\ WF_vars(LoopStep)

-----------------------------------------------------------------------------

\* The last minute of the hours of today is over.
Closing(h) ==
    /\ h # Always /\ Active(h)
    /\ Opening(h) < h.close /\ h.close <= DayLength
    /\ Minute = h.close - 1
    /\ Reacted

\* Hours that are at least as long as the interval and as a cycle are never
\* missed: a loop that runs when they begin, of a marine that is not disabled
\* then, begins a cycle in them, whatever beat its ticker has, the ticks it
\* dropped and the cycles that delayed it, unless somebody writes the marine's
\* row or stops its loop meanwhile.
HoursAreServed ==
    LET h == row.hours
        length == h.close - Opening(h)
    IN settled /\ Closing(h) /\ length >= period /\ length >= MaxCycle => served

\* What the comment of TradingHours and the protobuf schema say does not
\* hold: a marine whose days are MON, TUE, ... never trades.
Documented(h) == h # Always /\ <<Day, "MON">> \in h.days
DaysAsDocumented ==
    LET h == row.hours IN Documented(h) /\ h.open <= Minute /\ Minute < h.close => InHours(h)

\* A row that is enabled and not disabled, with an interval that is not
\* positive, ends the process at every start, as long as nobody gets to change
\* it or to stop its loop between a start and the panic; without one the
\* process stays up in the end.
Fatal ==
    /\ row.enabled /\ status # "disabled"
    /\ Interval(row) # Unparsed /\ Interval(row) <= 0
CrashLoops ==
    /\ [](~up /\ [](Fatal /\ (up => loop # "none")) => []<>~up)
    /\ <>[](~Fatal /\ period > 0) => <>[]up
=============================================================================
