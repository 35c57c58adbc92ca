--------------------------- MODULE ScheduleProofs ---------------------------
(***************************************************************************)
(* Proofs about Schedule, for any week, day, intervals, trading hours and  *)
(* cycles: a loop that runs when the market opens does not miss the day.   *)
(***************************************************************************)
EXTENDS Schedule, TLAPS

\* The minutes of a week.
Minutes == 0 .. Week * DayLength - 1

\* What the variables hold; a loop ticks only with a positive period, and
\* only in a process that is up.
Flags ==
    /\ up \in BOOLEAN /\ tick \in BOOLEAN /\ settled \in BOOLEAN /\ served \in BOOLEAN
    /\ loop # "none" => up

TypeInv ==
    /\ Flags
    /\ row \in Rows
    /\ status \in {"live", "disabled", "absent"}
    /\ loop \in {"none", "new", "on"}
    /\ period \in Int /\ next \in Int
    /\ now \in Minutes
    /\ cycle \in Int /\ cycle >= -1
    /\ loop = "on" => period >= 1 /\ 1 <= next /\ next <= period

\* How long the hours of today have lasted.
Elapsed(h) == Minute - Opening(h)

Waiting(h) ==
    /\ settled /\ ~served
    /\ h # Always /\ Active(h)
    /\ Opening(h) <= Minute /\ Minute < h.close /\ h.close <= DayLength

\* While a settled loop has not begun a cycle in the hours, its next tick is
\* at most one period after they began, and a cycle that delays it is one
\* that was in progress when they began.
Beat(h) ==
    Waiting(h) =>
        /\ tick \/ next + Elapsed(h) < period
        /\ Idle \/ cycle > Elapsed(h)

BeatInv ==
    /\ TypeInv
    /\ settled => loop = "on" /\ status = "live"
    /\ Beat(row.hours)

-----------------------------------------------------------------------------
(* Minutes and days *)

LEMMA DivMod ==
    ASSUME NEW d \in Nat \ {0}, NEW n \in Nat
    PROVE  /\ n \div d \in Nat /\ (n % d) \in Nat /\ (n % d) < d
           /\ n = (n \div d) * d + (n % d)
<1>1. n \div d \in Nat /\ (n % d) \in Nat /\ (n % d) < d
  OBVIOUS
<1>2. n = (n \div d) * d + (n % d)
  BY SMTT(20)
<1>. QED
  BY <1>1, <1>2

\* Of two days the earlier one ends before the later one begins.
LEMMA Between ==
    ASSUME NEW d \in Nat \ {0}, NEW q \in Nat, NEW s \in Nat, q < s
    PROVE  q * d \in Nat /\ s * d \in Nat /\ q * d + d <= s * d
<1>1. PICK t \in Nat : s = q + 1 + t
  <2>1. s - q - 1 \in Nat /\ s = q + 1 + (s - q - 1)
    OBVIOUS
  <2>. QED
    BY <2>1
<1>2. s * d = q * d + d + t * d /\ q * d \in Nat /\ t * d \in Nat /\ s * d \in Nat
  BY <1>1, SMTT(20)
<1>. QED
  BY <1>2

\* A minute that is not the first of its day follows the one before it, on
\* the same day.
LEMMA NextMinute ==
    ASSUME NEW d \in Nat \ {0}, NEW n \in Nat, (n + 1) % d # 0
    PROVE  (n + 1) % d = (n % d) + 1 /\ (n + 1) \div d = n \div d
<1>. DEFINE q == n \div d
            s == (n + 1) \div d
<1>1. /\ q \in Nat /\ (n % d) \in Nat /\ (n % d) < d
      /\ n = q * d + (n % d)
  BY DivMod
<1>2. /\ s \in Nat /\ ((n + 1) % d) \in Nat /\ ((n + 1) % d) < d
      /\ n + 1 = s * d + ((n + 1) % d)
  BY DivMod
<1>. HIDE DEF q, s
<1>3. PICK a \in Int, b \in Int : a = q * d /\ b = s * d
  BY <1>1, <1>2
<1>4. ~(q < s)
  <2>. SUFFICES ASSUME q < s PROVE FALSE
    OBVIOUS
  <2>1. a + d <= b
    BY <1>1, <1>2, <1>3, Between
  <2>. QED
    BY <1>1, <1>2, <1>3, <2>1
<1>5. ~(s < q)
  <2>. SUFFICES ASSUME s < q PROVE FALSE
    OBVIOUS
  <2>1. b + d <= a
    BY <1>1, <1>2, <1>3, Between
  <2>. QED
    BY <1>1, <1>2, <1>3, <2>1
<1>6. q = s
  BY <1>1, <1>2, <1>4, <1>5
<1>. QED
  BY <1>1, <1>2, <1>3, <1>6 DEF q, s

\* What a minute does to the minute and to the day of the week.
LEMMA WeekMinute ==
    ASSUME NEW n \in 0 .. Week * DayLength - 1
    PROVE  LET m == (n + 1) % (Week * DayLength) IN
           /\ m \in 0 .. Week * DayLength - 1
           /\ (m % DayLength) \in Nat
           /\ (m % DayLength) # 0 =>
                 (m % DayLength) = (n % DayLength) + 1 /\ m \div DayLength = n \div DayLength
<1>. DEFINE w == Week * DayLength
            m == (n + 1) % w
<1>1. w \in Nat \ {0}
  BY ScheduleAssumption, SMTT(20)
<1>2. DayLength \in Nat \ {0}
  BY ScheduleAssumption
<1>3. n \in Nat /\ n + 1 <= w
  BY <1>1
<1>. HIDE DEF w
<1>4. m \in 0 .. w - 1
  BY <1>1, <1>3
<1>5. CASE n + 1 = w
  <2>1. m = 0
    BY <1>1, <1>5
  <2>2. m % DayLength = 0
    BY <1>2, <2>1
  <2>. QED
    BY <1>4, <2>2 DEF w
<1>6. CASE n + 1 < w
  <2>1. m = n + 1
    BY <1>1, <1>3, <1>6
  <2>. HIDE DEF m
  <2>2. (m % DayLength) \in Nat
    BY <1>2, <1>3, <2>1
  <2>. QED
    BY <1>2, <1>3, <1>4, <2>1, <2>2, NextMinute DEF w, m
<1>. QED
  BY <1>1, <1>3, <1>5, <1>6

-----------------------------------------------------------------------------
(* The types *)

LEMMA TypeInit == Init => TypeInv
<1>1. Week * DayLength \in Nat \ {0}
  BY ScheduleAssumption, SMTT(20)
<1>. QED
  <2>1. 0 \in Minutes
    <3>1. PICK w \in Nat : w = Week * DayLength /\ w # 0
      BY <1>1
    <3>. QED
      BY <3>1 DEF Minutes
  <2>2. Init => Flags
    BY DEF Init, Flags
  <2>. QED
    BY <2>1, <2>2 DEF Init, TypeInv

\* resolveInterval gives minutes or an error.
LEMMA Resolved ==
    ASSUME NEW r \in Rows, Interval(r) # Unparsed
    PROVE  Interval(r) \in Int
BY ScheduleAssumption DEF Rows, Interval

LEMMA EnabledRow ==
    ASSUME NEW r \in Rows, NEW b \in BOOLEAN
    PROVE  [r EXCEPT !.enabled = b] \in Rows /\ [r EXCEPT !.enabled = b].hours = r.hours
BY DEF Rows

LEMMA HoursType ==
    ASSUME NEW r \in Rows, r.hours # Always
    PROVE  /\ r.hours \in Hours /\ r.hours.open \in Int /\ r.hours.close \in Int
           /\ Opening(r.hours) \in Nat /\ r.hours.open <= Opening(r.hours)
BY ScheduleAssumption DEF Rows, Opening

LEMMA FlagsStep == Flags /\ [Next]_vars => Flags'
<1>. SUFFICES ASSUME Flags, [Next]_vars PROVE Flags'
  OBVIOUS
<1>1. CASE Boot
  BY <1>1 DEF Flags, Boot, ScheduleMarine, ticker
<1>2. CASE Client
  BY <1>2 DEF Flags, Client, Create, Put, Delete, Enable, Disable, Sleep, ScheduleMarine, NoLoop, ticker
<1>3. CASE StartLoop
  BY <1>3 DEF Flags, StartLoop, NoLoop, BeginCycle
<1>4. CASE TakeTick
  BY <1>4 DEF Flags, TakeTick, BeginCycle
<1>5. CASE EndCycle
  BY <1>5 DEF Flags, EndCycle, ticker, history
<1>6. CASE Pass
  <2>1. loop' = loop /\ up' = up
    BY <1>6 DEF Pass
  <2>2. tick' \in BOOLEAN
    BY <1>6 DEF Pass, Flags
  <2>3. settled' \in BOOLEAN /\ served' \in BOOLEAN
    BY <1>6 DEF Flags, Pass, history
  <2>. QED
    BY <2>1, <2>2, <2>3 DEF Flags
<1>7. CASE OtherCycleEnds
  BY <1>7 DEF Flags, OtherCycleEnds, ticker, history
<1>8. CASE UNCHANGED vars
  BY <1>8 DEF Flags, vars
<1>. QED
  BY <1>1, <1>2, <1>3, <1>4, <1>5, <1>6, <1>7, <1>8 DEF Next, LoopStep

LEMMA TypeStep == TypeInv /\ [Next]_vars => TypeInv'
<1>. SUFFICES ASSUME TypeInv, [Next]_vars PROVE TypeInv'
  OBVIOUS
<1>0. Flags'
  BY FlagsStep DEF TypeInv
<1>1. CASE Boot
  BY <1>0, <1>1, Resolved DEF TypeInv, Boot, ScheduleMarine, ticker
<1>2. ASSUME Client PROVE TypeInv'
  <2>1. ASSUME NEW r \in Rows, NEW t \in {"live", "disabled"}, Put(r, t) PROVE TypeInv'
    BY <1>0, <2>1 DEF TypeInv, Put, ticker
  <2>2. ASSUME NEW r \in Rows, NEW t \in {"live", "disabled"}, Create(r, t) PROVE TypeInv'
    BY <1>0, <2>2, Resolved DEF TypeInv, Create, ScheduleMarine, ticker
  <2>3. CASE Delete
    <3>1. NoRow \in Rows
      BY DEF NoRow, Rows
    <3>2. CASE NoLoop
      BY <1>0, <2>3, <3>1, <3>2 DEF TypeInv, Delete, NoLoop
    <3>3. ASSUME Interval(row) # Unparsed, ScheduleMarine([row EXCEPT !.enabled = TRUE])
          PROVE  TypeInv'
      <4>1. Interval([row EXCEPT !.enabled = TRUE]) = Interval(row) /\ Interval(row) \in Int
        BY <3>3, Resolved DEF TypeInv, Rows, Interval
      <4>2. loop' = "new" /\ period' \in Int /\ next' \in Int /\ cycle' = -1
        BY <3>3, <4>1 DEF TypeInv, Rows, ScheduleMarine
      <4>. QED
        BY <1>0, <2>3, <3>1, <4>2 DEF TypeInv, Delete
    <3>. QED
      BY <2>3, <3>2, <3>3 DEF Delete
  <2>4. CASE Enable
    <3>1. row' \in Rows
      BY <2>4, EnabledRow DEF TypeInv, Enable
    <3>. QED
      BY <1>0, <2>4, <3>1, Resolved DEF TypeInv, Enable, ScheduleMarine, ticker
  <2>5. CASE Disable
    <3>1. row' \in Rows
      BY <2>5, EnabledRow DEF TypeInv, Disable
    <3>. QED
      BY <1>0, <2>5, <3>1 DEF TypeInv, Disable, NoLoop
  <2>6. CASE Sleep
    BY <1>0, <2>6 DEF TypeInv, Sleep, Revive, NoLoop
  <2>. QED
    BY <1>2, <2>1, <2>2, <2>3, <2>4, <2>5, <2>6 DEF Client
<1>4. CASE OtherCycleEnds
  BY <1>0, <1>4 DEF TypeInv, OtherCycleEnds, Revive, ticker
<1>5. CASE StartLoop
  <2>1. UNCHANGED <<row, status, now>>
    BY <1>5 DEF StartLoop
  <2>2. CASE period <= 0
    BY <1>0, <1>5, <2>1, <2>2 DEF TypeInv, StartLoop, NoLoop
  <2>3. CASE ~(period <= 0)
    <3>1. loop' = "on" /\ next' = period /\ period' = period /\ (cycle' = 0 \/ cycle' = cycle)
      BY <1>5, <2>3 DEF StartLoop, BeginCycle
    <3>. QED
      BY <1>0, <2>1, <2>3, <3>1 DEF TypeInv
  <2>. QED
    BY <2>2, <2>3
<1>6. CASE TakeTick
  BY <1>0, <1>6 DEF TypeInv, TakeTick, BeginCycle
<1>7. CASE EndCycle
  BY <1>0, <1>7 DEF TypeInv, EndCycle, Revive, ticker
<1>8. CASE Pass
  <2>1. now' \in Minutes
    BY <1>8, WeekMinute DEF TypeInv, Pass, Minutes
  <2>2. cycle' \in Int /\ cycle' >= -1
    BY <1>8 DEF TypeInv, Pass
  <2>3. UNCHANGED <<row, status, loop, period>>
    BY <1>8 DEF Pass
  <2>4. next' \in Int /\ (loop = "on" => 1 <= next' /\ next' <= period)
    <3>1. CASE loop = "on"
      <4>1. next' = IF next = 1 THEN period ELSE next - 1
        BY <1>8, <3>1 DEF Pass
      <4>. QED
        BY <3>1, <4>1 DEF TypeInv
    <3>2. CASE loop # "on"
      BY <1>8, <3>2 DEF TypeInv, Pass
    <3>. QED
      BY <3>1, <3>2
  <2>. QED
    BY <1>0, <2>1, <2>2, <2>3, <2>4 DEF TypeInv
<1>9. CASE UNCHANGED vars
  BY <1>0, <1>9 DEF TypeInv, vars
<1>. QED
  BY <1>1, <1>2, <1>4, <1>5, <1>6, <1>7, <1>8, <1>9 DEF Next, LoopStep

-----------------------------------------------------------------------------
(* The hours are served *)

LEMMA MinuteType == ASSUME TypeInv PROVE Minute \in Nat
<1>1. DayLength \in Nat \ {0} /\ now \in Nat
  BY ScheduleAssumption, SMTT(20) DEF TypeInv, Minutes
<1>. QED
  BY <1>1, DivMod DEF Minute

LEMMA BeatPass ==
    ASSUME BeatInv, Pass, TypeInv'
    PROVE  BeatInv'
<1>1. TypeInv /\ row' = row /\ status' = status /\ loop' = loop /\ period' = period
  BY DEF BeatInv, Pass
<1>2. settled' => loop' = "on" /\ status' = "live"
  BY <1>1 DEF BeatInv, Pass, history
<1>3. ASSUME Waiting(row.hours)'
      PROVE  /\ tick' \/ next' + Elapsed(row.hours)' < period'
             /\ (Idle \/ cycle > Elapsed(row.hours))'
  <2>0. PICK h : h = row.hours
    OBVIOUS
  <2>1. h # Always /\ Opening(h) \in Nat /\ h.close \in Int
    BY <1>1, <1>3, <2>0, HoursType DEF TypeInv, Waiting
  <2>2. /\ Minute = now % DayLength /\ Minute' = now' % DayLength
        /\ Day = now \div DayLength /\ Day' = now' \div DayLength
    BY DEF Minute, Day
  <2>3. /\ Minute' \in Nat
        /\ Minute' # 0 => Minute' = Minute + 1 /\ Day' = Day
    BY <1>1, <2>2, WeekMinute DEF TypeInv, Pass, Minutes
  <2>4. Minute \in Nat
    BY <1>1, MinuteType
  <2>5. /\ loop = "on" /\ next \in Int /\ period \in Int /\ 1 <= next /\ next <= period
        /\ next' = (IF next = 1 THEN period ELSE next - 1)
        /\ tick' = (tick \/ next = 1)
    BY <1>1, <1>2, <1>3 DEF Waiting, TypeInv, Pass
  <2>6. /\ cycle \in Int /\ cycle >= -1
        /\ cycle' = IF cycle = -1 THEN cycle ELSE cycle + 1
    BY <1>1 DEF TypeInv, Pass, Idle
  <2>7. CASE Minute' = Opening(h)
    <3>1. Elapsed(row.hours)' = 0
      BY <1>1, <2>0, <2>1, <2>3, <2>7 DEF Elapsed
    <3>2. tick' \/ next' < period'
      <4>1. next = 1 \/ next - 1 < period
        BY <2>5
      <4>. QED
        BY <1>1, <2>5, <4>1
    <3>3. cycle' = -1 \/ cycle' > 0
      BY <2>6
    <3>4. next' \in Int /\ next' + 0 = next'
      BY <2>5
    <3>. QED
      BY <3>1, <3>2, <3>3, <3>4 DEF Idle
  <2>8. CASE Minute' # Opening(h)
    <3>1. settled' = settled /\ served' = served
      BY <2>0, <2>1, <2>2, <2>8 DEF Pass, history
    <3>2. Opening(h) <= Minute' /\ Minute' < h.close
      BY <1>1, <1>3, <2>0 DEF Waiting
    <3>3. Minute' = Minute + 1 /\ Day' = Day
      BY <2>1, <2>3, <2>8, <3>2
    <3>4. Waiting(row.hours)
      <4>1. Active(row.hours)
        BY <1>1, <1>3, <3>3 DEF Waiting, Active
      <4>2. Opening(h) <= Minute /\ Minute < h.close
        BY <2>1, <2>4, <2>8, <3>2, <3>3
      <4>. QED
        BY <1>1, <1>3, <2>0, <3>1, <4>1, <4>2 DEF Waiting
    <3>5. /\ tick \/ next + (Minute - Opening(h)) < period
          /\ cycle = -1 \/ cycle > Minute - Opening(h)
      BY <2>0, <3>4 DEF BeatInv, Beat, Elapsed, Idle
    <3>6. Elapsed(row.hours)' = Minute + 1 - Opening(h)
      <4>1. Opening(row.hours)' = Opening(h)
        BY <1>1, <2>0 DEF Opening
      <4>. QED
        BY <2>1, <2>4, <3>3, <4>1 DEF Elapsed
    <3>7. tick' \/ next' + (Minute + 1 - Opening(h)) < period
      <4>1. CASE tick \/ next = 1
        BY <2>5, <4>1
      <4>2. CASE next # 1 /\ next + (Minute - Opening(h)) < period
        BY <2>1, <2>4, <2>5, <4>2
      <4>. QED
        BY <3>5, <4>1, <4>2
    <3>8. cycle' = -1 \/ cycle' > Minute + 1 - Opening(h)
      BY <2>1, <2>4, <2>6, <3>5
    <3>9. tick' \/ next' + Elapsed(row.hours)' < period'
      BY <1>1, <3>6, <3>7 DEF Elapsed
    <3>10. cycle' = -1 \/ cycle' > Elapsed(row.hours)'
      BY <3>6, <3>8 DEF Elapsed
    <3>. QED
      BY <3>9, <3>10 DEF Idle
  <2>. QED
    BY <2>7, <2>8
<1>. QED
  BY <1>2, <1>3 DEF BeatInv, Beat

LEMMA BeatStep == BeatInv /\ [Next]_vars => BeatInv'
<1>. SUFFICES ASSUME BeatInv, [Next]_vars PROVE BeatInv'
  OBVIOUS
<1>1. TypeInv /\ TypeInv'
  BY TypeStep DEF BeatInv
<1>2. CASE Boot \/ Client
  <2>1. ~settled'
    BY <1>2 DEF Boot, Client, Create, Put, Delete, Enable, Disable, Sleep
  <2>. QED
    BY <1>1, <2>1 DEF BeatInv, Beat, Waiting
<1>3. CASE StartLoop
  <2>1. ~settled'
    BY <1>3 DEF BeatInv, StartLoop
  <2>. QED
    BY <1>1, <2>1 DEF BeatInv, Beat, Waiting
<1>4. CASE TakeTick
  <2>1. /\ UNCHANGED <<row, status, loop, period, next, now, settled>>
        /\ served' = (IF status = "live" /\ InHours(row.hours) THEN TRUE ELSE served)
    BY <1>4 DEF TakeTick, BeginCycle
  <2>2. ~Waiting(row.hours)'
    <3>. SUFFICES ASSUME Waiting(row.hours)' PROVE FALSE
      OBVIOUS
    <3>1. status = "live" /\ Waiting(row.hours)
      BY <2>1 DEF BeatInv, Waiting, Active, Day, Minute, Opening
    <3>2. InHours(row.hours)
      BY <1>1, <3>1, HoursType, MinuteType DEF TypeInv, Waiting, InHours
    <3>. QED
      BY <2>1, <3>1, <3>2 DEF Waiting
  <2>. QED
    BY <1>1, <2>1, <2>2 DEF BeatInv, Beat
<1>5. CASE EndCycle
  <2>1. /\ UNCHANGED <<row, loop, period, next, tick, now, settled, served>>
        /\ Idle' /\ (status = "live" => status' = "live")
    BY <1>5 DEF EndCycle, Revive, ticker, history, Idle
  <2>. QED
    BY <1>1, <2>1 DEF BeatInv, Beat, Waiting, Elapsed, Opening, Active, Day, Minute
<1>6. CASE UNCHANGED vars
  BY <1>1, <1>6 DEF vars, BeatInv, Beat, Waiting, Elapsed, Opening, Active, Day, Minute, Idle
<1>7. CASE OtherCycleEnds
  <2>1. ~settled /\ ~settled'
    BY <1>7 DEF BeatInv, OtherCycleEnds, history
  <2>. QED
    BY <1>1, <2>1 DEF BeatInv, Beat, Waiting
<1>. QED
  BY <1>1, <1>2, <1>3, <1>4, <1>5, <1>6, <1>7, BeatPass DEF Next, LoopStep

\* In the last minute of the hours an interval has passed since they began, so
\* a tick has come, and any cycle of before is over: the tick was taken.
LEMMA BeatServes == BeatInv => HoursAreServed
<1>. SUFFICES ASSUME BeatInv, settled, ~served, Closing(row.hours),
                     row.hours.close - Opening(row.hours) >= period,
                     row.hours.close - Opening(row.hours) >= MaxCycle
              PROVE  FALSE
  BY DEF HoursAreServed, BeatInv, TypeInv
<1>0. PICK h : h = row.hours
  OBVIOUS
<1>1. TypeInv
  BY DEF BeatInv
<1>2. h # Always /\ Opening(h) \in Nat /\ h.close \in Int
  BY <1>0, <1>1, HoursType DEF TypeInv, Closing
<1>3. Opening(h) < h.close /\ h.close <= DayLength /\ Minute = h.close - 1 /\ Active(h) /\ Reacted
  BY <1>0 DEF Closing
<1>4. Waiting(h)
  <2>1. Opening(h) <= Minute /\ Minute < h.close
    BY <1>2, <1>3
  <2>. QED
    BY <1>2, <1>3, <2>1 DEF Waiting
<1>5. /\ tick \/ next + (Minute - Opening(h)) < period
      /\ Idle \/ cycle > Minute - Opening(h)
  BY <1>0, <1>4 DEF BeatInv, Beat, Elapsed
<1>6. /\ next \in Int /\ period \in Int /\ cycle \in Int /\ 1 <= next /\ MaxCycle \in Nat
  BY <1>1, ScheduleAssumption DEF BeatInv, TypeInv
<1>7. h.close - Opening(h) >= period /\ h.close - Opening(h) >= MaxCycle
  BY <1>0
<1>8. tick
  BY <1>2, <1>3, <1>5, <1>6, <1>7
<1>9. ~Idle /\ cycle < MaxCycle
  BY <1>3, <1>8 DEF Reacted
<1>. QED
  BY <1>2, <1>3, <1>5, <1>6, <1>7, <1>9

\* A loop that runs when the hours of a day begin, of a marine that is not
\* disabled then, begins a cycle in them, when they are at least as long as
\* its interval and as a cycle and nobody writes the row or stops the loop
\* meanwhile: for every week, day length, set of intervals and of trading hours.
THEOREM HoursServed == Spec => []HoursAreServed
<1>1. Init => BeatInv
  BY TypeInit DEF BeatInv, Beat, Waiting, Init
<1>. QED
  BY <1>1, BeatStep, BeatServes, PTL DEF Spec

\* A process that has ended runs no loop, and a ticker is only ever made of a
\* positive interval.
THEOREM LoopsTick == Spec => [](/\ loop # "none" => up
                                /\ loop = "on" => period >= 1)
<1>1. TypeInv => (loop # "none" => up) /\ (loop = "on" => period >= 1)
  BY DEF TypeInv, Flags
<1>. QED
  BY <1>1, TypeInit, TypeStep, PTL DEF Spec
=============================================================================
