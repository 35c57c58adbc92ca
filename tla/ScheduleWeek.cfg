\* Two days of four minutes, cycles of up to two, intervals of none to three.
SPECIFICATION Spec
CONSTANTS
    Week = 2
    DayLength = 4
    Intervals <- SomeIntervals
    Hours <- SomeHours
    MaxCycle = 2
    Unparsed = Unparsed
    Always = Always
INVARIANT HoursAreServed
PROPERTY CrashLoops
