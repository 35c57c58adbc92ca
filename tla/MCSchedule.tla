----------------------------- MODULE MCSchedule -----------------------------
(* Instances of Schedule for TLC: two days of four minutes. *)
EXTENDS Schedule

\* From before midnight or after the first minute, over midnight, and with days
\* that are spelled as the comment says or in full.
SomeHours == [days : {{<<0, "Mon">>}}, open : {-1, 1}, close : {3}]
             \cup [days : {{<<0, "Mon">>}}, open : {3}, close : {1}]
             \cup [days : {{<<0, "MON">>, <<1, "Monday">>}}, open : {0}, close : {4}]

\* None, two and three minutes; a cron schedule has one.
SomeIntervals == {0, 2, 3}
=============================================================================
