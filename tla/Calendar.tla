------------------------------ MODULE Calendar ------------------------------
(***************************************************************************)
(* mktime64 of src/jiffies.c: the seconds from 1970 to a Gregorian date by *)
(* Gauss's formula, set against a calendar whose pages are turned over day *)
(* by day.                                                                 *)
(***************************************************************************)
EXTENDS Integers, FunctionCalls

CONSTANTS FIRST, LAST   \* the years of the calendar

ASSUME YearsAssumption == FIRST \in Nat \ {0} /\ FIRST <= 1970 /\ LAST >= 1970

Date(y, m, d) == [year |-> y, mon |-> m, day |-> d]

Leap(y) == y % 4 = 0 /\ (y % 100 # 0 \/ y % 400 = 0)

Length(y, m) ==
    IF m = 2 THEN IF Leap(y) THEN 29 ELSE 28
    ELSE IF m \in {4, 6, 9, 11} THEN 30 ELSE 31

Following(t) ==
    IF t.day < Length(t.year, t.mon) THEN Date(t.year, t.mon, t.day + 1)
    ELSE IF t.mon < 12 THEN Date(t.year, t.mon + 1, 1)
    ELSE Date(t.year + 1, 1, 1)
-----------------------------------------------------------------------------
\* 1..12 -> 11,12,1..10: February is the last month of the year before.
\* Mutant: February is left in its year.
ShiftedFebruary(t) ==
    IF t.mon - 2 < 0 THEN [mon |-> t.mon + 10, year |-> t.year - 1]
                     ELSE [mon |-> t.mon - 2, year |-> t.year]

Shifted(t) ==
    IF t.mon - 2 <= 0 THEN [mon |-> t.mon + 10, year |-> t.year - 1]
                      ELSE [mon |-> t.mon - 2, year |-> t.year]

\* Mutant: 2000 is no leap year.
DayNumberCentury(t) ==
    LET s == Shifted(t)
    IN  (s.year \div 4 - s.year \div 100 + (367 * s.mon) \div 12 + t.day)
        + s.year * 365 - 719495

\* The days from 1970; the sum of unsigned ints does not wrap from year 1 on.
DayNumber(t) ==
    LET s == Shifted(t)
    IN  (s.year \div 4 - s.year \div 100 + s.year \div 400
            + (367 * s.mon) \div 12 + t.day)
        + s.year * 365 - 719499

mktime64(t, hour, min, sec) == ((DayNumber(t) * 24 + hour) * 60 + min) * 60 + sec
-----------------------------------------------------------------------------
\* Any date, counted in days, and, where the seconds fit in TLC's integers,
\* its beginning and its end in the two ways mktime64 allows to write it.
MakeTime ==
    /\ call = Idle
    /\ \E y \in FIRST..LAST, m \in 1..12 : \E d \in 1..Length(y, m) :
          LET t == Date(y, m, d)
          IN  \/ Call("days", t, DayNumber(t))
              \/ /\ y \in 1902..2037
                 /\ \/ Call("begin", t, mktime64(t, 0, 0, 0))
                    \/ Call("end", t, mktime64(t, 24, 0, 0))
                    \/ Call("end", t, mktime64(t, 23, 59, 60))

CalendarInit == call = Idle

CalendarNext == MakeTime \/ Return

CalendarSpec == CalendarInit /\ [][CalendarNext]_call
-----------------------------------------------------------------------------
\* mktime64 counts the days as the calendar does, from 0 on 1970-01-01 by one
\* for every page, over the leap days, the centuries without one and the one
\* with it.
CountsDays ==
    Called("days") =>
        /\ DayNumber(Following(call.args)) = call.result + 1
        /\ call.args = Date(1970, 1, 1) => call.result = 0

\* A day's 24:00:00, its 23:59:60 and the next day's 00:00:00 are one time, as
\* the comment of mktime64 allows to write it, and a day lasts 86400 seconds.
DayEnds ==
    /\ Called("begin") => call.result = DayNumber(call.args) * 86400
    /\ Called("end") => call.result = DayNumber(Following(call.args)) * 86400

\* mktime64 counts the days of the calendar, and the seconds of a day.
FollowsCalendar == CountsDays /\ DayEnds
=============================================================================
