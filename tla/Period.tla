------------------------------- MODULE Period --------------------------------
(***************************************************************************)
(* The period of a history query: dateToTimestamp and getDaysInMonth       *)
(* (src/src/history.cpp) with the spans that createRequestExample sets.    *)
(*                                                                         *)
(* Times are whole hours of standard time since 1970, local; a wall clock  *)
(* is one hour ahead of them in summer.  The calendar of the C library     *)
(* (localtime, mktime) is external; its summer time is that of today's     *)
(* European rules, the change being at two o'clock of standard time.       *)
(***************************************************************************)
EXTENDS Integers

HistoryTypes == {"day", "week", "month", "year"}

IsLeapYear(year) == (year % 4 = 0 /\ year % 100 # 0) \/ year % 400 = 0

getDaysInMonth(month, year) ==
  IF month = 2 /\ IsLeapYear(year) THEN 29
  ELSE <<31, 28, 31, 30, 31, 30, 31, 31, 30, 31, 30, 31>>[month]

-----------------------------------------------------------------------------
(* The calendar *)

LeapYearsTo(year) == year \div 4 - year \div 100 + year \div 400

DayNumber(year, month, day) ==
  365 * (year - 1970) + LeapYearsTo(year - 1) - LeapYearsTo(1969)
    + <<0, 31, 59, 90, 120, 151, 181, 212, 243, 273, 304, 334>>[month]
    + (IF month > 2 /\ IsLeapYear(year) THEN 1 ELSE 0)
    + day - 1

WeekDay(dayNumber) == (dayNumber + 4) % 7          \* tm_wday: 0 is Sunday

LastSunday(year, month) ==                         \* of a month of 31 days
  DayNumber(year, month, 31) - WeekDay(DayNumber(year, month, 31))

IsSummer(year, hour) == /\ hour >= 24 * LastSunday(year, 3) + 2
                        /\ hour < 24 * LastSunday(year, 10) + 2

Isdst(year, hour) == IF IsSummer(year, hour) THEN 1 ELSE 0

\* The hour at which wall clocks show wall, tm_isdst being given or -1.
Mktime(year, wall, isdst) ==
  IF isdst = -1 THEN wall - Isdst(year, wall) ELSE wall - isdst

Localtime(year, hour) == hour + Isdst(year, hour)

-----------------------------------------------------------------------------
(* dateToTimestamp.  tm_isdst is that of the present moment for "today"    *)
(* and -1 for a date of its own.                                           *)

\* Slip: a Sunday is taken for the first day of the week to come.
DaysToMondayFromSunday(wday) == wday - 1

DaysToMonday(wday) == IF wday = 0 THEN 6 ELSE wday - 1

WeekStart(date, isdst) ==
  LET start  == Mktime(date.year, 24 * DayNumber(date.year, date.month, date.day), isdst)
      wall   == Localtime(date.year, start)            \* mktime normalises its argument
      monday == wall - 24 * DaysToMonday(WeekDay(wall \div 24))
  IN Mktime(date.year, monday, Isdst(date.year, start))

dateToTimestamp(date, type, isdst) ==
  CASE type = "day"   -> Mktime(date.year, 24 * DayNumber(date.year, date.month, date.day), isdst)
    [] type = "week"  -> WeekStart(date, isdst)
    [] type = "month" -> Mktime(date.year, 24 * DayNumber(date.year, date.month, 1), isdst)
    [] type = "year"  -> Mktime(date.year, 24 * DayNumber(date.year, 1, 1), isdst)

\* historieSpan, in days; that of a year is always 365 of them.
HistorySpan(date, type) ==
  CASE type = "day"   -> 1
    [] type = "week"  -> 7
    [] type = "month" -> getDaysInMonth(date.month, date.year)
    [] type = "year"  -> 365

\* historieInterval, in quarters of an hour.
HistoryInterval(type) ==
  CASE type = "day"   -> 1
    [] type = "week"  -> 4
    [] type = "month" -> 96
    [] type = "year"  -> 672

-----------------------------------------------------------------------------
(* What the words mean: the days of the period a date lies in. *)

NextMonth(date) == IF date.month = 12 THEN DayNumber(date.year + 1, 1, 1)
                   ELSE DayNumber(date.year, date.month + 1, 1)

PeriodOf(date, type) ==
  LET today == DayNumber(date.year, date.month, date.day)
  IN CASE type = "day"   -> {today}
       [] type = "week"  -> {d \in today - 6..today + 6 : (d + 3) \div 7 = (today + 3) \div 7}
       [] type = "month" -> DayNumber(date.year, date.month, 1)..(NextMonth(date) - 1)
       [] type = "year"  -> DayNumber(date.year, 1, 1)..(DayNumber(date.year + 1, 1, 1) - 1)

Midnight(year, dayNumber) == 24 * dayNumber - Isdst(year, 24 * dayNumber)
=============================================================================
