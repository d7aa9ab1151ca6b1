------------------------------ MODULE Calendar ------------------------------
(***************************************************************************)
(* breakTime and makeTime of the Time library: dates since 1970 and back,  *)
(* and the midnights and Sundays that alarms are computed from.            *)
(***************************************************************************)
EXTENDS Integers, FiniteSets

CONSTANTS
  SECS_PER_MIN, MINS_PER_HOUR, HOURS_PER_DAY,  \* 60, 60 and 24
  LastYear                                     \* bound: years since 1970

ASSUME CalendarAssumption ==
  {SECS_PER_MIN, MINS_PER_HOUR, HOURS_PER_DAY, LastYear} \subseteq Nat \ {0}

SECS_PER_HOUR == SECS_PER_MIN * MINS_PER_HOUR
SECS_PER_DAY  == SECS_PER_HOUR * HOURS_PER_DAY
DAYS_PER_WEEK == 7
SECS_PER_WEEK == SECS_PER_DAY * DAYS_PER_WEEK
SECS_PER_YEAR == SECS_PER_WEEK * 52

previousMidnight(t) == (t \div SECS_PER_DAY) * SECS_PER_DAY
nextMidnight(t)     == previousMidnight(t) + SECS_PER_DAY
dayOfWeek(t)        == ((t \div SECS_PER_DAY + 4) % DAYS_PER_WEEK) + 1

\* The macro evaluates its argument three times.
SundayBefore(t1, t2, t3) ==
  t1 - ((t2 % SECS_PER_DAY) + (dayOfWeek(t3) - 1) * SECS_PER_DAY)

previousSunday(t) == SundayBefore(t, t, t)
nextSunday(t)     == previousSunday(t) + SECS_PER_WEEK

LEAP_YEAR(y) ==
  /\ (1970 + y) % 4 = 0
  /\ (1970 + y) % 100 # 0 \/ (1970 + y) % 400 = 0

YearLength(y) == IF LEAP_YEAR(y) THEN 366 ELSE 365

\* Days before a year and, by the sums of the month lengths, before a month of it.
DaysToYear ==
  [i \in 1..(LastYear + 2) |->
     (i - 1) * 365 + Cardinality({y \in 0..(i - 2) : YearLength(y) = 366})]

monthDays == <<31, 28, 31, 30, 31, 30, 31, 31, 30, 31, 30, 31>>

MonthLength(m, leap) == IF m = 2 /\ leap THEN 29 ELSE monthDays[m]

DaysToMonth ==
  [leap \in BOOLEAN |->
     LET start[i \in 1..13] == IF i = 1 THEN 0 ELSE start[i - 1] + MonthLength(i - 1, leap)
     IN  start]

\* The first entry that is beyond n: where the loops of breakTime stop.
FirstBeyond(sums, n) ==
  CHOOSE i \in DOMAIN sums : sums[i] > n /\ (i > 1 => sums[i - 1] <= n)

breakTime(t) ==
  LET days  == t \div SECS_PER_DAY
      year  == FirstBeyond(DaysToYear, days) - 2
      start == DaysToMonth[LEAP_YEAR(year)]
      day   == days - DaysToYear[year + 1]
      month == FirstBeyond(start, day) - 1
  IN  [Second |-> t % SECS_PER_MIN,
       Minute |-> (t \div SECS_PER_MIN) % MINS_PER_HOUR,
       Hour   |-> (t \div SECS_PER_HOUR) % HOURS_PER_DAY,
       Wday   |-> dayOfWeek(t),
       Year   |-> year, Month |-> month, Day |-> day - start[month] + 1]

LeapsBefore(y) == Cardinality({i \in 0..(y - 1) : LEAP_YEAR(i)})

makeTime(tm) ==
  (tm.Year * 365 + LeapsBefore(tm.Year) + DaysToMonth[LEAP_YEAR(tm.Year)][tm.Month] + tm.Day - 1)
    * SECS_PER_DAY
  + tm.Hour * SECS_PER_HOUR + tm.Minute * SECS_PER_MIN + tm.Second

\* The times that the table of years reaches.
InYears(t) == t \div SECS_PER_DAY < DaysToYear[LastYear + 2]

\* The year argument of setTime: four digits, or two.
YearSince1970(yr) == IF yr > 99 THEN yr - 1970 ELSE yr + 30
=============================================================================
