------------------------------ MODULE MCAlarms ------------------------------
(* Days of two seconds. The clock is set to the last second of a Saturday in     *)
(* February 1972, or to dates about leap days and the turn of a century.         *)
EXTENDS Alarms

MCTimes == {786 * SECS_PER_DAY + 1}
MCDate(y, m, d) ==
  [Second |-> 0, Minute |-> 0, Hour |-> 1, Day |-> d, Month |-> m, Year |-> y, Wday |-> 0]
MCDates == {MCDate(1972, 2, 29), MCDate(0, 3, 1), MCDate(2100, 2, 28), MCDate(99, 12, 31)}
MCDrifts == {1, -2}
=============================================================================
