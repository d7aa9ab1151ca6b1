SPECIFICATION AlarmsSpec
CONSTANTS
  SECS_PER_MIN = 1
  MINS_PER_HOUR = 1
  HOURS_PER_DAY = 2
  LastYear = 136
  MillisPerSecond = 2
  MillisMod = 8
  Intervals = {3}
  FirstInterval = 3
  Drifts <- MCDrifts
  Times <- MCTimes
  Dates <- MCDates
  MaxReal = 8
  dtNBR_ALARMS = 2
  Values = {0, 1}
  MaxCalls = 2
INVARIANTS ClockIsTrue SlotsAreSound
PROPERTIES FiresWhenMeant DueIsServed
CHECK_DEADLOCK FALSE
