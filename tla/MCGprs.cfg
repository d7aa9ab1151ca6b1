SPECIFICATION GprsSpec
CONSTANTS
  SECS_PER_MIN = 1
  MINS_PER_HOUR = 1
  HOURS_PER_DAY = 2
  LastYear = 136
  TimeoutMod = 66
  ClockMod = 1000
  Delays = {1, 30}
  Quick = 1
  CountMod = 256
  Lengths = {1, 150, 300}
  resultlength = 200
  RtcTimes <- MCRtcTimes
INVARIANTS
  ReportIsItsOwn
PROPERTIES
  NetworkComesBack HttpComesBack
