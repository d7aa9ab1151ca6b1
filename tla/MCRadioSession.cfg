SPECIFICATION FairSpec
CONSTANTS
  RadioRetryMax = 2
  ClockSet = TRUE
  Leaking = TRUE
  MaxWakes = 2
  MaxLoops = 2
  MaxCommands = 1
INVARIANTS FlagIsHonest AckedThisConnection RadioIsDown
PROPERTY UseEnds
CHECK_DEADLOCK FALSE
