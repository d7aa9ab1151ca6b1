SPECIFICATION FairSpec
CONSTANTS
  Rates <- BaudRates
  SimInitTries = 10
  AutobaudTries = 3
  CregTries = 20
  MaxReboots = 2
INVARIANTS InitializedHears CalmBringUp
PROPERTY BringUpEnds
CHECK_DEADLOCK FALSE
