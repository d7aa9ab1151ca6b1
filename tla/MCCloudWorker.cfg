SPECIFICATION FairSpec
CONSTANTS
  Writers = {"worker", "once"}
  MinSamples = 1
  MaxInbox = 3
  MaxTroubles = 1
INVARIANTS VerdictIsFresh MarkedWasHanded
PROPERTY FingerprintIsRetained
CHECK_DEADLOCK FALSE
