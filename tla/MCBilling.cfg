SPECIFICATION BillingSpec
CONSTANTS
  PulsesPerLiter = 3
  ULong = 1000000
  TornSaves = TRUE
  MaxPulses = 4
  MaxReadings = 4
  MaxBucket = 2
  MaxRestarts = 2
INVARIANTS ShownAgainAtMostOnce BucketIsCovered
CHECK_DEADLOCK FALSE
