SPECIFICATION FairSpec
CONSTANTS
  SampleTicks = 1
  SaveTicks = 2
  StoredPulses = 254
  BlankEeprom = FALSE
  Bursts = {1}
  MaxEdges = 3
  MaxPublishes = 1
  MaxCrashes = 2
INVARIANTS TypeOK NoPhantomPulses StoredValveMatches
PROPERTIES PulsesConserved KeepsAccount CountedIsSaved
