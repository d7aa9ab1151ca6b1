SPECIFICATION FairSpec
CONSTANTS
  PublishTicks = 5
  HeartbeatTicks = 10
  ListenTicks = 2
  SimRetryTicks = 3
  RetryDelayTicks = 2
  RadioRetryMax = 2
  SimInitTries = 2
  Wrap = 19
  MaxStall = 1
PROPERTIES TimesKept GoesOn
