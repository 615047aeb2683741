SPECIFICATION LiveSpec
CONSTANTS
  Services = {s1, s2}
  Billable = {s1}
  Consumers = {c1}
  PublishTries = 3
  SaveTries = 3
  MoveTries = 5
  FailedLimit = 1
  Batch = 2
  MaxEvents = 1
  MaxMsgs = 2
  MaxForeign = 1
  MaxFaults = 8
  MaxCrashes = 1
PROPERTY ImplementsLedger
INVARIANT AckedIsKept
PROPERTY AllAcked
CHECK_DEADLOCK FALSE
