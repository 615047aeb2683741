SPECIFICATION FairSpec
CONSTANTS
  Spaces = {s1}
  Models = {m1}
  Prebuilt = {m1}
  NoTarget = NoTarget
  Workers = {w1, w2}
  ChanCap = 0
  Clients = {c1}
  RunnerCodes <- QuickCodes
  MaxDeploys = 1
  MaxTasks = 2
  MaxFaults = 1
  MaxRestarts = 1
PROPERTY TaskEventuallyTaken
PROPERTY WorkerReturns
CHECK_DEADLOCK FALSE
