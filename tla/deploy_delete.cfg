SPECIFICATION FairSpec
CONSTANTS
  Spaces = {s1}
  Models = {}
  Prebuilt = {}
  NoTarget = NoTarget
  Workers = {w1, w2, w3}
  ChanCap = 0
  Clients = {c1}
  RunnerCodes <- QuickCodes
  MaxDeploys = 1
  MaxTasks = 2
  MaxFaults = 0
  MaxRestarts = 0
PROPERTY DeletedSpaceStops
CHECK_DEADLOCK FALSE
