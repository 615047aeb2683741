SPECIFICATION Spec
CONSTANTS
  Spaces = {s1, s2}
  Models = {}
  Prebuilt = {}
  NoTarget = NoTarget
  Workers = {w1, w2, w3}
  ChanCap = 0
  Clients = {c1, c2}
  RunnerCodes <- QuickCodes
  MaxDeploys = 2
  MaxTasks = 2
  MaxFaults = 0
  MaxRestarts = 0
SYMMETRY Symm
INVARIANT NoTaskSkipped
CHECK_DEADLOCK FALSE
