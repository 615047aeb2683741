SPECIFICATION Spec
CONSTANTS
  Spaces = {s1}
  Models = {m1}
  Prebuilt = {m1}
  NoTarget = NoTarget
  Workers = {w1, w2}
  ChanCap = 0
  Clients = {c1}
  RunnerCodes <- AllCodes
  MaxDeploys = 1
  MaxTasks = 4
  MaxFaults = 1
  MaxRestarts = 0
SYMMETRY Symm
INVARIANT ExclusiveTask
INVARIANT ImageBeforeService
INVARIANT NoTaskSkipped
CHECK_DEADLOCK FALSE
