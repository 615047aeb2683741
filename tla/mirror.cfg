SPECIFICATION LiveSpec
CONSTANTS
  Repos = {r1, r2}
  Existing = {r1}
  Objs = {o1}
  Pointers <- SomePointers
  RepoWorkers = {v1, v2}
  LfsWorkers = {w1, w2}
  Clients = {c1}
  MaxMirrors = 2
  MaxCalls = 3
  Loads <- SomeLoads
INVARIANT SyncedWasFetched
INVARIANT QuietSettled
INVARIANT QuietComplete
PROPERTY Drained
CHECK_DEADLOCK FALSE
