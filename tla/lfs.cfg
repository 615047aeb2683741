SPECIFICATION LiveSpec
CONSTANTS
  c1 = c1
  c2 = c2
  Clients = {c1, c2}
  Repos = {r1, r2}
  Oids = {o1}
  Paths = {p1}
  Content = 2
  MaxLocks = 3
  Loads <- LfsLoads
INVARIANT LinksLeadSomewhere
INVARIANT DoneHasRow
PROPERTY OwnLockStays
PROPERTY ImplementsPathLocks
PROPERTY Pushed
CHECK_DEADLOCK FALSE
