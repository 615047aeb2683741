SPECIFICATION FairSpec
CONSTANTS
  Procs = {p1, p2, p3}
  Waiters = {p1}
  Nobody = Nobody
  Expiration = 2
  MaxCalls = 2
INVARIANT OneInLease
PROPERTY CleanRelease
PROPERTY ImplementsLease
PROPERTY LockFreed
CHECK_DEADLOCK FALSE
