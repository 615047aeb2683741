SPECIFICATION Spec
CONSTANTS
  u1 = u1
  u2 = u2
  Clients = {c1, c2}
  Users = {u1, u2}
  Rights <- MCRights
  Slots <- MCSlots
  MaxID = 14
  Loads <- RepoLoads
SYMMETRY Symm
INVARIANT DeletedIsGone
INVARIANT CreatedStays
INVARIANT RowsAgree
INVARIANT LikesCounted
CHECK_DEADLOCK FALSE
