SPECIFICATION LiveSpec
CONSTANTS
  c1 = c1
  c2 = c2
  p1 = p1
  p2 = p2
  p3 = p3
  n1 = n1
  n2 = n2
  n3 = n3
  n4 = n4
  Clients = {c1, c2}
  Persons = {p1, p2, p3}
  CasName <- MCCasName
  Wechat = {p2}
  Names = {n1, n2, n3, n4}
  Parts = 2
  MaxTries = 3
  MaxID = 10
  Loads <- AccountLoads
INVARIANT OneAccount
INVARIANT NamesAgree
INVARIANT RefreshedIsDead
PROPERTY UserGone
CHECK_DEADLOCK FALSE
