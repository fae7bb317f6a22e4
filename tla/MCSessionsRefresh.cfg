SPECIFICATION Spec
CONSTANTS
  a1 = a1
  a2 = a2
  a3 = a3
  f1 = f1
  f2 = f2
  f3 = f3
  r1 = r1
  r2 = r2
  Users <- OneUser
  Requests <- TwoRequests
  AccessJtis <- OneAccess
  RefreshJtis <- OneRefresh
  Ops <- AllOps
  Accounts <- Restrictable
  DbLag = 1
  CleanupPeriod = 2
  AccessTtl = 1
  RefreshTtl = 2
INVARIANTS FreshPermissions
PROPERTIES RowsCleaned
