SPECIFICATION Spec
CONSTANTS
  a1 = a1
  a2 = a2
  a3 = a3
  f1 = f1
  f2 = f2
  f3 = f3
  r1 = r1
  r2 = r2
  Users <- OneUser
  Requests <- TwoRequests
  AccessJtis <- TwoAccess
  RefreshJtis <- TwoRefresh
  Ops <- AllOps
  Accounts <- Unchanging
  DbLag = 1
  CleanupPeriod = 1
  AccessTtl = 1
  RefreshTtl = 2
SYMMETRY Symmetry
INVARIANTS TypeOK RevocationKept NoLiveLeak
