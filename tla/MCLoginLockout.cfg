SPECIFICATION Spec
CONSTANTS
  u1 = u1
  r1 = r1
  r2 = r2
  r3 = r3
  Nobody = Nobody
  Users <- OneUser
  Requests <- ThreeRequests
  Threshold = 3
  LockTicks = 2
  MaxFailures = 4
INVARIANTS TypeOK LockMatchesFailures OnlyInFlightPassLock
PROPERTIES LockEnds
