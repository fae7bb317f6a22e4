SPECIFICATION Spec
CONSTANTS
  e1 = e1
  e2 = e2
  e3 = e3
  e4 = e4
  Entries <- FourEntries
  QueueSize = 2
INVARIANTS TypeOK
PROPERTIES ImplementsTrail CleanExit EntriesSettled ShutdownEnds
