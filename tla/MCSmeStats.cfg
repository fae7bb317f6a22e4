SPECIFICATION Spec
CONSTANTS
  s1 = s1
  w1 = w1
  w2 = w2
  q1 = q1
  Smes <- OneSme
  Writers <- TwoWriters
  Readers <- OneReader
  Attrs <- TwoAttrs
  Values <- MCValues
  Active <- MCActive
  CacheTtl = 2
INVARIANTS TypeOK CacheCurrent
PROPERTIES DeletedForGood CacheSettles StatsAnswered ImplementsView
