SPECIFICATION Spec
CONSTANTS
  Absent = Absent
  i1 = i1
  i2 = i2
  i3 = i3
  Ids <- ThreeIds
  Keys <- SmallKeys
  Asked <- SmallSizes
  Kinds <- TwoKinds
  Default = 1
  Largest = 2
SYMMETRY Symmetry
INVARIANTS TypeOK NothingMissed NothingTwice SizesInBounds
