SPECIFICATION MCSpec
CONSTANTS
  a = a
  b = b
  Garbage = Garbage
  Items <- MCItems
  InitialCapacity = 2
  MaxCapacity = 8
  Keys = {1, 2, 3, 4, 5}
  Values = {1, 2}
  Null = 0
  HashOf <- MCHashOf
  BaseBuckets = 1
  MaxBuckets = 8
  Letters = {"a", "b"}
  MaxDelim = 5
  MaxLine = 6
INVARIANTS
  TypeOK
  NoGarbage
  HashIteratesAll
  FailIsLongest
  SplitsAtFirst
PROPERTIES
  IsFifo
  HashIsDict
\* A line is split in the end, and Kmp stops.
CHECK_DEADLOCK FALSE
