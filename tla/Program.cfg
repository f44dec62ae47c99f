SPECIFICATION Spec
CONSTANTS
  BITS = 3
  HasElement = {3, 7, 10, 15, 43}
  MaxRoots = 2
  Addresses = {1, 2}
  MaxB = 5
  MaxItems = 5
  MaxCount = 2
  Jobs <- MCJobs
INVARIANTS
  RootsMatch
  ArrayWritten
  EverythingFreed
PROPERTIES
  Advances
  InputEnds
CHECK_DEADLOCK FALSE
