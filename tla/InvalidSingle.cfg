SPECIFICATION Spec
CONSTANTS
  None = None
  N = 3
INVARIANTS
  NoAliasing
  SavedLive
  NothingLeaks
  ArrayComplete
PROPERTIES
  ImplementsInvalidCurves
  Terminates
