SPECIFICATION SafeSpec
CONSTANT Jobs <- MCJobs
INVARIANTS
  ReadsCurrent
  Complete
  StackBounded
  NoDangling
  LeaksOnlyAtStart
