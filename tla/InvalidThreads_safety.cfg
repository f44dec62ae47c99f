SPECIFICATION SafeSpec
CONSTANTS
  t1 = t1
  t2 = t2
  Thread = {t1, t2}
  Main = Main
  None = None
  N = 3
SYMMETRY ThreadSymmetry
INVARIANTS
  ClaimsExclusive
  CounterExact
  PublishedLive
  NoLostSignal
  WrittenOnce
  SeparatorsBetween
PROPERTIES
  PublishedStays
