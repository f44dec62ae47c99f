SPECIFICATION SafeSpec
CONSTANTS
  t1 = t1
  t2 = t2
  Thread = {t1, t2}
  Main = Main
  None = None
  N = 2
INVARIANT CurvesSeparated
