\* Two setting threads, listeners that do not throw.
CONSTANTS
  t1 = t1
  t2 = t2
  t3 = t3
  NoThread = NoThread
  Thread = {t1, t2, t3}
  Setters = {t1, t2}
  Value = {0, 1, 2}
  InitVal = 0
  NoVal = NoVal
  MaxId = 2
  CanThrow = FALSE
SPECIFICATION Spec
INVARIANT ListenersAgreeAtRest
