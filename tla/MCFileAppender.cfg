\* Two loggers share a file appender; opening the file and writing may fail.
\* With null there are two patterns, which is enough to mistake one for another.
CONSTANTS
  t1 = t1
  t2 = t2
  l1 = l1
  l2 = l2
  f = f
  Thread = {t1, t2}
  NoThread = NoThread
  Loggers = {l1, l2}
  Pattern = {f}
  Initial = f
  NoPattern = NoPattern
SPECIFICATION AllFairSpec
INVARIANTS
  WritesFollowAnOpen
  OpenIsGood
  DefaultPattern
  PatternAsSet
PROPERTY Recovers
