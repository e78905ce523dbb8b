\* Two threads log to the root, directly or through a child without appenders.
CONSTANTS
  t1 = t1
  t2 = t2
  root = root
  child = child
  stdout = stdout
  a = a
  Thread = {t1, t2}
  NoThread = NoThread
  Loggers = {root, child}
  Root = root
  Appender = {stdout, a}
  NoAppender = NoAppender
  Stdout = stdout
  Rootless = {root}
  Homes <- RootHome
  Level = {1, 2}
  Lowest = 1
  MaxEvents = 2
  MaxLen = 2
SYMMETRY Sym
SPECIFICATION Spec
INVARIANTS
  SameOrder
  IInv
PROPERTY OnlyAttachedWrite
