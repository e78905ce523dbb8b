\* Two threads reload two loggers, also at the same time.
CONSTANTS
  t1 = t1
  t2 = t2
  NoThread = NoThread
  Thread = {t1, t2}
  LoggerName <- MCNames
  Thrown = Thrown
  NoDef = NoDef
  Texts <- MCTexts
  NoVal = NoVal
  Debug = 1
  Default = "default"
  Valid <- MCValid
SPECIFICATION Spec
INVARIANTS
  TypeOK
  FollowsLogger
  ConfiguredAtRest
  SavedRestores
  DumpKeepsOutline
PROPERTY ImplementsConfigVar
