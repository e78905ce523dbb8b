\* One thread uses the table and logs while another reloads the configuration.
CONSTANTS
  t1 = t1
  r = r
  root = root
  l1 = l1
  l2 = l2
  own = own
  stdout = stdout
  a = a
  b = b
  Thread = {t1, r}
  Reloader = r
  NoThread = NoThread
  Loggers = {root, l1, l2, own}
  Root = root
  Rootless = {root, own}
  Appender = {stdout, a, b}
  NoAppender = NoAppender
  Stdout = stdout
  Homes <- MCHomes
  Level = {0, 1, 2}
  Lowest = 1
  MaxEvents = 2
  MaxLen = 2
  Names <- MCNames
  RootName = "root"
  NoName = NoName
  KeyOf <- MCKeyOf
  NoLogger = NoLogger
  NoDef = NoDef
  Info = 1
  Configs <- MCConfigs
  MaxReloads = 2
SPECIFICATION SysFairSpec
INVARIANTS
  OneLoggerPerName
  FallbackStillDue
PROPERTIES
  DeliveredAsConfigured
  NeverVanishes
  ReloadReturns
  LogReturns
