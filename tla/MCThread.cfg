\* An owner and three threads; the system stops when all is destroyed.
CONSTANTS
  o1 = o1
  o2 = o2
  o3 = o3
  Objects = {o1, o2, o3}
  Nobody = Nobody
SPECIFICATION FairSpec
CHECK_DEADLOCK FALSE
INVARIANTS
  ReadyOnReturn
  SetUpUsesLiveObject
  HandleReleased
  JoinedIsQuiet
  IInv
PROPERTY ConstructorReturns
