SPECIFICATION FairSpec
CONSTANT MaxOps = 2
INVARIANTS
  TypeOK
  TimeoutStillComing
  FiredIsDelivered
  ParentIsHeard
  NoDanglingForward
  Escalates
PROPERTIES
  Implements
