SPECIFICATION FairSpec
CONSTANT NEndpoints = 3
INVARIANTS
  TypeOK
  AbortIsOwnTimeout
  ReturnLogsAll
  NoTimerOutlives
PROPERTIES
  RunEnds
  EachIsAToken
