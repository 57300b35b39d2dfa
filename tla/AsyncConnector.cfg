SPECIFICATION FairSpec
CONSTANTS
  NHosts = 2
  MaxEndpoints = 2
INVARIANTS
  TypeOK
  StopClosesAll
  SilenceIsTimeout
  InTimeIsLogged
PROPERTIES
  TimeoutEndsRun
