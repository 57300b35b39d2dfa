SPECIFICATION FairSpec
CONSTANT MaxDepth = 4
INVARIANTS
  TypeOK
  SignalsReach
  NoTimerLeft
  OutcomeKept
PROPERTY EndsByTimeout
