SPECIFICATION FairSpec
CONSTANT MaxRuns = 3
INVARIANTS
  TypeOK
  ConsumedBeforeRun
  HandledCrashIsOnDisk
  OrderlyRunReports
PROPERTIES
  ForgetsOnlyInWindows
  CrashEnds
  ReportReachesLog
