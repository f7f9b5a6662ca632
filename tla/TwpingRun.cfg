SPECIFICATION FairSpec
CONSTANTS
  Configs <- MCConfigs
  ExchangeTimeout = 1
  CountWrap = 4
  ArgSets <- MCArgSets
INVARIANTS
  TypeOK
  AllReleased
  SavedRecordsWritten
  NoReportOfCutSession
PROPERTIES
  CancelEndsRun
  WatcherEnds
