SPECIFICATION Spec
CONSTANTS
  SentSeqs <- MCSentSeqs
  Refls <- MCRefls
  Buckets <- MCBuckets
  Paths <- MCPaths
  Departures <- MCDepartures
  LossTimeout = 9
  Offsets <- MCOffsets
  Width = 2
  Levels <- MCLevels
  RecordLimit = 2
  NoReflectedTTL = FALSE
  MaxAnswers = 3
INVARIANTS
  SummaryTypeOK
  RoundTripIsNetworkTime
  NegativeDelaysWarned
  PercentileHasItsRank
  SectionsAgree
