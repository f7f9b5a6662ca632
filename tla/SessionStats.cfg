SPECIFICATION Spec
CONSTANTS
  NPackets = 2
  SentSeqs <- MCSentSeqs
  Refls <- MCRefls
  Buckets <- TwoBuckets
  MaxFwd = 2
  MaxBck = 2
INVARIANTS
  TypeOK
  PacketsCountedOnce
  DuplicatesClassified
  RangeOfRecords
  AddAccepts
