SPECIFICATION MCSpec
CONSTANTS
  NPackets = 3
  MaxRecords = 5
INVARIANTS
  LossesInOrder
  Accounted
