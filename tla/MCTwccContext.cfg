SPECIFICATION Spec
CONSTANTS
  VectorBits = 4
  MinRun = 2
  MaxRun = 3
  SeqMod = 16
  Ahead = 7
  Wrap = 10
  MaxSeqSize = 5
  MaxTimeDelta = 4
  RefTick = 2
  SmallMax = 1
  DeltaMod = 16
  PktCountMod = 4
  Start = 11
  LastPacket = 10
  MaxArrivals = 7
  MaxLate = 2
  MaxLost = 2
  Pauses = {0, 1, 3}
INVARIANTS
  TypeOK
  WaitingIsBounded
PROPERTIES
  MessagesTellTheTruth
  NewestIsNoted
CHECK_DEADLOCK FALSE
