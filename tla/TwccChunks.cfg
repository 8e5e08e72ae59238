SPECIFICATION Spec
CONSTANTS
  VectorBits = 14
  MinRun = 7
  MaxRun = 8191
  SeqMod = 65536
  Ahead = 32767
  Wrap = 65280
  MaxSeqSize = 20
  MaxTimeDelta = 256
  RefTick = 64
  SmallMax = 63
  DeltaMod = 16384
  PktCountMod = 256
  Start = 65533
  LastPacket = 10
  MaxArrivals = 6
  MaxLate = 0
  MaxLost = 1
  Pauses = {20, 200}
INVARIANT ChunksFit
CHECK_DEADLOCK FALSE
