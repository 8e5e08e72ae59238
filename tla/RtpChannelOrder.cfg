SPECIFICATION Spec
CONSTANTS
  SeqMod = 16
  MaxDistance = 3
  MaxBufferSize = 6
  BitSize = 2
  NackRtpSize = 1
  MaxNack = 3
  WrapWindow = 4
  NackMaxSize = 4
  NackMaxMS = 1
  NackMaxCount = 3
  RttInit = 1
  RttMin = 1
  RttMax = 1
  Source = 1
  Others = {}
  NoSsrc = 0
  OtherNumbers = {}
  Start = 8
  LastPacket = 10
  MaxSkip = 3
  MaxLate = 3
  Reach = 7
  AfterGivenUp = {9, 10}
  MaxAge = 7
  Stalls = TRUE
INVARIANTS
  TypeOK
PROPERTIES
  InOrder
CHECK_DEADLOCK FALSE
