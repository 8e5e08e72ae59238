SPECIFICATION Spec
CONSTANTS
  SeqMod = 34
  MaxDistance = 6
  MaxBufferSize = 6
  BitSize = 1
  NackRtpSize = 1
  MaxNack = 2
  WrapWindow = 12
  NackMaxSize = 2
  NackMaxMS = 0
  NackMaxCount = 2
  RttInit = 0
  RttMin = 0
  RttMax = 0
  Source = 1
  Others = {2}
  NoSsrc = 0
  OtherNumbers = {12}
  Start = 24
  LastPacket = 12
  MaxSkip = 8
  MaxLate = 0
  Reach = 9
  AfterGivenUp = {}
  MaxAge = 1
  Stalls = TRUE
INVARIANTS
  AsksOnlyForThePast
PROPERTIES
  GivenUpOnlyAfterAsking
CHECK_DEADLOCK FALSE
