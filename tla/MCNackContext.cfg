SPECIFICATION MCSpec
CONSTANTS
  SeqMod = 8
  BitSize = 2
  NackRtpSize = 1
  MaxNack = 2
  WrapWindow = 2
  NackMaxSize = 2
  NackMaxMS = 2
  NackMaxCount = 3
  RttInit = 1
  RttMin = 1
  RttMax = 2
INVARIANTS
  TypeOK
PROPERTIES
  NoGapSkipped
  RetriesAreSpaced
  RetriesGoOn
