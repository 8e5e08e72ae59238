SPECIFICATION Spec
CONSTANTS
  Answers <- MCAnswers
  MaxAnswers = 2
  SeqMod = 8
  HighEdge = 4
  LowEdge = 2
  MinCycle = 1
  Source = 1
  Other = 4
  OtherNumbers = {3}
  MixBound = 1
  Start = 5
  LastPacket = 14
  MaxSkip = 1
  MaxLate = 1
INVARIANTS
  TypeOK
  OnlyMediaIsDecoded
PROPERTIES
  FeedbackTellsTheTruth
CHECK_DEADLOCK FALSE
