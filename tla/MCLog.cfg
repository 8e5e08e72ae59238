SPECIFICATION Spec
CONSTANTS
  Threads = {t1, t2}
  Lengths = {1, 2}
  FirstBuffers = 2
  MaxBuffers = 3
  Room = 2
  RollSize = 2
  MaxLines = 5
  MaxDays = 1
  MaxFaults = 1
  Preempted = FALSE
INVARIANTS
  TypeOK
  PersistsTheCurrent
PROPERTIES
  KeepsTheLog
CHECK_DEADLOCK FALSE
