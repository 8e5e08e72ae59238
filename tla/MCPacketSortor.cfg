SPECIFICATION Spec
CONSTANTS
  SeqMod = 16
  MaxDistance = 3
  MaxBufferSize = 4
INVARIANTS
  TypeOK
  OnlyZeroIsHeld
  BufferBound
PROPERTIES
  NoLossWithinReach
  ForwardOnly
