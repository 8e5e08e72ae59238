SPECIFICATION MediaSpec
CONSTANTS
  SeqMod = 8
  Start = 3
  LastPacket = 7
  MaxLoss = 7
  MaxPieces = 3
  Kinds = {"idr", "idrRest", "slice"}
  Odd = {"cut", "unsupported"}
  MaxFrameSize = 2
  LastAudio = 7
  Groups <- MCGroups
  FirstPts = {0, 2}
  PictureTime = 2
  LastPicture = 16
INVARIANTS
  MediaTypeOK
PROPERTIES
  NoTornMedia
  GopIsWhole
  OnlyTornGopsAreDropped
  SlicesFollowTheirKeyFrame
  ToldWithItsSets
  DtsIncreases
CHECK_DEADLOCK FALSE
