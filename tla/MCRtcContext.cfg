SPECIFICATION FairSpec
CONSTANTS
  Fingerprints = {good, bad, empty}
  NoFingerprint = NoFingerprint
  NoPeer = NoPeer
  NoVideo = empty
  PeerCert = good
  PeerSuite = TRUE
  MaxCalls = 2
  StunLosses = 1
  DtlsLosses = 1
  Closes = TRUE
INVARIANTS
  ContextTypeOK
  MediaIsFromTheAnsweredPeer
  SendsNeedASocket
PROPERTIES
  DestroyEnds
  ComesUpOverLostStun
CHECK_DEADLOCK FALSE
