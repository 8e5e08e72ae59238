SPECIFICATION FairSpec
CONSTANTS
  Fingerprints = {good, bad, empty}
  NoFingerprint = NoFingerprint
  NoPeer = NoPeer
  NoVideo = empty
  PeerCert = good
  PeerSuite = TRUE
  MaxCalls = 1
  StunLosses = 0
  DtlsLosses = 1
  Closes = FALSE
PROPERTY ComesUp
CHECK_DEADLOCK FALSE
