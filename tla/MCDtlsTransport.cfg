SPECIFICATION Spec
CONSTANTS
  Fingerprints = {f1, f2, f3, f4}
  NoFingerprint = NoFingerprint
  NoPeer = NoPeer
INVARIANTS
  TypeOK
  RoleWhileRunning
  DoneIsProcessed
PROPERTIES
  IsSecureChannel
