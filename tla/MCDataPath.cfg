CONSTANTS
  Size = 3
  WordBits = 2
  RekeyEvery = 2
  MaxEpochJump = 1
  MaxNonce = 5
  RecvCap = 1
  Keepalives = {1}
  MaxSession = 2
SPECIFICATION Spec
INVARIANTS NonceOnce NeverAhead NextFrameAccepted
PROPERTY OnceSpec
