CONSTANTS
  Size = 5
  WordBits = 2
  Nonces <- MCNonces
SPECIFICATION Spec
INVARIANT NoPanic
PROPERTIES NoReplay GateSpec
