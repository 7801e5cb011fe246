CONSTANTS
  Names = {n1, n2}
  Addrs = {a1, a2}
  FrameLens = {1, 3}
  Header = 1
  Second = 2
  PinGrace = 2
  MaxPPS <- Disabled
  MaxBytesPS = 4
  NameQuotaBytes = 2
  GlobalMaxPPS <- Disabled
  GlobalMaxBytesPS = 4
  SweepThreshold = 4
SPECIFICATION Spec
SYMMETRY Symmetry
INVARIANTS TypeOK AtMostTwoQuotas
PROPERTIES PinHeld GrowthIsPruned
