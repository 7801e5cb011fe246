CONSTANTS
  HasRelay = TRUE
  InitEP <- BothEP
  MaxEph = 2
  Fuels <- LiveFuels
  Networks <- HalfOpenNetworks
SPECIFICATION LiveSpec
PROPERTY HS3Recovers
