CONSTANTS
  HasRelay = TRUE
  InitEP <- BothEP
  MaxEph = 7
  Fuels <- LiveFuels
  Networks <- LiveNetworks
SPECIFICATION LiveSpec
CONSTRAINT UntilAgreed
PROPERTIES ConvergesWhenOpen MeetOverRelay
