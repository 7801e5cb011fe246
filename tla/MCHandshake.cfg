CONSTANTS
  HasRelay = TRUE
  InitEP <- NoEP
  MaxEph = 2
  Fuels <- RareEvents
SPECIFICATION Spec
INVARIANTS Agreement KeysInstalledOnce PendingHS3IsCurrent
PROPERTIES DirectSessionKept DirectAgreementKept AnswerIsProof OrderSpec
