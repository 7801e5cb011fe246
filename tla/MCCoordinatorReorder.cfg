CONSTANTS
  c1 = c1
  c2 = c2
  c3 = c3
  a = a
  b = b
  x = x
  Conns = {c1, c2, c3}
  IDs = {a, b}
  KeyOf <- MCKeyOf
  MayRegister <- OwnName
  MaxRegistrations = 2
  MaxMsgs = 1
SPECIFICATION Spec
CHECK_DEADLOCK FALSE
INVARIANT EveryoneKnown
