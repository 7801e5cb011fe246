CONSTANTS
  c1 = c1
  c2 = c2
  c3 = c3
  a = a
  b = b
  x = x
  Conns = {c1, c2, c3}
  IDs = {a, b, x}
  KeyOf <- MCKeyOf
  MayRegister <- Names
  MaxRegistrations = 2
  MaxMsgs = 1
SPECIFICATION Spec
CHECK_DEADLOCK FALSE
INVARIANTS TypeOK NothingLeftBehind EveryoneTold
PROPERTY NameHeld
