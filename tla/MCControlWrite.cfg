CONSTANTS
  Broadcasters = {b1, b2}
  Repliers = {r1}
  Room = 2
  MaxWrites = 5
SPECIFICATION ConnFairSpec
CHECK_DEADLOCK FALSE
INVARIANTS InOrder TornIsEvicting
PROPERTY TornIsClosed
