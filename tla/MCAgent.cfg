CONSTANTS
  p = p
  q = q
  IDs = {p, q}
  Overlay <- MCOverlay
  RecvCap = 1
  MaxConns = 2
  MaxInc = 2
  MaxInbox = 1
  Workloads <- MCWorkloads
SPECIFICATION FairSpec
CHECK_DEADLOCK FALSE
INVARIANTS TypeOK TrackedServed RouteExact NoWaiterLeft
PROPERTIES ReplacementKept NothingSentOnClosed GoroutinesEnd ControlLoopRuns
