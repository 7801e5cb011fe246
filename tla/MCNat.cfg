CONSTANTS
  Addrs <- TwoIPs
  TTL = 1
  MaxSockets = 2
SPECIFICATION FairSpec
INVARIANT SocketOwned
PROPERTIES FilterExact RunReturns
