CONSTANTS
  Procs = {p1, p2, p3}
  MaxRetries = 2
SPECIFICATION Spec
SYMMETRY Symmetry
INVARIANT OneIdentity
PROPERTY IdentityKept
