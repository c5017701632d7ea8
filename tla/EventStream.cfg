CONSTANTS
  n1 = n1
  p1 = p1
  None = None
  Nodes = {n1, n2}
  Allocs = {a1}
  NodeOf <- MCNodeOf
  PoolOf <- MCPoolOf
  MaxEvents = 5
  MaxCrashes = 1
SPECIFICATION Spec
INVARIANTS TypeOK Converged
PROPERTIES CatchesUp
