CONSTANTS
  t1 = t1
  t2 = t2
  n1 = n1
  n2 = n2
  a1 = a1
  a2 = a2
  Threads = {t1, t2}
  Warmers = {}
  Nodes = {n1}
  Allocs <- MCAllocs
  NodeOf <- MCNodeOf
  JobOf <- MCJobOf
  Want = 1
  Cap = 2
  MaxWarm = 1
  Free = Free
  None = None
SPECIFICATION Spec
INVARIANTS TypeOK EphemeralsOwned EveryPlacementCounted
