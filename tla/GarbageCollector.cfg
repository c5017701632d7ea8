CONSTANTS
  p1 = p1
  n1 = n1
  n2 = n2
  Pools = {p1}
  Nodes = {n1, n2}
  PoolOf <- MCPoolOf
  CiclesToGc = 2
  Allowed <- MCAllowed
  Flaky = {n1}
  MaxReaders = 1
  None = None
SPECIFICATION FairSpec
INVARIANTS TypeOK CountsConsecutive ReserveKept
PROPERTIES RemovedWasIdle SurplusCollected
