CONSTANTS
  Instances = {i1, i2}
  Started = {i1, i2}
  Adders = {g1, g2}
  MaxGrow = 2
  None = None
SPECIFICATION Spec
INVARIANTS TypeOK PoolNodesSeen
PROPERTIES RejectsNoLiveNode ImplementsProvider
