CONSTANTS
  Instances = {i1, i2}
  Started = {i1}
  Restarts = {i2}
  Batch = 20
  MaxSize = 2
  MaxGrow = 1
  None = None
SPECIFICATION FairSpec
INVARIANTS TypeOK NoLeak
PROPERTIES RejectsNoMember ImplementsProvider CallsReturn
CHECK_DEADLOCK FALSE
