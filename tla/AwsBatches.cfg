CONSTANTS
  Instances = {i1, i2}
  Started = {i1}
  Restarts = {}
  Batch = 1
  MaxSize = 2
  MaxGrow = 1
  None = None
SPECIFICATION FairSpec
PROPERTY EveryBatchHandled
CHECK_DEADLOCK FALSE
