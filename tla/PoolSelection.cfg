CONSTANTS
  Universe <- MCUniverse
  MaxPools = 3
  Orders = {o1, o2}
  Jobs <- MCJobs
  NilPool = NilPool
SPECIFICATION Spec
INVARIANTS TypeOK ChosenFits RejectsOnlyHopeless NoGroupLost DevicesLastResort
CHECK_DEADLOCK FALSE
