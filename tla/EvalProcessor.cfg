CONSTANTS
  j1 = j1
  j2 = j2
  MaxEval = 3
  Jobs <- MCJobs
  Evals <- MCEvals
  JobOf <- MCJobOf
  Threads = {t1, t2}
  DoneCap = 1
  Purgeable = {j2}
  None = None
SPECIFICATION FairSpec
CHECK_DEADLOCK FALSE
INVARIANTS TypeOK EventsAccounted ChainsAccounted
PROPERTIES SummaryDecides ImplementsEventQueue DueChainDecided EventCompletes
