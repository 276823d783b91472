SPECIFICATION WSpec
CONSTANTS
  Runs <- MCRuns
  SessionOf <- MCSessionOf
  Executors = {1, 2}
  None = 0
  MaxEpoch = 3
  MaxRepeats = 1
  MaxParallel = 2
  MaxFaults = 1
  MaxAbandoned = 1
CHECK_DEADLOCK FALSE
INVARIANTS
  WTypeOK
  RetriesNeedFaults
  PermitsKept
  OneTaskPerLease
  LeasesAttended
PROPERTIES
  StaleUpdatesNeedFaults
  SubmittedRunsEnd
