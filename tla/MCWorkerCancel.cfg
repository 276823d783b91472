SPECIFICATION WSpec
CONSTANTS
  Runs <- MCOneRun
  SessionOf <- MCSessionOfOne
  Executors = {1, 2}
  None = 0
  MaxEpoch = 2
  MaxRepeats = 1
  MaxParallel = 2
  MaxFaults = 1
  MaxAbandoned = 0
PROPERTIES
  CanceledRunsEnd
