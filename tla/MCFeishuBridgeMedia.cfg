SPECIFICATION BSpec
CONSTANTS
  Runs <- MCRuns
  SessionOf <- MCSessionOf
  Executors = {1, 2}
  None = 0
  MaxEpoch = 2
  MaxRepeats = 1
  Digests <- MCDigests
  Messages <- MCMessages
  Uploaded <- MCFiles
  MaxFaults = 0
INVARIANT
  PreparedRunsProceed
