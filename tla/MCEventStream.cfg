SPECIFICATION SSpec
CONSTANTS
  Runs <- MCRuns
  SessionOf <- MCSessionOf
  Executors = {e1}
  None = None
  MaxEpoch = 2
  MaxRepeats = 1
  Watched = 1
  Limit = 2
  MaxBreaks = 1
INVARIANTS
  STypeOK
  ReceivedIsPrefix
  HeardEndIsFinal
PROPERTIES
  EndIsHeard
