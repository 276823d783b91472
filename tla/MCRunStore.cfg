SPECIFICATION Spec
CONSTANTS
  Runs <- MCRuns
  SessionOf <- MCSessionOf
  Executors = {e1, e2}
  None = None
  MaxEpoch = 2
  MaxRepeats = 1
SYMMETRY MCSymmetry
INVARIANTS
  TypeOK
  OneActiveRunPerSession
  ResultOfNewestLease
  HeldByNewestLease
  ClosedOnce
  LeasedOnlyWhenFinalized
PROPERTIES
  TerminalIsFinal
  NoLeaseAfterCancel
  ImplementsContract
