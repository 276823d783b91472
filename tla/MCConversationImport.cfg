SPECIFICATION CSpec
CONSTANTS
  Requests = {"q1", "q2"}
  Names = {"n"}
  Conversations = {"c"}
  Principals = {"local", "alice", "bob"}
  Local = "local"
  Versions = {"v1", "v2"}
  Models = {"m1", "m2"}
  DefaultModel <- MCDefaultModel
  AllowedModels <- MCAllowedModels
  First = "v1"
  Asks <- MCAsksOfName
  None = None
  Legacy <- MCLegacy
  Size <- MCSize
  MaxTurns = 3
  MaxBytes = 4
  MaxFaults = 0
CHECK_DEADLOCK FALSE
PROPERTIES
  ImportOverwritesNothing
