SPECIFICATION Spec
CONSTANTS
  Items <- MCItems
  KindOf <- MCKindOf
  MaxFaults = 3
CHECK_DEADLOCK FALSE
INVARIANTS
  TypeOK
  DeliveredWasShown
  ShownOnce
PROPERTIES
  DeliveredIsFinal
  TextReachesUser
