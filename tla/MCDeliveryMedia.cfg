SPECIFICATION Spec
CONSTANTS
  Items <- MCMediaItems
  KindOf <- MCMediaOf
  MaxFaults = 0
CHECK_DEADLOCK FALSE
INVARIANTS
  DeliveredWasShown
