CONSTANTS
  Swaps <- MCSwaps
  Delayed <- MCDelayed
  Fills <- GoodFills
  Terms <- MCTerms
  Details <- GoodDetails
  Faults = {}
  MaxCrashes = 0
  MaxBoots = 2
  MaxBacklog = 1
SPECIFICATION Spec
CHECK_DEADLOCK FALSE
INVARIANT OneVersion
