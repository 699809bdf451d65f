CONSTANTS
  Swaps <- Later
  Delayed <- Later
  Fills <- OtherFills
  Terms <- MCTerms
  Details <- OtherDetails
  Faults = {}
  MaxCrashes = 0
  MaxBoots = 1
  MaxBacklog = 1
SPECIFICATION Spec
CHECK_DEADLOCK FALSE
INVARIANT PairKept
