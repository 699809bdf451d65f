CONSTANTS
  Swaps <- MCSwaps
  Delayed <- MCDelayed
  Fills <- OneFill
  Terms <- MCTerms
  Details <- OneDetail
  Faults = {}
  MaxCrashes = 1
  MaxBoots = 1
  MaxBacklog = 1
SPECIFICATION FairSpec
CHECK_DEADLOCK FALSE
INVARIANTS
  UpdateFindsReceipt
  PendingIsAlive
PROPERTIES
  FinalStays
  EndShown
  AmountsShown
