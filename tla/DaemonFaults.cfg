CONSTANTS
  Swaps <- MCSwaps
  Delayed <- MCDelayed
  Fills <- MCFills
  Terms <- MCTerms
  Details <- AllDetails
  Faults = {"build", "disk"}
  MaxCrashes = 2
  MaxBoots = 1
  MaxBacklog = 1
SPECIFICATION Spec
CHECK_DEADLOCK FALSE
INVARIANTS
  IInv
  OneVersion
  WriteAhead
  WithinTerms
PROPERTY ImplementsLifecycle
VIEW AllButReceipts
