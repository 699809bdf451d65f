CONSTANTS
  d1 = d1
  d2 = d2
  b1 = b1
  Requests <- Asked
  Token <- TokenOf
  Amount <- Amounts
  Owner <- Owners
  Funds <- Balances
  EthCost = 1
  SwapValues = {3000000}
  Faults = {"rpc", "busy", "timeout", "disk"}
  MaxCrashes = 1
  MaxSwaps = 2
SPECIFICATION Spec
CHECK_DEADLOCK FALSE
INVARIANTS
  IInv
  PoorOnlyByOthers
  FeeIsOwnOrLater
  ListIsOwn
PROPERTIES
  ImplementsPayments
  QueueDrains
  PaidIsListed
