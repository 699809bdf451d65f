CONSTANTS
  Kind <- EthForBtc
  Faults = {"rpc", "timeout", "build"}
  ExpiryUnit = 1
  MaxClock = 4
  Lag = 2
  MaxCrashes = 1
  MaxBoots = 1
SPECIFICATION Spec
CHECK_DEADLOCK FALSE
INVARIANTS
  IInv
  ResponderFundsSecond
  InitiatorNeverLoses
  RefundAfterLock
PROPERTY ImplementsExchange
