CONSTANTS
  Kind <- EthForErc20
  Faults = {}
  ExpiryUnit = 1
  MaxClock = 4
  Lag = 0
  MaxCrashes = 1
  MaxBoots = 1
SPECIFICATION Spec
CHECK_DEADLOCK FALSE
INVARIANT NoDoubleExecution
