CONSTANTS
  Kind <- EthForBtc
  Faults = {"rpc"}
  ExpiryUnit = 1
  MaxClock = 3
  Lag = 0
  MaxCrashes = 0
  MaxBoots = 1
SPECIFICATION Spec
CHECK_DEADLOCK FALSE
INVARIANT RedeemRetried
