CONSTANTS
  Kind <- BtcForToken
  Faults = {}
  ExpiryUnit = 1
  MaxClock = 4
  Lag = 0
  MaxCrashes = 2
  MaxBoots = 1
  Addr = {"alice", "alice_btc", "bob", "bob_btc", "broker", "broker_btc"}
  Offer <- BitcoinOffer
  Address <- Addresses
  GasLimit = 3
  GasUsed = {2}
SPECIFICATION SettleSpec
CHECK_DEADLOCK FALSE
INVARIANTS
  CostsCounted
  WithinLimits
  PaidAsAgreed
PROPERTY SettlesAsAgreed
