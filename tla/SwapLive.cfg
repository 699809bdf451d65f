CONSTANTS
  Kind <- BtcForErc20
  Faults = {"timeout"}
  ExpiryUnit = 1
  MaxClock = 4
  Lag = 0
  MaxCrashes = 1
  MaxBoots = 1
SPECIFICATION FairSpec
CHECK_DEADLOCK FALSE
INVARIANTS
  EndsInv
  ExpiredLosesNothing
  InitiatorRefundTruthful
  DroppedOnlyWhenPaid
PROPERTIES
  SwapCompletes
  InitiatorRecovers
  StuckOnlyRefunded
