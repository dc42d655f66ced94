\* Liveness of verification with a cap that leaves a gap between the verification bound and forceRefund eligibility.
CONSTANTS
  b1 = b1
  b2 = b2
  b3 = b3
  b4 = b4
  Bidders <- ThreeBidders
  TokenSupply = 6
  MaxAllowableLockedTokens = 2
  SlowingRefund = 2
  BoostingRefund = 1
  MinAllowedBid = 1
  BidAmounts = {1, 2}
  MaxDeposit = 3
  MaxWork = 1
SPECIFICATION Spec

PROPERTY
  ScanCompletes
