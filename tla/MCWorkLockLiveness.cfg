\* Liveness of the scan with S = 18 and M = 6: S is a multiple of M, so the
\* verification bound and forceRefund eligibility meet exactly, and uneven bids
\* (1 and 2) make whales that forceRefund must lower before the scan can end.
CONSTANTS
  b1 = b1
  b2 = b2
  b3 = b3
  b4 = b4
  Bidders <- ThreeBidders
  TokenSupply = 18
  MaxAllowableLockedTokens = 6
  SlowingRefund = 1
  BoostingRefund = 1
  MinAllowedBid = 1
  BidAmounts = {1, 2}
  MaxDeposit = 2
  MaxWork = 1
SPECIFICATION Spec
PROPERTY
  ScanCompletes
