\* The allocation protocol: three bidders bid, cancel, are force-refunded,
\* claim and are refunded, or the distribution is cancelled.
CONSTANTS
  b1 = b1
  b2 = b2
  b3 = b3
  b4 = b4
  Bidders <- ThreeBidders
  TokenSupply = 8
  MaxAllowableLockedTokens = 4
  SlowingRefund = 1
  BoostingRefund = 1
  MinAllowedBid = 1
  BidAmounts = {1, 2}
  MaxDeposit = 3
  MaxWork = 4
SPECIFICATION Spec
SYMMETRY BidderSymmetry
PROPERTY
  AllocationRefined
