\* Claims and refunds: three bidders whose verified bids differ, work that can outrun a deposit.
CONSTANTS
  b1 = b1
  b2 = b2
  b3 = b3
  b4 = b4
  Bidders <- ThreeBidders
  TokenSupply = 8
  MaxAllowableLockedTokens = 4
  SlowingRefund = 1
  BoostingRefund = 1
  MinAllowedBid = 1
  BidAmounts = {1, 2}
  MaxDeposit = 3
  MaxWork = 4
SPECIFICATION Spec
SYMMETRY BidderSymmetry
INVARIANTS
  TypeOK
  ClaimWithinCap
  ClaimsWithinSupply
  WorkRefundBacked
