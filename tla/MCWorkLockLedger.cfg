\* Bidding, cancellation, forced refunds and verification: four bidders, so a whale and a hidden whale
\* can exceed the cap together (bids 4, 3, 1, 1).
CONSTANTS
  b1 = b1
  b2 = b2
  b3 = b3
  b4 = b4
  Bidders <- FourBidders
  TokenSupply = 16
  MaxAllowableLockedTokens = 4
  SlowingRefund = 2
  BoostingRefund = 1
  MinAllowedBid = 1
  BidAmounts = {1, 2}
  MaxDeposit = 4
  MaxWork = 1
SPECIFICATION Spec
SYMMETRY BidderSymmetry
INVARIANTS
  ETHBacksDeposits
  BidderListConsistent
  VerifiedPrefixWithinCap
