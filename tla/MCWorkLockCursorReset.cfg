\* forceRefund restarts the verification scan, against the spec's monotonic cursor.
CONSTANTS
  b1 = b1
  b2 = b2
  b3 = b3
  b4 = b4
  Bidders <- FourBidders
  TokenSupply = 16
  MaxAllowableLockedTokens = 4
  SlowingRefund = 2
  BoostingRefund = 1
  MinAllowedBid = 1
  BidAmounts = {1, 2}
  MaxDeposit = 4
  MaxWork = 1
SPECIFICATION Spec
SYMMETRY BidderSymmetry
PROPERTY
  CursorNeverDecreases
