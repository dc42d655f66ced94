------------------------- MODULE WorkLockConversion -------------------------
(***************************************************************************)
(* ConversionCurve of WorkLock: the exact-integer conversions between      *)
(* deposited ETH, claimed tokens and the staking work that unlocks a       *)
(* refund, and the two bounds derived from the per-bidder token cap.       *)
(* All operators are pure; the ledger module instantiates them with its    *)
(* current ethSupply.                                                      *)
(***************************************************************************)
EXTENDS Integers

CONSTANTS
  TokenSupply,               \* tokens deposited into WorkLock (tokenSupply)
  MaxAllowableLockedTokens,  \* per-bidder token cap
  SlowingRefund,             \* SLOWING_REFUND
  BoostingRefund             \* boostingRefund

\* SafeMath divCeil: the smallest q with q * b >= a (a >= 0, b > 0).
DivCeil(a, b) == (a + b - 1) \div b

\* ethToTokens(eth): share of the token supply bought by eth, rounded down.
EthToTokens(eth, ethSupply) == (eth * TokenSupply) \div ethSupply

\* ethToWork(eth): work required before eth is refunded, rounded up in
\* favour of the ledger.
EthToWork(eth, ethSupply) ==
  DivCeil(eth * TokenSupply * SlowingRefund, ethSupply * BoostingRefund)

\* workToETH(work): ETH released by an amount of completed work, rounded down.
WorkToETH(work, ethSupply) ==
  (work * ethSupply * BoostingRefund) \div (TokenSupply * SlowingRefund)

\* maxBidFromMaxStake: the largest deposit whose tokens stay within the cap,
\* the bound verifyBiddingCorrectness compares every bid against.
MaxBidFromMaxStake(ethSupply) ==
  (MaxAllowableLockedTokens * ethSupply) \div TokenSupply

\* Fewer bidders than this cannot all fit under the cap: forceRefund then
\* cancels the distribution instead of adjusting bids.  The test's comment
\* (line 1067) writes it worklock_supply // maximum_allowed_locked, for a
\* supply the cap divides; for other supplies nothing pins the rounding.
MinNumberOfBidders == TokenSupply \div MaxAllowableLockedTokens
=============================================================================
