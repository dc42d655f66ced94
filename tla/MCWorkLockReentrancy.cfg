\* test_reentrancy with two honest bidders and the ReentrancyTest contract,
\* whose fallback re-enters WorkLock once; honest bidders keep asking for their ETH.
CONSTANTS
  honest = honest
  attacker = attacker
  honest2 = honest2
  Bidders <- ThreeBidders
  Attacker <- attacker
  Amounts = {1, 2, 3}
  MaxDepth = 2

SPECIFICATION Spec

\* Once every deposit is paid out no call succeeds: the contract is done.
CHECK_DEADLOCK FALSE

INVARIANT LedgerBalanced
PROPERTY HonestBiddersRecover
PROPERTY AtomicCallsRefined
