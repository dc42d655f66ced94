------------------------------ MODULE WorkLock ------------------------------
(***************************************************************************)
(* The WorkLock allocation ledger: bidding, cancellation, forced refunds   *)
(* of over-cap bids, the resumable verification scan, claiming tokens     *)
(* into the staking escrow and refunding ETH against completed work.       *)
(* Each public call of the contract is one atomic action; a call the       *)
(* contract rejects changes nothing and is not an action.  The staking     *)
(* escrow is the environment: it records claimed stakes and the work they  *)
(* complete.  Time is the index of the phase the clock is in.              *)
(***************************************************************************)
EXTENDS WorkLockConversion, Integers, Sequences, FiniteSets, SequencesExt

CONSTANTS
  Bidders,         \* addresses that may bid (model values)
  MinAllowedBid,   \* minAllowedBid: least first bid
  BidAmounts,      \* values a bid transaction may carry
  MaxDeposit,      \* bound: most ETH one bidder may hold in the ledger
  MaxWork          \* bound: most work the escrow reports for one staker

ASSUME /\ MinAllowedBid \in Nat \ {0}
       /\ BidAmounts \subseteq Nat \ {0}
       /\ MaxAllowableLockedTokens \in Nat \ {0}
       /\ TokenSupply > MaxAllowableLockedTokens
       /\ TokenSupply % MaxAllowableLockedTokens = 0  \* see MinNumberOfBidders

(***************************************************************************)
(* Clock.  startBidDate < endBidDate < endCancellationDate are the         *)
(* constructor's dates; Now runs through the phases before, during and     *)
(* after bidding.  A cancelled distribution moves endCancellationDate to   *)
(* EndOfTime, beyond every reachable time.                                 *)
(***************************************************************************)
StartBidDate == 1
EndBidDate == 2
EndCancellationDate == 3
EndOfTime == 4

VARIABLES
  now,                  \* block timestamp, as a phase index
  endCancellationDate,  \* endCancellationDate
  bidders,              \* bidders: the ordered list of active bidders
  workInfo,             \* workInfo[address]
  ethSupply,            \* ETH the conversions are computed against
  nextBidderToCheck,    \* verification cursor
  tokenBalance,         \* tokens held by WorkLock
  escrow,               \* staking escrow: stake, work measurement, work
  workRefunded,         \* ETH paid to each bidder by refund()
  workAtClaim           \* history: escrow work of the bidder at its claim

vars == <<now, endCancellationDate, bidders, workInfo, ethSupply,
          nextBidderToCheck, tokenBalance, escrow, workRefunded, workAtClaim>>

NoBid == [depositedETH |-> 0, completedWork |-> 0, claimed |-> FALSE, index |-> 0]

WorkInfo == [depositedETH : 0..MaxDeposit, completedWork : 0..MaxWork,
             claimed : BOOLEAN, index : Nat]

StakerInfo == [value : 0..TokenSupply, measureWork : BOOLEAN,
               completedWork : 0..MaxWork]

TypeOK ==
  /\ now \in 0..EndCancellationDate
  /\ endCancellationDate \in {EndCancellationDate, EndOfTime}
  /\ bidders \in Seq(Bidders)
  /\ workInfo \in [Bidders -> WorkInfo]
  /\ ethSupply \in Nat
  /\ nextBidderToCheck \in Nat
  /\ tokenBalance \in 0..TokenSupply
  /\ escrow \in [Bidders -> StakerInfo]
  /\ workRefunded \in [Bidders -> Nat]
  /\ workAtClaim \in [Bidders -> 0..MaxWork]

Init ==
  /\ now = 0
  /\ endCancellationDate = EndCancellationDate
  /\ bidders = <<>>
  /\ workInfo = [b \in Bidders |-> NoBid]
  /\ ethSupply = 0
  /\ nextBidderToCheck = 0
  /\ tokenBalance = TokenSupply
  /\ escrow = [b \in Bidders |-> [value |-> 0, measureWork |-> FALSE, completedWork |-> 0]]
  /\ workRefunded = [b \in Bidders |-> 0]
  /\ workAtClaim = [b \in Bidders |-> 0]

Deposit(b) == workInfo[b].depositedETH

AfterCancellationWindow == now >= endCancellationDate

\* isClaimingAvailable(): open once the scan has reached the end of the list
\* (spec 4.3; test_reentrancy claims right after the completing call, lines
\* 679-689).  Lines 459-478 of test_worklock disagree: see the run
\* claiming_gate.
IsClaimingAvailable ==
  AfterCancellationWindow /\ nextBidderToCheck = Len(bidders)

\* The distribution was cancelled by forceRefund.
Shutdown == endCancellationDate = EndOfTime

(***************************************************************************)
(* Time passes between transactions.  Every time after the cancellation  *)
(* window is the same phase, so time saturates there and keeps passing:    *)
(* the contract never stops accepting calls.                               *)
(***************************************************************************)
Tick ==
  /\ now' = IF now < EndCancellationDate THEN now + 1 ELSE now
  /\ UNCHANGED <<endCancellationDate, bidders, workInfo, ethSupply,
                 nextBidderToCheck, tokenBalance, escrow, workRefunded, workAtClaim>>

(***************************************************************************)
(* bid(): only while bidding is open; a first bid must reach the minimum   *)
(* and appends the bidder to the list, a top-up has no minimum.            *)
(***************************************************************************)
Bid(b, value) ==
  LET info == workInfo[b]
      isNew == info.depositedETH = 0
  IN
  /\ StartBidDate <= now /\ now < EndBidDate
  /\ isNew => value >= MinAllowedBid
  /\ info.depositedETH + value <= MaxDeposit
  /\ workInfo' = [workInfo EXCEPT
                    ![b].depositedETH = @ + value,
                    ![b].index = IF isNew THEN Len(bidders) ELSE @]
  /\ bidders' = IF isNew THEN Append(bidders, b) ELSE bidders
  /\ ethSupply' = ethSupply + value
  /\ UNCHANGED <<now, endCancellationDate, nextBidderToCheck, tokenBalance,
                 escrow, workRefunded, workAtClaim>>

(***************************************************************************)
(* cancelBid(): until the cancellation window closes, an unclaimed bidder  *)
(* takes its whole deposit back; its slot in the list is filled with the   *)
(* last bidder, whose index is updated, the list is truncated and the      *)
(* entry deleted.                                                          *)
(***************************************************************************)
\* Seeded fault: the entry is deleted before the moved bidder's index is
\* written, so a last bidder cancelling recreates its own entry.
CancelBidDeleteFirst(b) ==
  LET idx == workInfo[b].index
      last == Last(bidders)
  IN
  /\ StartBidDate <= now /\ now < endCancellationDate
  /\ Deposit(b) > 0
  /\ ~workInfo[b].claimed
  /\ bidders' = Front(ReplaceAt(bidders, idx + 1, last))
  /\ workInfo' = [workInfo EXCEPT ![b] = NoBid, ![last].index = idx]
  /\ ethSupply' = ethSupply - Deposit(b)
  /\ UNCHANGED <<now, endCancellationDate, nextBidderToCheck, tokenBalance,
                 escrow, workRefunded, workAtClaim>>

\* Seeded fault: the cancellation window is closed one tick late.
CancelBidInclusiveEnd(b) ==
  LET idx == workInfo[b].index
      last == Last(bidders)
  IN
  /\ StartBidDate <= now /\ now <= endCancellationDate
  /\ Deposit(b) > 0
  /\ ~workInfo[b].claimed
  /\ bidders' = Front(ReplaceAt(bidders, idx + 1, last))
  /\ workInfo' = [workInfo EXCEPT ![last].index = idx, ![b] = NoBid]
  /\ ethSupply' = ethSupply - Deposit(b)
  /\ UNCHANGED <<now, endCancellationDate, nextBidderToCheck, tokenBalance,
                 escrow, workRefunded, workAtClaim>>

CancelBid(b) ==
  LET idx == workInfo[b].index
      last == Last(bidders)
  IN
  /\ StartBidDate <= now /\ now < endCancellationDate
  /\ Deposit(b) > 0
  /\ ~workInfo[b].claimed
  /\ bidders' = Front(ReplaceAt(bidders, idx + 1, last))
  /\ workInfo' = [workInfo EXCEPT ![last].index = idx, ![b] = NoBid]
  /\ ethSupply' = ethSupply - Deposit(b)
  /\ UNCHANGED <<now, endCancellationDate, nextBidderToCheck, tokenBalance,
                 escrow, workRefunded, workAtClaim>>

(***************************************************************************)
(* forceRefund(group): after the cancellation window and before the scan  *)
(* is complete, anyone may shrink a group of over-cap bids.  With fewer    *)
(* bidders than MinNumberOfBidders the distribution is cancelled instead:  *)
(* the tokens go back to the owner and cancellation stays open forever.   *)
(* Otherwise every bid of the group is lowered to one common bid, and the  *)
(* scan restarts.  The test pins the outcome, not the formula: the model   *)
(* states the outcome.                                                     *)
(***************************************************************************)
\* ethToTokens(depositedETH) > maxAllowableLockedTokens: the bidder is a
\* whale.  ethSupply is positive whenever a listed bid is.
OverCap(b) ==
  EthToTokens(Deposit(b), ethSupply) > MaxAllowableLockedTokens

\* Checks of the whole call: after the window, before the scan is done,
\* a nonempty sorted batch of listed bidders, each of them a whale
\* (lines 846-957, spec 4.2).
ForceRefundPre(group) ==
  /\ AfterCancellationWindow
  /\ nextBidderToCheck # Len(bidders)
  /\ group # {}
  /\ group \subseteq ToSet(bidders)
  /\ \A g \in group : OverCap(g)

CancelDistribution ==
  /\ endCancellationDate' = EndOfTime
  /\ tokenBalance' = 0
  /\ UNCHANGED <<now, bidders, workInfo, ethSupply, nextBidderToCheck,
                 escrow, workRefunded, workAtClaim>>

\* ethSupply once every member of the group is at the common bid r.
SupplyAt(group, r) ==
  ethSupply - MapThenSumSet(LAMBDA g : Deposit(g) - r, group)

\* The common bid of the group: the largest bid, at most the group's least,
\* that the scan accepts against the ethSupply left once every member is
\* at it (lines 1005-1026: every member ends at normal_bid, whose tokens are
\* the cap, and the scan then passes; spec 4.2: reduced to the amount whose
\* allocation equals the cap).
ForceRefundTarget(group) ==
  LET minBid == Min({Deposit(g) : g \in group})
  IN  Max({r \in 0..minBid : r <= MaxBidFromMaxStake(SupplyAt(group, r))})

\* Seeded fault: ethSupply lowered by the common refund below the least bid
\* only, the alignment refunds forgotten.
AdjustBidsKeepAlignedSupply(group) ==
  LET target == ForceRefundTarget(group)
      minBid == Min({Deposit(g) : g \in group})
  IN
  /\ target > 0
  /\ workInfo' = [b \in Bidders |->
                    IF b \in group THEN [workInfo[b] EXCEPT !.depositedETH = target]
                                   ELSE workInfo[b]]
  /\ ethSupply' = ethSupply - Cardinality(group) * (minBid - target)
  /\ nextBidderToCheck' = 0
  /\ UNCHANGED <<now, endCancellationDate, bidders, tokenBalance, escrow,
                 workRefunded, workAtClaim>>

\* Seeded fault: the verification scan is not restarted.
AdjustBidsKeepCursor(group) ==
  LET target == ForceRefundTarget(group)
  IN
  /\ target > 0
  /\ workInfo' = [b \in Bidders |->
                    IF b \in group THEN [workInfo[b] EXCEPT !.depositedETH = target]
                                   ELSE workInfo[b]]
  /\ ethSupply' = SupplyAt(group, target)
  /\ UNCHANGED <<now, endCancellationDate, bidders, tokenBalance, escrow,
                 workRefunded, workAtClaim, nextBidderToCheck>>

\* Every member is lowered to the common bid and refunded the difference,
\* and the scan restarts (line 1023).  A common bid of 0 would leave a
\* listed entry without a deposit, which spec 3 forbids: the call fails.
AdjustBids(group) ==
  LET target == ForceRefundTarget(group)
  IN
  /\ target > 0
  /\ workInfo' = [b \in Bidders |->
                    IF b \in group THEN [workInfo[b] EXCEPT !.depositedETH = target]
                                   ELSE workInfo[b]]
  /\ ethSupply' = SupplyAt(group, target)
  /\ nextBidderToCheck' = 0
  /\ UNCHANGED <<now, endCancellationDate, bidders, tokenBalance, escrow,
                 workRefunded, workAtClaim>>

ForceRefund(group) ==
  /\ ForceRefundPre(group)
  /\ IF Len(bidders) < MinNumberOfBidders
       THEN CancelDistribution
       ELSE AdjustBids(group)

(***************************************************************************)
(* verifyBiddingCorrectness(gasToSaveState): from the cursor, checks as    *)
(* many bidders as the gas allows (k of them) against maxBidFromMaxStake.  *)
(* A checked bid above it reverts the whole call; otherwise the cursor     *)
(* moves past the k bidders.  A call with gas for no check changes         *)
(* nothing and is not an action.                                           *)
(***************************************************************************)
\* Seeded fault: the loop stops one bidder short of the range it skips.
VerifyBiddingCorrectnessSkipLast(k) ==
  /\ AfterCancellationWindow
  /\ nextBidderToCheck # Len(bidders)
  /\ nextBidderToCheck + k <= Len(bidders)
  /\ \A i \in nextBidderToCheck + 1 .. nextBidderToCheck + k - 1 :
        Deposit(bidders[i]) <= MaxBidFromMaxStake(ethSupply)
  /\ nextBidderToCheck' = nextBidderToCheck + k
  /\ UNCHANGED <<now, endCancellationDate, bidders, workInfo, ethSupply,
                 tokenBalance, escrow, workRefunded, workAtClaim>>

\* Seeded fault: a bid equal to maxBidFromMaxStake is rejected.
VerifyBiddingCorrectnessStrict(k) ==
  /\ AfterCancellationWindow
  /\ nextBidderToCheck # Len(bidders)
  /\ nextBidderToCheck + k <= Len(bidders)
  /\ \A i \in nextBidderToCheck + 1 .. nextBidderToCheck + k :
        Deposit(bidders[i]) < MaxBidFromMaxStake(ethSupply)
  /\ nextBidderToCheck' = nextBidderToCheck + k
  /\ UNCHANGED <<now, endCancellationDate, bidders, workInfo, ethSupply,
                 tokenBalance, escrow, workRefunded, workAtClaim>>

VerifyBiddingCorrectness(k) ==
  /\ AfterCancellationWindow
  /\ nextBidderToCheck # Len(bidders)
  /\ nextBidderToCheck + k <= Len(bidders)
  /\ \A i \in nextBidderToCheck + 1 .. nextBidderToCheck + k :
        Deposit(bidders[i]) <= MaxBidFromMaxStake(ethSupply)
  /\ nextBidderToCheck' = nextBidderToCheck + k
  /\ UNCHANGED <<now, endCancellationDate, bidders, workInfo, ethSupply,
                 tokenBalance, escrow, workRefunded, workAtClaim>>

(***************************************************************************)
(* claim(): once claiming is available, a bidder with an unclaimed deposit *)
(* receives ethToTokens(deposit) at the current ethSupply as a stake in    *)
(* the escrow, which starts measuring its work; the escrow's work counter  *)
(* at this moment is the bidder's starting point for refunds.              *)
(***************************************************************************)
\* Seeded fault: tokens rounded up.
ClaimRoundUp(b) ==
  LET tokens == DivCeil(Deposit(b) * TokenSupply, ethSupply)
  IN
  /\ IsClaimingAvailable
  /\ ~workInfo[b].claimed
  /\ Deposit(b) > 0
  /\ tokenBalance' = tokenBalance - tokens
  /\ workInfo' = [workInfo EXCEPT ![b].claimed = TRUE,
                                  ![b].completedWork = escrow[b].completedWork]
  /\ escrow' = [escrow EXCEPT ![b].value = @ + tokens, ![b].measureWork = TRUE]
  /\ workAtClaim' = [workAtClaim EXCEPT ![b] = escrow[b].completedWork]
  /\ UNCHANGED <<now, endCancellationDate, bidders, ethSupply, nextBidderToCheck,
                 workRefunded>>

Claim(b) ==
  LET tokens == EthToTokens(Deposit(b), ethSupply)
  IN
  /\ IsClaimingAvailable
  /\ ~workInfo[b].claimed
  /\ Deposit(b) > 0
  /\ tokenBalance' = tokenBalance - tokens
  /\ workInfo' = [workInfo EXCEPT ![b].claimed = TRUE,
                                  ![b].completedWork = escrow[b].completedWork]
  /\ escrow' = [escrow EXCEPT ![b].value = @ + tokens, ![b].measureWork = TRUE]
  /\ workAtClaim' = [workAtClaim EXCEPT ![b] = escrow[b].completedWork]
  /\ UNCHANGED <<now, endCancellationDate, bidders, ethSupply, nextBidderToCheck,
                 workRefunded>>

(***************************************************************************)
(* refund(): a claimed bidder gets back workToETH of the work completed    *)
(* since its last refund, at most its remaining deposit; a call that would *)
(* pay nothing reverts.  Only ethToWork(refund) of the work is consumed,   *)
(* the rest carries over.  When the deposit reaches zero the escrow stops  *)
(* measuring the staker's work.                                            *)
(***************************************************************************)
\* Seeded fault: the refund is not capped at the remaining deposit.
RefundAmountUncapped(b) ==
  WorkToETH(escrow[b].completedWork - workInfo[b].completedWork, ethSupply)

RefundAmount(b) ==
  LET completedWork == escrow[b].completedWork - workInfo[b].completedWork
  IN  Min({WorkToETH(completedWork, ethSupply), Deposit(b)})

\* Seeded fault: the work paid for is not recorded.
RefundNoCredit(b) ==
  LET refundETH == RefundAmount(b)
  IN
  /\ workInfo[b].claimed
  /\ refundETH > 0
  /\ workInfo' = [workInfo EXCEPT ![b].depositedETH = @ - refundETH]
  /\ escrow' = [escrow EXCEPT ![b].measureWork = Deposit(b) - refundETH # 0]
  /\ workRefunded' = [workRefunded EXCEPT ![b] = @ + refundETH]
  /\ UNCHANGED <<now, endCancellationDate, bidders, ethSupply, nextBidderToCheck,
                 tokenBalance, workAtClaim>>

Refund(b) ==
  LET refundETH == RefundAmount(b)
  IN
  /\ workInfo[b].claimed
  /\ refundETH > 0
  /\ workInfo' = [workInfo EXCEPT
                    ![b].depositedETH = @ - refundETH,
                    ![b].completedWork = @ + EthToWork(refundETH, ethSupply)]
  /\ escrow' = [escrow EXCEPT ![b].measureWork = Deposit(b) - refundETH # 0]
  /\ workRefunded' = [workRefunded EXCEPT ![b] = @ + refundETH]
  /\ UNCHANGED <<now, endCancellationDate, bidders, ethSupply, nextBidderToCheck,
                 tokenBalance, workAtClaim>>

(***************************************************************************)
(* Staking escrow (the test's mock): a staker's work counter grows, before *)
(* its claim as well (setCompletedWork on the unclaimed staker2, line 536). *)
(***************************************************************************)
CompleteWork(b) ==
  /\ escrow[b].completedWork < MaxWork
  /\ escrow' = [escrow EXCEPT ![b].completedWork = @ + 1]
  /\ UNCHANGED <<now, endCancellationDate, bidders, workInfo, ethSupply,
                 nextBidderToCheck, tokenBalance, workRefunded, workAtClaim>>

Next ==
  \/ Tick
  \/ \E b \in Bidders, v \in BidAmounts : Bid(b, v)
  \/ \E b \in Bidders : CancelBid(b)
  \/ \E group \in SUBSET Bidders : ForceRefund(group)
  \/ \E k \in 1..Len(bidders) : VerifyBiddingCorrectness(k)
  \/ \E b \in Bidders : Claim(b)
  \/ \E b \in Bidders : Refund(b)
  \/ \E b \in Bidders : CompleteWork(b)

(***************************************************************************)
(* Fairness.  Time advances.  forceRefund and verifyBiddingCorrectness are *)
(* open to anyone and the distribution is driven until claiming opens;     *)
(* each bidder eventually claims and keeps asking for its refund.  The     *)
(* staker's work is not assumed: properties about refunds are stated for   *)
(* the work actually done.                                                 *)
(***************************************************************************)
Fairness ==
  /\ WF_vars(Tick)
  /\ WF_vars(\E group \in SUBSET Bidders : ForceRefund(group))
  /\ WF_vars(\E k \in 1..Len(bidders) : VerifyBiddingCorrectness(k))
  /\ \A b \in Bidders : WF_vars(Claim(b)) /\ WF_vars(Refund(b))

Spec == Init /\ [][Next]_vars /\ Fairness

(***************************************************************************)
(* Refinement mapping onto WorkLockAllocation: the stage is read off the   *)
(* clock, a cancelled distribution and isClaimingAvailable(); the locked   *)
(* ETH is the deposit, the claim flag is workInfo's.                       *)
(***************************************************************************)
Stage ==
  CASE Shutdown             -> "shutdown"
    [] now < StartBidDate   -> "before"
    [] now < EndBidDate     -> "bidding"
    [] now < endCancellationDate -> "cancel"
    [] IsClaimingAvailable  -> "claiming"
    [] OTHER                -> "allocating"

Allocation == INSTANCE WorkLockAllocation WITH
  stage <- Stage,
  held <- [b \in Bidders |-> Deposit(b)],
  claimed <- [b \in Bidders |-> workInfo[b].claimed]

-----------------------------------------------------------------------------
(***************************************************************************)
(* Properties                                                              *)
(***************************************************************************)

\* ETH still held by WorkLock: everything bid and not paid back by
\* cancelBid, forceRefund or refund.
Balance == ethSupply - SumFunction(workRefunded)

TokensClaimed == SumFunction([b \in Bidders |-> escrow[b].value])

(* The ETH WorkLock holds is exactly the sum of the bidders' deposits: bid *)
(* and cancelBid, forceRefund lowering a group to its common bid and the  *)
(* partial refunds of refund() never pay out more or less than they take  *)
(* off a deposit.                                                          *)
ETHBacksDeposits ==
  Balance = SumFunction([b \in Bidders |-> Deposit(b)])

(* The bidder list and workInfo agree: every address is listed at most     *)
(* once, its stored index is its position (swap-and-truncate in cancelBid  *)
(* keeps this, including when the cancelling bidder is the last one), and  *)
(* an address that is not listed has no entry left.                        *)
BidderListConsistent ==
  /\ IsInjective(bidders)
  /\ \A i \in 1..Len(bidders) : workInfo[bidders[i]].index = i - 1
  /\ \A b \in Bidders \ ToSet(bidders) : workInfo[b] = NoBid

(* WorkLock implements the allocation protocol of WorkLockAllocation:     *)
(* bids only while bidding is open, cancelBid only until the window        *)
(* closes or after a shutdown, forceRefund only lowering deposits before   *)
(* claiming opens, claim once per bidder after verification, refund only   *)
(* lowering a claimed deposit, and the stages in their order.              *)
AllocationRefined == Allocation!Spec

(* Every bidder the verification scan has passed is still within the cap   *)
(* computed from the current ethSupply, although forceRefund lowers        *)
(* ethSupply and with it the cap of bidders checked earlier: forceRefund   *)
(* must restart the scan.  (After the distribution is cancelled claiming  *)
(* can never open and cancelBid reshapes the list freely.)                 *)
VerifiedPrefixWithinCap ==
  ~Shutdown =>
  \A i \in 1..Min({nextBidderToCheck, Len(bidders)}) :
     Deposit(bidders[i]) <= MaxBidFromMaxStake(ethSupply)

(* No claim gives a staker more than the per-bidder cap.                   *)
ClaimWithinCap ==
  \A b \in Bidders : escrow[b].value <= MaxAllowableLockedTokens

(* Claims, each rounded down against the ethSupply of its own moment,      *)
(* never add up to more tokens than WorkLock holds, and the distribution   *)
(* is never cancelled (returning all tokens to the owner) after a claim.   *)
ClaimsWithinSupply ==
  /\ tokenBalance >= 0
  /\ tokenBalance + TokensClaimed = IF Shutdown THEN 0 ELSE TokenSupply

(* refund() never pays a bidder for work it did not do or was already paid *)
(* for: everything refunded is covered by the work completed since the     *)
(* claim.                                                                  *)
WorkRefundBacked ==
  \A b \in Bidders :
     workRefunded[b] <= WorkToETH(escrow[b].completedWork - workAtClaim[b], ethSupply)

(* The spec: verification progress is never lost, the cursor never moves  *)
(* back.                                                                   *)
CursorNeverDecreases ==
  [][nextBidderToCheck' >= nextBidderToCheck]_vars

(* The scan reaches the end of the list: once the cancellation window has *)
(* closed, verifyBiddingCorrectness in gas-bounded parts and forceRefund,  *)
(* each of which restarts the scan, are called by anyone until every bid  *)
(* is verified, unless the distribution is cancelled.  No bid may be left *)
(* that the scan rejects and forceRefund refuses.                          *)
ScanCompletes ==
  AfterCancellationWindow ~> (Shutdown \/ nextBidderToCheck = Len(bidders))

FullWorkReleasesDeposit ==
  \A b \in Bidders :
     (/\ workInfo[b].claimed
      /\ escrow[b].completedWork - workAtClaim[b]
           >= EthToWork(Deposit(b) + workRefunded[b], ethSupply))
     ~> Deposit(b) = 0

=============================================================================
