------------------------- MODULE WorkLockReentrancy -------------------------
(***************************************************************************)
(* The ETH-paying calls of WorkLock (cancelBid, forceRefund, refund) with  *)
(* each transfer a step of its own, and the ReentrancyGuard around them,   *)
(* as test_reentrancy drives it: the recipient is a contract whose         *)
(* fallback calls WorkLock again while the transfer is in progress.        *)
(*                                                                         *)
(* A call is a frame: the list of steps it still has to take, each a       *)
(* payment to a bidder or a debit of a bidder's deposit.  The steps of the *)
(* three calls follow spec.md 4.2 and 4.5: cancelBid and refund transfer   *)
(* first and update the ledger after; forceRefund debits and pays one     *)
(* member at a time.  A call's amounts are fixed at its entry.  A nested  *)
(* call that fails reverts the transfer that made it, and with it the     *)
(* whole transaction (sendValue requires success): the ledger goes back   *)
(* to the snapshot taken when the transaction began.                      *)
(*                                                                         *)
(* The ledger is the deposits, their total (ethSupply), the ETH WorkLock  *)
(* holds and the ETH each bidder has received.  The bidder list, tokens   *)
(* and work are left to WorkLock.tla; the refundable amount is any part   *)
(* of the deposit, and a forced refund any amount that leaves a deposit.  *)
(***************************************************************************)
EXTENDS Integers, Sequences, SequencesExt, Functions

CONSTANTS
  Bidders,   \* bidder addresses
  Attacker,  \* the ReentrancyTest contract, whose fallback re-enters
  Amounts,   \* deposits and refunds, small positive integers
  MaxDepth   \* bound: most frames on the call stack

ASSUME /\ Attacker \in Bidders
       /\ Amounts \subseteq Nat \ {0}
       /\ MaxDepth \in Nat \ {0}

VARIABLES
  phase,     \* "cancel": the cancellation window; "verify": after it;
             \* "claimed": every bidder has claimed
  deposit,   \* workInfo[b].depositedETH
  ethSupply, \* total of the deposits as WorkLock keeps it
  held,      \* ETH balance of the WorkLock contract
  paid,      \* ETH each bidder has received from WorkLock
  funded,    \* ETH each bidder bid (history variable)
  locked,    \* the ReentrancyGuard's flag
  stack,     \* frames of the calls in progress, innermost last
  snapshot   \* the ledger when the current transaction began

vars == <<phase, deposit, ethSupply, held, paid, funded, locked, stack, snapshot>>

Ledger == [deposit |-> deposit, ethSupply |-> ethSupply, held |-> held, paid |-> paid]

Pay(b, a) == [kind |-> "pay", bidder |-> b, amount |-> a]
Debit(b, a) == [kind |-> "debit", bidder |-> b, amount |-> a]
Clear(b, a) == [kind |-> "clear", bidder |-> b, amount |-> a]

MaxAmount == CHOOSE a \in Amounts : \A o \in Amounts : o <= a

(***************************************************************************)
(* The calls a bidder can make, with the steps each takes, as a set of     *)
(* frames: empty when the call's checks reject it.                         *)
(***************************************************************************)
\* cancelBid: the whole deposit, read at entry, is sent; then the entry is
\* removed (deposit set to 0) and ethSupply lowered by that amount.
CancelBidFrames(b) ==
  IF phase = "cancel" /\ deposit[b] > 0
    THEN {<<Pay(b, deposit[b]), Clear(b, deposit[b])>>}
    ELSE {}

\* forceRefund(group): every member is lowered to the same resulting
\* deposit (alignment at the least bid, less the common refund), one member
\* at a time: the deposit is lowered and the difference sent.  Groups are
\* of one or two members, taken in either order.
RefundSteps(m, target) ==
  <<Debit(m, deposit[m] - target), Pay(m, deposit[m] - target)>>

\* Seeded fault: every member is refunded the same amount, without the
\* alignment at the least bid.
ForceRefundFramesUnaligned(b) ==
  LET Lowerable(t, group) == \A m \in group : t < deposit[m]
  IN
  IF phase = "verify"
    THEN UNION {{<<Debit(m, r), Pay(m, r)>> : r \in {a \in Amounts : Lowerable(a, {m})}}
                 : m \in Bidders}
         \cup
         UNION {{<<Debit(m1, r), Pay(m1, r), Debit(m2, r), Pay(m2, r)>>
                   : r \in {a \in Amounts : Lowerable(a, {m1, m2})}}
                 : <<m1, m2>> \in {p \in Bidders \X Bidders : p[1] # p[2]}}
    ELSE {}

ForceRefundFrames(b) ==
  LET Targets(group) == {t \in 0..MaxAmount : \A m \in group : t < deposit[m]}
  IN
  IF phase = "verify"
    THEN UNION {{RefundSteps(m, t) : t \in Targets({m})} : m \in Bidders}
         \cup
         UNION {{RefundSteps(m1, t) \o RefundSteps(m2, t) : t \in Targets({m1, m2})}
                 : <<m1, m2>> \in {p \in Bidders \X Bidders : p[1] # p[2]}}
    ELSE {}

\* refund: the releasable part of the deposit is sent, then the deposit
\* lowered by it.
RefundFrames(b) ==
  IF phase = "claimed"
    THEN {<<Pay(b, r), Debit(b, r)>> : r \in {a \in Amounts : a <= deposit[b]}}
    ELSE {}

CallFrames(b) == CancelBidFrames(b) \cup ForceRefundFrames(b) \cup RefundFrames(b)

(***************************************************************************)
(* Ending a transaction.                                                   *)
(***************************************************************************)
\* A step reverted: the whole transaction is undone.
RevertAll ==
  /\ deposit' = snapshot.deposit
  /\ ethSupply' = snapshot.ethSupply
  /\ held' = snapshot.held
  /\ paid' = snapshot.paid
  /\ locked' = FALSE
  /\ stack' = <<>>
  /\ UNCHANGED <<phase, funded, snapshot>>

(***************************************************************************)
(* The transaction.                                                        *)
(***************************************************************************)
Init ==
  /\ phase = "cancel"
  /\ funded \in [Bidders -> Amounts]
  /\ deposit = funded
  /\ ethSupply = SumFunction(funded)
  /\ held = SumFunction(funded)
  /\ paid = [b \in Bidders |-> 0]
  /\ locked = FALSE
  /\ stack = <<>>
  /\ snapshot = Ledger

\* A bidder sends a transaction; nonReentrant checks that the guard is
\* free and takes it.
Call(b) ==
  /\ stack = <<>>
  /\ ~locked
  /\ \E f \in CallFrames(b) : stack' = <<f>>
  /\ locked' = TRUE
  /\ snapshot' = Ledger
  /\ UNCHANGED <<phase, deposit, ethSupply, held, paid, funded>>

\* The first step of the innermost frame, removed from it.
NextStep == Head(Last(stack))
Popped == [stack EXCEPT ![Len(stack)] = Tail(@)]

\* The ledger step a debit or clear makes.
DebitStep ==
  /\ NextStep.kind = "debit"
  /\ deposit' = [deposit EXCEPT ![NextStep.bidder] = @ - NextStep.amount]
  /\ ethSupply' = ethSupply - NextStep.amount
  /\ stack' = Popped
  /\ UNCHANGED <<phase, held, paid, funded, locked, snapshot>>

ClearStep ==
  /\ NextStep.kind = "clear"
  /\ deposit' = [deposit EXCEPT ![NextStep.bidder] = 0]
  /\ ethSupply' = ethSupply - NextStep.amount
  /\ stack' = Popped
  /\ UNCHANGED <<phase, held, paid, funded, locked, snapshot>>

\* The ETH of a payment moves before the recipient's code runs.
Transfer ==
  /\ held' = held - NextStep.amount
  /\ paid' = [paid EXCEPT ![NextStep.bidder] = @ + NextStep.amount]

\* A plain recipient takes the ETH and returns.
PayStep ==
  /\ NextStep.kind = "pay"
  /\ Transfer
  /\ stack' = Popped
  /\ UNCHANGED <<phase, deposit, ethSupply, funded, locked, snapshot>>

\* Seeded fault: the guard does not check the flag, so the nested call
\* runs inside the outer one.
NonReentrantMissing(f) ==
  /\ stack' = Append(Popped, f)
  /\ Transfer
  /\ UNCHANGED <<phase, deposit, ethSupply, funded, locked, snapshot>>

\* The guard on the nested call: the flag is set, so the call reverts with
\* Reentrancy, the transfer fails, and the outer transaction reverts.
NonReentrant(f) ==
  IF locked
    THEN RevertAll
    ELSE /\ stack' = Append(Popped, f)
         /\ Transfer
         /\ UNCHANGED <<phase, deposit, ethSupply, funded, locked, snapshot>>

\* The attacker's fallback, run during the transfer, calls WorkLock again.
PayAndReenter ==
  /\ NextStep.kind = "pay"
  /\ NextStep.bidder = Attacker
  /\ Len(stack) < MaxDepth
  /\ \E f \in CallFrames(Attacker) : NonReentrant(f)

Execute ==
  /\ stack # <<>> /\ Last(stack) # <<>>
  /\ \/ DebitStep
     \/ ClearStep
     \/ PayStep
     \/ PayAndReenter

\* Seeded fault: the guard is not released when the call returns.
ReturnKeepsLock ==
  /\ stack # <<>> /\ Last(stack) = <<>>
  /\ stack' = Front(stack)
  /\ UNCHANGED locked
  /\ UNCHANGED <<phase, deposit, ethSupply, held, paid, funded, snapshot>>

\* The innermost call returns; the outermost one releases the guard.
Return ==
  /\ stack # <<>> /\ Last(stack) = <<>>
  /\ stack' = Front(stack)
  /\ locked' = (Len(stack) > 1 /\ locked)
  /\ UNCHANGED <<phase, deposit, ethSupply, held, paid, funded, snapshot>>

\* Time passes between transactions.
Tick ==
  /\ stack = <<>>
  /\ phase # "claimed"
  /\ phase' = IF phase = "cancel" THEN "verify" ELSE "claimed"
  /\ UNCHANGED <<deposit, ethSupply, held, paid, funded, locked, stack, snapshot>>

Next ==
  \/ \E b \in Bidders : Call(b)
  \/ Execute
  \/ Return
  \/ Tick

(***************************************************************************)
(* Fairness.  A transaction that has started runs to its end: the EVM     *)
(* executes it in one go.  Time passes.  A bidder other than the attacker  *)
(* keeps sending its transaction until a block includes it, however often  *)
(* other transactions come first: strong fairness, since a call is only   *)
(* possible between transactions.  The attacker is not assumed to act.    *)
(***************************************************************************)
Fairness ==
  /\ WF_vars(Execute)
  /\ WF_vars(Return)
  /\ SF_vars(Tick)
  /\ \A b \in Bidders \ {Attacker} : SF_vars(Call(b))

Spec == Init /\ [][Next]_vars /\ Fairness

(***************************************************************************)
(* Refinement mapping onto WorkLockAtomicLedger: while a transaction is in *)
(* progress the ledger is seen as it was when it began; when the outermost *)
(* call returns, its effects appear at once, and a revert shows nothing.   *)
(***************************************************************************)
Seen(field) == IF stack = <<>> THEN Ledger[field] ELSE snapshot[field]

Atomic == INSTANCE WorkLockAtomicLedger WITH
  deposit <- Seen("deposit"),
  ethSupply <- Seen("ethSupply"),
  held <- Seen("held"),
  paid <- Seen("paid")

-----------------------------------------------------------------------------
(* Between transactions the ledger balances: every bidder's received ETH  *)
(* plus its deposit is what it bid, ethSupply is the sum of the deposits,  *)
(* and WorkLock holds exactly that ETH.  A nested call through a transfer  *)
(* of cancelBid, forceRefund or refund must never let a bidder take out    *)
(* more than it put in, or leave ethSupply out of step with the deposits.  *)
LedgerBalanced ==
  stack = <<>> =>
    /\ \A b \in Bidders : paid[b] + deposit[b] = funded[b]
    /\ ethSupply = SumFunction(deposit)
    /\ held = ethSupply

(* Every transaction, seen from outside, is one whole cancelBid,           *)
(* forceRefund or refund of spec.md section 5: the guard rejects the call  *)
(* the recipient makes during a transfer, so no call runs on a ledger      *)
(* another has half updated, and a forceRefund leaves all its members at   *)
(* one resulting deposit.                                                  *)
AtomicCallsRefined == Atomic!Spec

(* A bidder other than the attacker gets every wei it bid back: by         *)
(* cancelBid, forceRefund and refund, whatever the re-entering contract    *)
(* does in between.  A guard left set after a call, on any path, would    *)
(* make every later call revert and lock the ETH in WorkLock for good.    *)
HonestBiddersRecover ==
  \A b \in Bidders \ {Attacker} : <>(paid[b] = funded[b])
====
