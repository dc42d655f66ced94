------------------------ MODULE WorkLockAtomicLedger ------------------------
(***************************************************************************)
(* The ETH-paying calls as spec.md section 5 promises them: each runs to   *)
(* completion as one indivisible step, so no call observes another half   *)
(* done.  cancelBid returns the whole deposit; forceRefund lowers every    *)
(* member of a group to one resulting deposit and pays each the            *)
(* difference; refund pays part of a deposit.  Each payment leaves         *)
(* WorkLock's balance and reaches the bidder in the same step.            *)
(***************************************************************************)
EXTENDS Integers, Functions

CONSTANTS Bidders, Amounts

VARIABLES phase, deposit, ethSupply, held, paid

vars == <<phase, deposit, ethSupply, held, paid>>

Init ==
  /\ phase = "cancel"
  /\ deposit \in [Bidders -> Amounts]
  /\ ethSupply = SumFunction(deposit)
  /\ held = ethSupply
  /\ paid = [b \in Bidders |-> 0]

\* Each bidder of the domain of out leaves the ledger with out[b] wei.
PayOut(out) ==
  /\ deposit' = [b \in Bidders |-> IF b \in DOMAIN out THEN deposit[b] - out[b] ELSE deposit[b]]
  /\ paid' = [b \in Bidders |-> IF b \in DOMAIN out THEN paid[b] + out[b] ELSE paid[b]]
  /\ ethSupply' = ethSupply - SumFunction(out)
  /\ held' = held - SumFunction(out)
  /\ UNCHANGED phase

CancelBid(b) ==
  /\ phase = "cancel"
  /\ deposit[b] > 0
  /\ PayOut([x \in {b} |-> deposit[b]])

ForceRefund(group) ==
  /\ phase = "verify"
  /\ group # {}
  /\ \E target \in 0..SumFunction(deposit) :
       /\ \A m \in group : target < deposit[m]
       /\ PayOut([m \in group |-> deposit[m] - target])

Refund(b) ==
  /\ phase = "claimed"
  /\ \E r \in Amounts :
       /\ r <= deposit[b]
       /\ PayOut([x \in {b} |-> r])

Tick ==
  /\ phase # "claimed"
  /\ phase' = IF phase = "cancel" THEN "verify" ELSE "claimed"
  /\ UNCHANGED <<deposit, ethSupply, held, paid>>

Next ==
  \/ Tick
  \/ \E b \in Bidders : CancelBid(b) \/ Refund(b)
  \/ \E group \in SUBSET Bidders : ForceRefund(group)

Spec == Init /\ [][Next]_vars
=============================================================================
