------------------------- MODULE WorkLockAllocation -------------------------
(***************************************************************************)
(* What WorkLock promises, without its arithmetic (spec.md sections 1-4):  *)
(* the protocol runs through its stages in order; a bidder's locked ETH    *)
(* grows only while bidding is open; the whole of it is withdrawn only    *)
(* while cancellation is open; during allocation it can only shrink;       *)
(* claiming opens once allocation is settled and is taken once per bidder; *)
(* after a claim the locked ETH only shrinks, as it is released; a         *)
(* cancelled distribution admits no claim and lets every bidder withdraw. *)
(***************************************************************************)
EXTENDS Naturals

CONSTANTS Bidders

VARIABLES
  stage,    \* "before", "bidding", "cancel", "allocating", "claiming",
            \* "shutdown"
  held,     \* ETH locked for each bidder
  claimed   \* whether the bidder has claimed its tokens

vars == <<stage, held, claimed>>

Stages == {"before", "bidding", "cancel", "allocating", "claiming", "shutdown"}

TypeOK ==
  /\ stage \in Stages
  /\ held \in [Bidders -> Nat]
  /\ claimed \in [Bidders -> BOOLEAN]

Init ==
  /\ stage = "before"
  /\ held = [b \in Bidders |-> 0]
  /\ claimed = [b \in Bidders |-> FALSE]

\* The stages follow one another in time; allocation may be found settled
\* as soon as cancellation closes, or be cancelled instead.
Advance ==
  /\ \/ stage = "before" /\ stage' = "bidding"
     \/ stage = "bidding" /\ stage' = "cancel"
     \/ stage = "cancel" /\ stage' \in {"allocating", "claiming"}
     \/ stage = "allocating" /\ stage' \in {"claiming", "shutdown"}
  /\ UNCHANGED <<held, claimed>>

\* A bid adds ETH to one entry.
Lock(b) ==
  /\ stage = "bidding"
  /\ held' \in [Bidders -> Nat]
  /\ held'[b] > held[b]
  /\ \A o \in Bidders \ {b} : held'[o] = held[o]
  /\ UNCHANGED <<stage, claimed>>

\* A cancellation returns the whole deposit.
Withdraw(b) ==
  /\ stage \in {"bidding", "cancel", "shutdown"}
  /\ ~claimed[b]
  /\ held[b] > 0
  /\ held' = [held EXCEPT ![b] = 0]
  /\ UNCHANGED <<stage, claimed>>

\* Allocation lowers some unclaimed deposits and leaves the others.
Reduce ==
  /\ stage = "allocating"
  /\ held' \in [Bidders -> Nat]
  /\ \A b \in Bidders : held'[b] <= held[b]
  /\ held' # held
  /\ UNCHANGED <<stage, claimed>>

\* A bidder with locked ETH takes its tokens once.
Claim(b) ==
  /\ stage = "claiming"
  /\ ~claimed[b]
  /\ held[b] > 0
  /\ claimed' = [claimed EXCEPT ![b] = TRUE]
  /\ UNCHANGED <<stage, held>>

\* Part of a claimed bidder's ETH is released.
Release(b) ==
  /\ claimed[b]
  /\ \E less \in 1..held[b] : held' = [held EXCEPT ![b] = @ - less]
  /\ UNCHANGED <<stage, claimed>>

Next ==
  \/ Advance
  \/ Reduce
  \/ \E b \in Bidders : Lock(b) \/ Withdraw(b) \/ Claim(b) \/ Release(b)

Spec == Init /\ [][Next]_vars
=============================================================================
