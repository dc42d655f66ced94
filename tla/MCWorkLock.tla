----------------------------- MODULE MCWorkLock -----------------------------
(***************************************************************************)
(* Model-checking instance of WorkLock: up to four bidders, small integer  *)
(* amounts, and a symmetry on the interchangeable bidder addresses.        *)
(***************************************************************************)
EXTENDS WorkLock, TLC

CONSTANTS b1, b2, b3, b4

ThreeBidders == {b1, b2, b3}
FourBidders == {b1, b2, b3, b4}

BidderSymmetry == Permutations(Bidders)
=============================================================================
