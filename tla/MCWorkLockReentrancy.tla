------------------------ MODULE MCWorkLockReentrancy ------------------------
(* Model values for the reentrancy runs: honest bidders and the           *)
(* ReentrancyTest contract.                                                 *)
EXTENDS WorkLockReentrancy

CONSTANTS honest, honest2, attacker

ThreeBidders == {honest, honest2, attacker}
=============================================================================
