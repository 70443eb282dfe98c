------------------------------- MODULE MCPegIn ------------------------------
(***************************************************************************)
(* Instances of PegIn for TLC: two nonces, so a payment can carry the      *)
(* wrong one, and two transactions, so a restart can re-deliver one.       *)
(***************************************************************************)
EXTENDS PegIn, TLC

CONSTANTS n1, n2, noMemo

MCNonce == {n1, n2}

MCAmount == {1, 2}
=============================================================================
