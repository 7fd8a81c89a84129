---------------------------- MODULE MCDepositGate ----------------------------
(***************************************************************************)
(* Two wallets and two pools, the larger of which takes more than any      *)
(* wallet need have.                                                       *)
(***************************************************************************)
EXTENDS DepositGate, TLC

CONSTANTS w1, w2, small, large

MCWallets == {w1, w2}
MCPools == {small, large}
MCRequired == (small :> 1) @@ (large :> 2)
MCBalances == {1, 2}
=============================================================================
