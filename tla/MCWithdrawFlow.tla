--------------------------- MODULE MCWithdrawFlow ---------------------------
(***************************************************************************)
(* Two pools, the larger of which allows the larger fee, and a note of     *)
(* each.                                                                   *)
(***************************************************************************)
EXTENDS WithdrawFlow, TLC

CONSTANTS large, small, n1, n2, r1

MCPools == {large, small}
MCNotes == {n1, n2}
MCPoolOf == (n1 :> large) @@ (n2 :> small)
MCRecipients == {r1}
MCCap == (large :> 2) @@ (small :> 1)
MCFees == 1 .. 2
=============================================================================
