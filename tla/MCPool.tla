------------------------------- MODULE MCPool -------------------------------
(***************************************************************************)
(* Small instance of Pool. One unit is 1740 lamports, so that rent rate 4  *)
(* is mainnet's 6960 lamports per byte and a denomination of 57500 units   *)
(* is the 0.1 SOL pool; its protocol fee is then below the rent minimum of *)
(* an empty account, as it is in the real pool.                            *)
(***************************************************************************)
EXTENDS Pool, TLC

CONSTANTS admin, alice, relay, fresh, vault, poolpda,
          n1, n1b, n2, f1, f2

MCWallets        == {admin, alice, relay, fresh}
MCNullifierOf    == n1 :> f1 @@ n1b :> f1 @@ n2 :> f2
MCTreasuries     == {admin, relay, <<f2, 0>>}
MCRecipients     == {fresh, vault}
MCTargets        == {vault, <<f1, 0>>}
MCInitialBalance == admin :> 46800 @@ alice :> 175000 @@ relay :> 3000
                        @@ fresh :> 0
=============================================================================
