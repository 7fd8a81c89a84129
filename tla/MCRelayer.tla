------------------------------ MODULE MCRelayer ------------------------------
(***************************************************************************)
(* Small instance of Relayer: two submissions of one note, a root ring of  *)
(* one (a deposit evicts), a rent that moves between a value below and one *)
(* above the relayer's constant, ceilings that cover the lower floor only, *)
(* all floors, and more than the pool's cap, and a wallet that one         *)
(* reverted transaction with a priority fee brings below its threshold.    *)
(***************************************************************************)
EXTENDS Relayer

CONSTANTS r1, r2, n1
=============================================================================
