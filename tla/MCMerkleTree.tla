---------------------------- MODULE MCMerkleTree ----------------------------
(***************************************************************************)
(* A tree of eight leaves, filled to one below its capacity with two       *)
(* commitments and the zero leaf, in every order and with repetitions.     *)
(***************************************************************************)
EXTENDS MerkleTree
=============================================================================
