------------------------------- MODULE Escrow -------------------------------
(***************************************************************************)
(* What a pool promises, without accounts, roots or proofs: an escrow that *)
(* takes one denomination per deposit and gives one back per claim. A      *)
(* deposit may create a claim - the nullifier of the note it commits to -  *)
(* or none (a commitment nobody can open), or one that exists already (a   *)
(* note deposited twice). A claim is redeemed at most once.                *)
(***************************************************************************)
EXTENDS Integers, FiniteSets

CONSTANTS Nullifiers, Denomination

VARIABLES
    deposits,  \* how many deposits were made
    claims,    \* nullifiers that entitle to one denomination
    redeemed,  \* claims that were paid
    balance    \* what the escrow holds

vars == <<deposits, claims, redeemed, balance>>

Init ==
    /\ deposits = 0
    /\ claims = {}
    /\ redeemed = {}
    /\ balance \in Nat

Deposit(created) ==
    /\ deposits' = deposits + 1
    /\ claims' = claims \cup created
    /\ balance' = balance + Denomination
    /\ UNCHANGED redeemed

Redeem(claim) ==
    /\ claim \in claims \ redeemed
    /\ balance >= Denomination
    /\ redeemed' = redeemed \cup {claim}
    /\ balance' = balance - Denomination
    /\ UNCHANGED <<deposits, claims>>

\* Anyone may send it more.
Donate ==
    /\ balance' \in Nat
    /\ balance' > balance
    /\ UNCHANGED <<deposits, claims, redeemed>>

Next ==
    \/ \E created \in {{}} \cup {{f} : f \in Nullifiers} : Deposit(created)
    \/ \E claim \in Nullifiers : Redeem(claim)
    \/ Donate

Spec == Init /\ [][Next]_vars
=============================================================================
