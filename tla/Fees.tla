-------------------------------- MODULE Fees --------------------------------
(***************************************************************************)
(* Fee arithmetic of one withdrawal, as the on-chain program computes it   *)
(* (programs/solnadocash/src/withdraw.rs), and the runtime's rent rule it  *)
(* has to respect. Amounts are lamports, up to a common scale.             *)
(*                                                                         *)
(* The program uses checked u64 arithmetic. Every sum here is bounded by   *)
(* the total supply of lamports (about 6 * 10^17), far below 2^64, so the  *)
(* additions cannot overflow; the subtractions that could go below zero    *)
(* are guards.                                                             *)
(***************************************************************************)
EXTENDS Integers

MaxRelayerFeeDivisor == 50   \* relayer ceiling: 2% of the denomination
TreasuryFeeDivisor   == 500  \* protocol fee: 0.2% of the denomination

RelayerFeeCap(denomination) == denomination \div MaxRelayerFeeDivisor
TreasuryFee(denomination)   == denomination \div TreasuryFeeDivisor

\* What is left for the recipient before the protocol fee is routed.
UserAmount(denomination, taken) ==
    denomination - TreasuryFee(denomination) - taken

\* compute_fee_split returns Ok.
FeeSplitAccepted(denomination, taken, feeMax) ==
    /\ taken <= feeMax
    /\ feeMax <= RelayerFeeCap(denomination)
    /\ UserAmount(denomination, taken) > 0

WorstCaseUserAmount(denomination) ==
    denomination - TreasuryFee(denomination) - RelayerFeeCap(denomination)

-----------------------------------------------------------------------------
\* Rent (external: the Solana runtime). minimum_balance is linear in the size
\* of the account plus a fixed overhead; the rate is a cluster parameter.
AccountOverhead == 128

MinimumBalance(rate, space) == (AccountOverhead + space) * rate

\* A transaction may leave an account empty, or rent exempt, or (when it was
\* below the minimum already) no richer than it was. "pre" and "post" are its
\* lamports, "preSpace" and "space" its size.
RentStateOk(rate, pre, preSpace, post, space) ==
    \/ post = 0
    \/ post >= MinimumBalance(rate, space)
    \/ pre > 0 /\ pre < MinimumBalance(rate, preSpace)
       /\ preSpace = space /\ post <= pre

-----------------------------------------------------------------------------
\* route_treasury_fee: the credit is withheld when it would leave a treasury
\* that nothing else funds below its rent minimum.
TreasuryFeeRedirected(fee, balance, space, isPayee, rate) ==
    /\ ~isPayee
    /\ fee # 0
    /\ balance + fee < MinimumBalance(rate, space)

\* Mutant of RoutedFee: the fee is always paid to the treasury (M-1).
UnroutedFee(fee, balance, space, isPayee, rate) == fee

RoutedFee(fee, balance, space, isPayee, rate) ==
    IF TreasuryFeeRedirected(fee, balance, space, isPayee, rate) THEN 0 ELSE fee
=============================================================================
