----------------------------- MODULE RelayerFees -----------------------------
(***************************************************************************)
(* What the reference relayer quotes, spends and charges for a withdrawal  *)
(* (relayer/src/fees.js, and the two routes of relayer/src/api.js that use *)
(* it), and what a client makes of a quote (sdk/src/fees.ts).  Amounts are *)
(* lamports; a priority price is in micro-lamports per compute unit. The   *)
(* code works in doubles and BigInts on amounts far below 2^53, so integer *)
(* arithmetic is exact.                                                    *)
(***************************************************************************)
EXTENDS Integers

BaseFee         == 5000
ComputeUnits    == 200000
MicroPerLamport == 1000000
NullifierRent   == 1056640   \* when the chain cannot be read

Smaller(a, b) == IF a < b THEN a ELSE b
Larger(a, b)  == IF a > b THEN a ELSE b

\* Rounded up.
PriorityFeeLamports(perCU) ==
    (perCU * ComputeUnits + MicroPerLamport - 1) \div MicroPerLamport

\* Rounded down.
PriorityPerCUFromLamports(amount) ==
    IF amount <= 0 THEN 0 ELSE (amount * MicroPerLamport) \div ComputeUnits

RelayerCost(perCU, rent) == BaseFee + PriorityFeeLamports(perCU) + rent

\* Cost plus a margin of one half, rounded up.
FeeMaxFromCost(cost) == (3 * cost + 1) \div 2

OnChainCap(denomination) == denomination \div 50

-----------------------------------------------------------------------------
(* /fee_quote *)

QuoteRefused(cost, denomination) == cost > OnChainCap(denomination)

QuotedFeeMax(cost, denomination) ==
    Smaller(FeeMaxFromCost(cost), OnChainCap(denomination))

TreasuryFee(denomination) == denomination \div 500

MinUserReceives(denomination, feeMax) ==
    denomination - TreasuryFee(denomination) - feeMax

\* The answer, of a pool and a cost that are not refused.
FeeQuote(cost, denomination) ==
    LET feeMax == QuotedFeeMax(cost, denomination)
    IN [relayerFeeMax |-> feeMax,
        estimatedUserReceives |-> MinUserReceives(denomination, feeMax)]

-----------------------------------------------------------------------------
(* The client *)

\* The SDK computes no fee of less than 500 lamports.
Denominated(denomination) == denomination >= 500

\* validateFeeQuote does not throw; the quote has not expired.
QuoteAccepted(quote, denomination) ==
    /\ Denominated(denomination)
    /\ quote.relayerFeeMax >= 0
    /\ quote.relayerFeeMax <= OnChainCap(denomination)
    /\ MinUserReceives(denomination, quote.relayerFeeMax) > 0
    /\ quote.estimatedUserReceives
         = MinUserReceives(denomination, quote.relayerFeeMax)

-----------------------------------------------------------------------------
(* /submit_proof *)

\* The least ceiling the relayer signs for.
SubmitFloor(rent) == BaseFee + rent

\* planFee: the price it attaches, what it then spends, and what it charges.
AppliedPerCU(feeMax, rent, estimate) ==
    LET affordable == Larger(0, feeMax - (BaseFee + rent))
    IN PriorityPerCUFromLamports(
           Smaller(PriorityFeeLamports(estimate), affordable))

PlannedSpend(feeMax, rent, estimate) ==
    BaseFee + rent + PriorityFeeLamports(AppliedPerCU(feeMax, rent, estimate))

ActualFee(feeMax, rent, estimate) ==
    Smaller(PlannedSpend(feeMax, rent, estimate), feeMax)

Subsidy(feeMax, rent, estimate) ==
    PlannedSpend(feeMax, rent, estimate) - ActualFee(feeMax, rent, estimate)
=============================================================================
