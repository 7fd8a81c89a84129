---------------------------- MODULE RelayerProofs ----------------------------
(***************************************************************************)
(* Proofs about the relayer, for any number of submissions, notes, rents,  *)
(* ceilings and priority prices.                                           *)
(***************************************************************************)
EXTENDS Relayer, TLAPS

(* Fee arithmetic *)

\* A price that can be converted into lamports and back costs those lamports:
\* what setComputeUnitPrice attaches is what the relayer charges for.
LEMMA PriceRoundTrip ==
    ASSUME NEW amount \in Nat
    PROVE  /\ PriorityPerCUFromLamports(amount) \in Nat
           /\ PriorityFeeLamports(PriorityPerCUFromLamports(amount)) = amount
<1>1. PriorityPerCUFromLamports(amount) = 5 * amount
    BY DEF PriorityPerCUFromLamports, MicroPerLamport, ComputeUnits
<1>2. PriorityFeeLamports(5 * amount) = amount
    BY DEF PriorityFeeLamports, MicroPerLamport, ComputeUnits
<1> QED BY <1>1, <1>2

LEMMA PriorityFeeType ==
    ASSUME NEW perCU \in Nat
    PROVE  PriorityFeeLamports(perCU) \in Nat
BY DEF PriorityFeeLamports, MicroPerLamport, ComputeUnits

\* planFee never spends more than a ceiling that covers the floor, and charges
\* exactly what it spends: no congestion, whatever the price, makes it subsidise.
THEOREM PlanIsReimbursed ==
    ASSUME NEW feeMax \in Nat, NEW rent \in Nat, NEW estimate \in Nat,
           feeMax >= SubmitFloor(rent)
    PROVE  /\ AppliedPerCU(feeMax, rent, estimate) \in Nat
           /\ PlannedSpend(feeMax, rent, estimate) <= feeMax
           /\ ActualFee(feeMax, rent, estimate) \in Nat
           /\ ActualFee(feeMax, rent, estimate)
                = BaseFee + rent + PriorityFeeLamports(AppliedPerCU(feeMax, rent, estimate))
           /\ Subsidy(feeMax, rent, estimate) = 0
<1> DEFINE afford == feeMax - (BaseFee + rent)
           amount == Smaller(PriorityFeeLamports(estimate), Larger(0, afford))
<1>1. afford \in Nat /\ Larger(0, afford) = afford
    BY DEF SubmitFloor, BaseFee, Larger
<1>2. PriorityFeeLamports(estimate) \in Nat
    BY PriorityFeeType
<1>3. amount \in Nat /\ amount <= afford
    BY <1>1, <1>2 DEF Smaller
<1>4. AppliedPerCU(feeMax, rent, estimate) = PriorityPerCUFromLamports(amount)
    BY DEF AppliedPerCU
<1> HIDE DEF amount
<1>5. /\ AppliedPerCU(feeMax, rent, estimate) \in Nat
      /\ PriorityFeeLamports(AppliedPerCU(feeMax, rent, estimate)) = amount
    BY <1>3, <1>4, PriceRoundTrip
<1>6. PlannedSpend(feeMax, rent, estimate) = BaseFee + rent + amount
    BY <1>5 DEF PlannedSpend
<1>7. BaseFee + rent + amount \in Nat /\ BaseFee + rent + amount <= feeMax
    BY <1>1, <1>3 DEF BaseFee
<1>8. ActualFee(feeMax, rent, estimate) = BaseFee + rent + amount
    BY <1>6, <1>7 DEF ActualFee, Smaller, BaseFee
<1> QED BY <1>5, <1>6, <1>7, <1>8 DEF Subsidy

\* A quote that is not refused is within the pool's cap and covers the cost it
\* was made from: as long as the rent has not risen, the submit route's floor
\* does not refuse a client that proves with it.
THEOREM QuoteIsHonoured ==
    ASSUME NEW denomination \in Nat, NEW perCU \in Nat, NEW rent \in Nat,
           ~QuoteRefused(RelayerCost(perCU, rent), denomination)
    PROVE  LET feeMax == QuotedFeeMax(RelayerCost(perCU, rent), denomination)
           IN /\ feeMax \in Nat
              /\ feeMax <= OnChainCap(denomination)
              /\ feeMax >= SubmitFloor(rent)
              /\ feeMax >= RelayerCost(perCU, rent)
<1> DEFINE cost == RelayerCost(perCU, rent)
           cap  == OnChainCap(denomination)
<1>1. PriorityFeeLamports(perCU) \in Nat
    BY PriorityFeeType
<1>2. cost \in Nat /\ cost >= SubmitFloor(rent) /\ SubmitFloor(rent) \in Nat
    BY <1>1 DEF RelayerCost, SubmitFloor, BaseFee
<1>3. cap \in Nat /\ cost <= cap
    BY <1>2 DEF OnChainCap, QuoteRefused
<1> HIDE DEF cost, cap
<1>4. FeeMaxFromCost(cost) \in Nat /\ FeeMaxFromCost(cost) >= cost
    BY <1>2 DEF FeeMaxFromCost
<1>5. /\ QuotedFeeMax(cost, denomination) \in Nat
      /\ QuotedFeeMax(cost, denomination) <= cap
      /\ QuotedFeeMax(cost, denomination) >= cost
    BY <1>3, <1>4, <1>2 DEF QuotedFeeMax, Smaller, cap
<1>6. QuotedFeeMax(cost, denomination) >= SubmitFloor(rent)
    BY <1>2, <1>5
<1> QED BY <1>5, <1>6 DEF cost, cap

\* The amount shown is a floor: the relayer's quote passes the client's check,
\* which computes the same figures on its own (validateFeeQuote, H-4), and
\* whatever rent and price the submit route then finds, what it charges leaves
\* the recipient no less than the quote said.
THEOREM QuotedAmountIsAFloor ==
    ASSUME NEW denomination \in Nat, Denominated(denomination),
           NEW perCU \in Nat, NEW rent \in Nat,
           ~QuoteRefused(RelayerCost(perCU, rent), denomination),
           NEW laterRent \in Nat, NEW estimate \in Nat
    PROVE  LET quote == FeeQuote(RelayerCost(perCU, rent), denomination)
               fee   == ActualFee(quote.relayerFeeMax, laterRent, estimate)
           IN /\ QuoteAccepted(quote, denomination)
              /\ fee <= quote.relayerFeeMax
              /\ MinUserReceives(denomination, fee) >= quote.estimatedUserReceives
<1> DEFINE feeMax == QuotedFeeMax(RelayerCost(perCU, rent), denomination)
           spend  == PlannedSpend(feeMax, laterRent, estimate)
           fee    == ActualFee(feeMax, laterRent, estimate)
           quote  == FeeQuote(RelayerCost(perCU, rent), denomination)
<1>1. feeMax \in Nat /\ feeMax <= OnChainCap(denomination)
    BY QuoteIsHonoured
<1>2. /\ quote.relayerFeeMax = feeMax
      /\ quote.estimatedUserReceives = MinUserReceives(denomination, feeMax)
    BY DEF FeeQuote
<1> HIDE DEF feeMax, quote
<1>3. spend \in Int
    <2>1. Larger(0, feeMax - (BaseFee + laterRent)) \in Nat
        BY <1>1 DEF Larger, BaseFee
    <2>2. PriorityFeeLamports(estimate) \in Nat
        BY PriorityFeeType
    <2>3. Smaller(PriorityFeeLamports(estimate),
                  Larger(0, feeMax - (BaseFee + laterRent))) \in Nat
        BY <2>1, <2>2 DEF Smaller
    <2>4. PriorityFeeLamports(AppliedPerCU(feeMax, laterRent, estimate)) \in Nat
        BY <2>3, PriceRoundTrip DEF AppliedPerCU
    <2> QED BY <2>4 DEF PlannedSpend, BaseFee
<1> HIDE DEF spend
<1>4. fee \in Int /\ fee <= feeMax
    BY <1>1, <1>3 DEF ActualFee, Smaller, spend
<1> HIDE DEF fee
<1>5. /\ TreasuryFee(denomination) \in Nat
      /\ MinUserReceives(denomination, feeMax) > 0
    BY <1>1 DEF TreasuryFee, MinUserReceives, OnChainCap, Denominated
<1>6. MinUserReceives(denomination, fee) >= MinUserReceives(denomination, feeMax)
    BY <1>1, <1>4, <1>5 DEF MinUserReceives
<1>7. QuoteAccepted(quote, denomination)
    BY <1>1, <1>2, <1>5 DEF QuoteAccepted
<1> QED BY <1>2, <1>4, <1>6, <1>7 DEF quote, feeMax, fee

-----------------------------------------------------------------------------
(* Type correctness *)

\* The step a submission is at tells which local variables it has.
LEMMA RequestCases ==
    ASSUME NEW q \in Request
    PROVE  /\ q.pc \in Steps <=> q \in Handling
           /\ q.pc = "confirm" <=> q \in Confirming
           /\ q.pc \in {"new", "answered"} <=> q \in Idle
BY DEF Request, Idle, Handling, Confirming, Steps

\* The status of a transaction tells what is known of it.
LEMMA TxCases ==
    ASSUME NEW t \in TxState
    PROVE  /\ t.status = "sent" <=> t \in InFlight
           /\ t.status = "none" <=> t \in Unsent
           /\ t.status \notin {"none", "sent"} <=> t \in Done
BY DEF TxState, Unsent, InFlight, Done, Answers, Refusals

LEMMA PlanTypes ==
    ASSUME NEW feeMax \in Nat, NEW rent \in Nat, NEW estimate \in Nat
    PROVE  /\ AppliedPerCU(feeMax, rent, estimate) \in Nat
           /\ ActualFee(feeMax, rent, estimate) \in Nat
           /\ ~(Subsidy(feeMax, rent, estimate) > 0) =>
                ActualFee(feeMax, rent, estimate)
                  = BaseFee + rent + PriorityFeeLamports(AppliedPerCU(feeMax, rent, estimate))
<1> DEFINE amount == Smaller(PriorityFeeLamports(estimate),
                             Larger(0, feeMax - (BaseFee + rent)))
<1>1. amount \in Nat
    BY PriorityFeeType DEF Smaller, Larger, BaseFee
<1>2. AppliedPerCU(feeMax, rent, estimate) = PriorityPerCUFromLamports(amount)
    BY DEF AppliedPerCU
<1> HIDE DEF amount
<1>3. AppliedPerCU(feeMax, rent, estimate) \in Nat
    BY <1>1, <1>2, PriceRoundTrip
<1> DEFINE spend == PlannedSpend(feeMax, rent, estimate)
<1>4. spend = BaseFee + rent + PriorityFeeLamports(AppliedPerCU(feeMax, rent, estimate))
    BY DEF PlannedSpend
<1>5. spend \in Nat
    BY <1>3, <1>4, PriorityFeeType DEF BaseFee
<1>6. ActualFee(feeMax, rent, estimate) = Smaller(spend, feeMax)
    BY DEF ActualFee
<1>7. Subsidy(feeMax, rent, estimate) = spend - Smaller(spend, feeMax)
    BY <1>6 DEF Subsidy
<1> HIDE DEF spend
<1>8. ~(Subsidy(feeMax, rent, estimate) > 0) => Smaller(spend, feeMax) = spend
    BY <1>5, <1>7 DEF Smaller
<1> QED BY <1>3, <1>4, <1>5, <1>6, <1>8 DEF Smaller

LEMMA AnswerTypes ==
    ASSUME TypeOK, NEW r \in Requests, NEW answer \in Answers, Answer(r, answer)
    PROVE  /\ req' \in [Requests -> Request]
           /\ pending' \subseteq Notes
<1>1. Answered(answer) \in Request
    BY DEF Answered, Request, Idle
<1> QED BY <1>1 DEF TypeOK, Answer, Release

\* A handler that goes on keeps its local variables.
LEMMA StepTypes ==
    ASSUME TypeOK, NEW r \in Requests, req[r].pc \in Steps, NEW q \in Handling,
           req' = [req EXCEPT ![r] = q]
    PROVE  req' \in [Requests -> Request]
BY DEF TypeOK, Request

LEMMA HandlingFields ==
    ASSUME TypeOK, NEW r \in Requests, req[r].pc \in Steps
    PROVE  /\ req[r] \in Handling
           /\ req[r].note \in Notes /\ req[r].feeMax \in Nat
           /\ req[r].at \in 1 .. MaxDeposits
           /\ req[r].rent \in Nat /\ req[r].perCU \in Nat /\ req[r].fee \in Nat
<1>1. req[r] \in Handling
    BY RequestCases DEF TypeOK
<1> QED BY <1>1, RelayerAssumption DEF Handling

LEMMA RentTypes ==
    ASSUME TypeOK, NEW read \in RentReads
    PROVE  read.rent \in Nat /\ read.cache \in CachedRent
<1> DEFINE Cached == [rent : Rents, fresh : BOOLEAN]
<1>1. /\ rentNow \in Rents /\ Rents \subseteq Nat
      /\ rentCache \in CachedRent /\ CachedRent = {NoRent} \cup Cached
    BY RelayerAssumption DEF TypeOK, CachedRent
<1>2. \A c \in Cached : c.rent \in Nat
    BY <1>1
<1>3. NullifierRent \in Nat
    BY SMT DEF NullifierRent
<1>4. [rent |-> rentNow, fresh |-> TRUE] \in Cached
    BY <1>1
<1> HIDE DEF Cached
<1>5. rentCache # NoRent => rentCache.rent \in Nat
    BY <1>1, <1>2
<1>6. FallbackRent \in Nat
    BY <1>3, <1>5 DEF FallbackRent
<1>7. CASE CacheFresh
    <2>1. read = [rent |-> rentCache.rent, cache |-> rentCache]
        BY <1>7 DEF RentReads
    <2> QED BY <2>1, <1>1, <1>5, <1>7 DEF CacheFresh
<1>8. CASE ~CacheFresh
    <2> DEFINE fromChain == [rent |-> rentNow, fresh |-> TRUE]
    <2>1. RentReads = {[rent |-> rentNow, cache |-> fromChain],
                       [rent |-> FallbackRent, cache |-> rentCache]}
        BY <1>8 DEF RentReads, CacheAfterFailure
    <2>2. fromChain \in Cached
        BY <1>4
    <2> HIDE DEF fromChain
    <2>3. \/ read.rent = rentNow /\ read.cache = fromChain
          \/ read.rent = FallbackRent /\ read.cache = rentCache
        BY <2>1
    <2> QED BY <2>2, <2>3, <1>1, <1>6
<1> QED BY <1>7, <1>8

LEMMA RejectTypes ==
    \A note, at, fees : ChainRejects(note, at, fees) \in Answers
BY DEF ChainRejects, Answers, Refusals

-----------------------------------------------------------------------------
(* The inductive invariant *)

\* A fee that is exactly what the transaction costs the relayer.
ExactFee(fee, rent, priority) == fee = BaseFee + rent + priority

PricedRequest(q) ==
    q.pc \in {"balance", "preflight", "send"} =>
        ExactFee(q.fee, q.rent, PriorityFeeLamports(q.perCU))

PricedTx(t) == t.status = "sent" => ExactFee(t.fee, t.rentRead, t.priority)

Priced == \A r \in Requests : PricedRequest(req[r]) /\ PricedTx(tx[r])

IInv == TypeOK /\ GuardMatchesHandlers /\ Priced

-----------------------------------------------------------------------------
(* What a step of a handler may do *)

\* The handler answers, or goes on with local variables q of the same note.
GoesOn(r) ==
    \E q \in Handling \cup Confirming :
        /\ q.note = req[r].note
        /\ PricedRequest(q)
        /\ req' = [req EXCEPT ![r] = q]
        /\ pending' = pending

Replies(r) == \E answer \in Answers : Answer(r, answer)

LEMMA LoadPoolShape ==
    ASSUME IInv, NEW r \in Requests, LoadPool(r)
    PROVE  Replies(r) \/ GoesOn(r)
<1>1. PICK h \in Handling : h = req[r]
    BY HandlingFields DEF LoadPool, Steps, IInv
<1>0. CASE NotAPool(r)
    BY <1>0 DEF NotAPool, Replies, Answers, Refusals
<1>a. SUFFICES ASSUME ~NotAPool(r) PROVE Replies(r) \/ GoesOn(r)
    BY <1>0
<1>2. PICK known \in BOOLEAN :
         IF h.feeMax > OnChainCap(Denomination)
         THEN Answer(r, "RelayerFeeMaxTooHigh")
         ELSE /\ req' = [req EXCEPT ![r].pc = "rent", ![r].knownRoot = known]
              /\ UNCHANGED pending
    BY <1>1, <1>a DEF LoadPool, RootKept
<1> DEFINE q == [h EXCEPT !.pc = "rent", !.knownRoot = known]
<1>3. q \in Handling /\ q.note = h.note /\ q.pc = "rent"
    BY DEF Handling, Steps
<1>4. CASE h.feeMax > OnChainCap(Denomination)
    BY <1>2, <1>4 DEF Replies, Answers, Refusals
<1>5. CASE ~(h.feeMax > OnChainCap(Denomination))
    <2>1. req' = [req EXCEPT ![r] = q] /\ pending' = pending
        BY <1>1, <1>2, <1>5
    <2> QED BY <2>1, <1>1, <1>3 DEF GoesOn, PricedRequest
<1> QED BY <1>4, <1>5

LEMMA ReadRentShape ==
    ASSUME IInv, NEW r \in Requests, ReadRent(r)
    PROVE  (Replies(r) \/ GoesOn(r)) /\ rentCache' \in CachedRent
<1>1. PICK h \in Handling : h = req[r]
    BY HandlingFields DEF ReadRent, Steps, IInv
<1>2. PICK read \in RentReads :
        /\ rentCache' = read.cache
        /\ IF CeilingCoversFloor(h.feeMax, read.rent)
           THEN /\ req' = [req EXCEPT ![r].pc = "plan", ![r].rent = read.rent]
                /\ UNCHANGED pending
           ELSE Answer(r, "RelayerFeeBelowCost")
    BY <1>1 DEF ReadRent
<1>3. PICK rent \in Nat : rent = read.rent
    BY RentTypes DEF IInv
<1>4. rentCache' \in CachedRent
    BY <1>2, RentTypes DEF IInv
<1> DEFINE q == [h EXCEPT !.pc = "plan", !.rent = rent]
<1>5. q \in Handling /\ q.note = h.note /\ q.pc = "plan"
    BY DEF Handling, Steps
<1>6. CASE ~CeilingCoversFloor(h.feeMax, read.rent)
    BY <1>2, <1>4, <1>6 DEF Replies, Answers, Refusals
<1>7. CASE CeilingCoversFloor(h.feeMax, read.rent)
    <2>1. req' = [req EXCEPT ![r] = q] /\ pending' = pending
        BY <1>1, <1>2, <1>3, <1>7
    <2> QED BY <2>1, <1>1, <1>4, <1>5 DEF GoesOn, PricedRequest
<1> QED BY <1>6, <1>7

LEMMA PlanFeeShape ==
    ASSUME IInv, NEW r \in Requests, NEW estimate \in EstimatedPrices,
           PlanFee(r, estimate)
    PROVE  Replies(r) \/ GoesOn(r)
<1>1. PICK h \in Handling : h = req[r]
    BY HandlingFields DEF PlanFee, Steps, IInv
<1>2. h.feeMax \in Nat /\ h.rent \in Nat /\ estimate \in Nat
    <2>1. h.feeMax \in Ceilings /\ h.rent \in Nat
        BY DEF Handling
    <2>2. \A c \in Ceilings : c \in Nat
        BY RelayerAssumption
    <2>3. estimate \in Nat
        BY RelayerAssumption DEF EstimatedPrices
    <2> QED BY <2>1, <2>2, <2>3
<1>3. PICK perCU \in Nat, fee \in Nat :
        /\ perCU = AppliedPerCU(h.feeMax, h.rent, estimate)
        /\ fee = ActualFee(h.feeMax, h.rent, estimate)
    BY <1>2, PlanTypes
<1>4. CASE Subsidy(h.feeMax, h.rent, estimate) > 0
    <2>1. Answer(r, "RelayerFeeBelowCost")
        BY <1>1, <1>4 DEF PlanFee
    <2> QED BY <2>1 DEF Replies, Answers, Refusals
<1>5. CASE ~(Subsidy(h.feeMax, h.rent, estimate) > 0)
    <2>1. fee = BaseFee + h.rent + PriorityFeeLamports(perCU)
        BY <1>2, <1>3, <1>5, PlanTypes
    <2> DEFINE q == [h EXCEPT !.pc = "balance", !.perCU = perCU, !.fee = fee]
    <2>2. /\ q \in Handling /\ q.note = h.note /\ q.pc = "balance"
          /\ q.rent = h.rent /\ q.perCU = perCU /\ q.fee = fee
        BY DEF Handling, Steps
    <2>3. req' = [req EXCEPT ![r] = q] /\ pending' = pending
        BY <1>1, <1>3, <1>5 DEF PlanFee, AttachedPerCU
    <2> HIDE DEF q
    <2>4. PricedRequest(q)
        BY <2>1, <2>2 DEF PricedRequest, ExactFee
    <2> QED BY <2>2, <2>3, <2>4, <1>1 DEF GoesOn
<1> QED BY <1>4, <1>5

LEMMA CheckBalanceShape ==
    ASSUME IInv, NEW r \in Requests, CheckBalance(r)
    PROVE  Replies(r) \/ GoesOn(r)
<1>1. PICK h \in Handling : h = req[r] /\ h.pc = "balance"
    BY HandlingFields DEF CheckBalance, Steps, IInv
<1>2. PricedRequest(h)
    BY <1>1 DEF IInv, Priced
<1> DEFINE q == [h EXCEPT !.pc = "preflight"]
<1>3. /\ q \in Handling /\ q.note = h.note /\ q.pc = "preflight"
      /\ q.rent = h.rent /\ q.perCU = h.perCU /\ q.fee = h.fee
    BY DEF Handling, Steps
<1>4. CASE balance < MinimumBalanceToServe
    BY <1>4 DEF CheckBalance, Replies, Answers, Refusals
<1>5. CASE ~(balance < MinimumBalanceToServe)
    <2>1. req' = [req EXCEPT ![r] = q] /\ pending' = pending
        BY <1>1, <1>5 DEF CheckBalance
    <2> HIDE DEF q
    <2>2. PricedRequest(q)
        BY <1>1, <1>2, <1>3 DEF PricedRequest
    <2> QED BY <2>1, <2>2, <1>1, <1>3 DEF GoesOn
<1> QED BY <1>4, <1>5

LEMMA PreflightShape ==
    ASSUME IInv, NEW r \in Requests, Preflight(r)
    PROVE  Replies(r) \/ GoesOn(r)
<1>1. PICK h \in Handling : h = req[r] /\ h.pc = "preflight"
    BY HandlingFields DEF Preflight, Steps, IInv
<1>2. PricedRequest(h)
    BY <1>1 DEF IInv, Priced
<1> DEFINE q == [h EXCEPT !.pc = "send"]
<1>3. /\ q \in Handling /\ q.note = h.note /\ q.pc = "send"
      /\ q.rent = h.rent /\ q.perCU = h.perCU /\ q.fee = h.fee
    BY DEF Handling, Steps
<1>4. \/ Answer(r, "StaleRoot") \/ Answer(r, "NullifierSpent")
      \/ Answer(r, "InvalidProof")
      \/ req' = [req EXCEPT ![r].pc = "send"] /\ pending' = pending
    BY DEF Preflight, ProofRefused
<1>5. CASE \/ Answer(r, "StaleRoot") \/ Answer(r, "NullifierSpent")
           \/ Answer(r, "InvalidProof")
    BY <1>5 DEF Replies, Answers, Refusals
<1>6. CASE req' = [req EXCEPT ![r].pc = "send"] /\ pending' = pending
    <2>1. req' = [req EXCEPT ![r] = q]
        BY <1>1, <1>6
    <2> HIDE DEF q
    <2>2. PricedRequest(q)
        BY <1>1, <1>2, <1>3 DEF PricedRequest
    <2> QED BY <2>1, <2>2, <1>1, <1>3, <1>6 DEF GoesOn
<1> QED BY <1>4, <1>5, <1>6

\* A transaction is sent at most once per submission, and its fee is exact.
Sends(r) ==
    \E t \in InFlight : PricedTx(t) /\ tx' = [tx EXCEPT ![r] = t]

LEMMA SendShape ==
    ASSUME IInv, NEW r \in Requests, Send(r)
    PROVE  (Replies(r) \/ GoesOn(r)) /\ (UNCHANGED tx \/ Sends(r))
<1>1. PICK h \in Handling : h = req[r] /\ h.pc = "send"
    BY HandlingFields DEF Send, Steps, IInv
<1>2. PricedRequest(h)
    BY <1>1 DEF IInv, Priced
<1>3. PriorityFeeLamports(h.perCU) \in Nat
    BY PriorityFeeType DEF Handling
<1> DEFINE rejected == ChainRejects(h.note, h.at, TxFees(PriorityFeeLamports(h.perCU)))
<1>4. rejected \in Answers
    BY RejectTypes
<1>5. \/ Answer(r, rejected) /\ UNCHANGED tx
      \/ /\ tx' = [tx EXCEPT ![r] = NewTx(r, FALSE)]
         /\ req' = [req EXCEPT ![r] = [pc |-> "confirm", note |-> req[r].note]]
         /\ pending' = pending
      \/ tx' = [tx EXCEPT ![r] = NewTx(r, TRUE)] /\ Answer(r, "InternalError")
    BY <1>1 DEF Send
<1> HIDE DEF rejected
<1>6. ASSUME NEW orphan \in BOOLEAN
      PROVE  NewTx(r, orphan) \in InFlight /\ PricedTx(NewTx(r, orphan))
    <2>1. PICK t : t = NewTx(r, orphan)
        OBVIOUS
    <2>2. /\ t \in InFlight /\ t.fee = h.fee /\ t.rentRead = h.rent
          /\ t.priority = PriorityFeeLamports(h.perCU)
        BY <1>1, <1>3, <2>1 DEF NewTx, InFlight, Handling
    <2>3. PricedTx(t)
        BY <1>1, <1>2, <2>2 DEF PricedTx, PricedRequest, ExactFee
    <2> QED BY <2>1, <2>2, <2>3
<1>7. CASE Answer(r, rejected) /\ UNCHANGED tx
    BY <1>4, <1>7 DEF Replies
<1>8. CASE tx' = [tx EXCEPT ![r] = NewTx(r, TRUE)] /\ Answer(r, "InternalError")
    <2>1. Sends(r)
        BY <1>6, <1>8 DEF Sends
    <2>2. Replies(r)
        BY <1>8 DEF Replies, Answers
    <2> QED BY <2>1, <2>2
<1>9. CASE /\ tx' = [tx EXCEPT ![r] = NewTx(r, FALSE)]
           /\ req' = [req EXCEPT ![r] = [pc |-> "confirm", note |-> req[r].note]]
           /\ pending' = pending
    <2>1. Sends(r)
        BY <1>6, <1>9 DEF Sends
    <2> DEFINE q == [pc |-> "confirm", note |-> req[r].note]
    <2>2. q \in Confirming /\ q.note = req[r].note /\ PricedRequest(q)
        BY <1>1 DEF Confirming, Handling, PricedRequest
    <2>3. GoesOn(r)
        BY <1>9, <2>2 DEF GoesOn
    <2> QED BY <2>1, <2>3
<1> QED BY <1>5, <1>7, <1>8, <1>9

LEMMA ConfirmShape ==
    ASSUME IInv, NEW r \in Requests, Confirm(r)
    PROVE  Replies(r)
<1>1. tx[r] \in TxState
    BY DEF IInv, TypeOK
<1>2. tx[r].status \in Answers
    BY <1>1 DEF Confirm, Resolves, TxState, Unsent, InFlight, Done, Answers
<1> QED BY <1>2 DEF Confirm, ConfirmedAnswer, Replies

\* Every step of a handler answers or goes on, sends at most its transaction,
\* and leaves the chain and the wallet alone.
LEMMA HandleShape ==
    ASSUME IInv, NEW r \in Requests, Handle(r)
    PROVE  /\ Active(r)
           /\ Replies(r) \/ GoesOn(r)
           /\ UNCHANGED tx \/ Sends(r)
           /\ rentCache' \in CachedRent
           /\ UNCHANGED <<deposits, spent, rentNow, balance>>
<1>0. rentCache \in CachedRent
    BY DEF IInv, TypeOK
<1>1. CASE LoadPool(r)
    BY <1>0, <1>1, LoadPoolShape DEF LoadPool, chain, ledger, Active
<1>2. CASE ReadRent(r)
    BY <1>2, ReadRentShape DEF ReadRent, chain, ledger, Active
<1>3. CASE \E estimate \in EstimatedPrices : PlanFee(r, estimate)
    BY <1>0, <1>3, PlanFeeShape DEF PlanFee, chain, ledger, Active
<1>4. CASE CheckBalance(r)
    BY <1>0, <1>4, CheckBalanceShape DEF CheckBalance, chain, ledger, Active
<1>5. CASE Preflight(r)
    BY <1>0, <1>5, PreflightShape DEF Preflight, chain, ledger, Active
<1>6. CASE Send(r)
    BY <1>0, <1>6, SendShape DEF Send, chain, Active
<1>7. CASE Confirm(r)
    BY <1>0, <1>7, ConfirmShape DEF Confirm, chain, ledger, Active
<1>8. CASE \E step \in {"loadPool", "balance", "send"} : RpcFails(r, step)
    BY <1>0, <1>8 DEF RpcFails, chain, ledger, Active, Replies, Answers
<1> QED BY <1>1, <1>2, <1>3, <1>4, <1>5, <1>6, <1>7, <1>8 DEF Handle

-----------------------------------------------------------------------------
(* The invariant is inductive *)

LEMMA InitInvariant == Init => IInv
<1> SUFFICES ASSUME Init PROVE IInv
    OBVIOUS
<1>1. TypeOK
    BY RelayerAssumption DEF Init, TypeOK, Request, Idle, TxState, Unsent, CachedRent
<1>2. GuardMatchesHandlers
    BY DEF Init, GuardMatchesHandlers, Active
<1>3. Priced
    BY DEF Init, Priced, PricedRequest, PricedTx
<1> QED BY <1>1, <1>2, <1>3 DEF IInv

\* The guard, note by note.
LEMMA GuardPointwise ==
    GuardMatchesHandlers <=>
        /\ \A n : n \in pending <=> \E r \in Requests : Active(r) /\ req[r].note = n
        /\ \A r, s \in Requests :
              Active(r) /\ Active(s) /\ req[r].note = req[s].note => r = s
BY DEF GuardMatchesHandlers

LEMMA HandleInvariant ==
    ASSUME IInv, NEW r \in Requests, Handle(r)
    PROVE  IInv'
<1>0. /\ TypeOK /\ GuardMatchesHandlers /\ Priced
      /\ req \in [Requests -> Request] /\ tx \in [Requests -> TxState]
      /\ pending \subseteq Notes
    BY DEF IInv, TypeOK
<1>1. /\ Active(r)
      /\ Replies(r) \/ GoesOn(r)
      /\ UNCHANGED tx \/ Sends(r)
      /\ rentCache' \in CachedRent
      /\ UNCHANGED <<deposits, spent, rentNow, balance>>
    BY HandleShape
\* Either way the record of r alone is replaced.
<1>2. PICK q \in Request :
        /\ req' = [req EXCEPT ![r] = q]
        /\ PricedRequest(q)
        /\ \/ q.pc = "answered" /\ pending' = pending \ {req[r].note}
           \/ /\ q.pc \notin {"new", "answered"} /\ q.note = req[r].note
              /\ pending' = pending
    <2>1. CASE Replies(r)
        <3>1. PICK answer \in Answers : Answer(r, answer)
            BY <2>1 DEF Replies
        <3>2. Answered(answer) \in Request /\ Answered(answer).pc = "answered"
            BY DEF Answered, Request, Idle
        <3> QED BY <3>1, <3>2 DEF Answer, Release, PricedRequest
    <2>2. CASE GoesOn(r)
        <3>1. PICK q \in Handling \cup Confirming :
                /\ q.note = req[r].note /\ PricedRequest(q)
                /\ req' = [req EXCEPT ![r] = q] /\ pending' = pending
            BY <2>2 DEF GoesOn
        <3>2. q \in Request /\ q.pc \notin {"new", "answered"}
            BY DEF Request, Handling, Confirming, Steps
        <3> QED BY <3>1, <3>2
    <2> QED BY <1>1, <2>1, <2>2
<1>3. /\ req'[r] = q
      /\ \A s \in Requests : s # r => req'[s] = req[s]
    BY <1>0, <1>2
<1>4. \A s \in Requests : s # r => (Active(s)' <=> Active(s))
    BY <1>3 DEF Active
<1>5. tx' \in [Requests -> TxState] /\ \A s \in Requests : PricedTx(tx'[s])
    <2>1. CASE UNCHANGED tx
        BY <1>0, <2>1 DEF Priced
    <2>2. CASE Sends(r)
        <3>1. PICK t \in InFlight : PricedTx(t) /\ tx' = [tx EXCEPT ![r] = t]
            BY <2>2 DEF Sends
        <3>2. t \in TxState
            BY DEF TxState
        <3> QED BY <1>0, <3>1, <3>2 DEF Priced
    <2> QED BY <1>1, <2>1, <2>2
<1>6. TypeOK'
    <2>1. req' \in [Requests -> Request] /\ pending' \subseteq Notes
        BY <1>0, <1>2
    <2> QED BY <2>1, <1>0, <1>1, <1>5 DEF TypeOK
<1>7. GuardMatchesHandlers'
    <2>1. /\ \A n : n \in pending <=> \E s \in Requests : Active(s) /\ req[s].note = n
          /\ \A s, u \in Requests :
                Active(s) /\ Active(u) /\ req[s].note = req[u].note => s = u
        BY <1>0, GuardPointwise
    <2>2. CASE q.pc = "answered" /\ pending' = pending \ {req[r].note}
        <3>1. ~Active(r)'
            BY <1>3, <2>2 DEF Active
        <3>2. \A n : n \in pending' <=>
                    \E s \in Requests : Active(s)' /\ req'[s].note = n
            BY <1>1, <1>3, <1>4, <2>1, <2>2, <3>1
        <3>3. \A s, u \in Requests :
                Active(s)' /\ Active(u)' /\ req'[s].note = req'[u].note => s = u
            BY <1>3, <1>4, <2>1, <3>1
        <3> QED BY <3>2, <3>3 DEF GuardMatchesHandlers, Active
    <2>3. CASE /\ q.pc \notin {"new", "answered"} /\ q.note = req[r].note
               /\ pending' = pending
        <3>1. Active(r)'
            BY <1>3, <2>3 DEF Active
        <3>2. \A s \in Requests : (Active(s)' <=> Active(s))
                                  /\ (Active(s) => req'[s].note = req[s].note)
            BY <1>1, <1>3, <1>4, <2>3, <3>1
        <3>3. \A n : n \in pending' <=>
                    \E s \in Requests : Active(s)' /\ req'[s].note = n
            BY <2>1, <2>3, <3>2
        <3>4. \A s, u \in Requests :
                Active(s)' /\ Active(u)' /\ req'[s].note = req'[u].note => s = u
            BY <2>1, <3>2
        <3> QED BY <3>3, <3>4 DEF GuardMatchesHandlers, Active
    <2> QED BY <1>2, <2>2, <2>3
<1>8. Priced'
    <2>1. \A s \in Requests : PricedRequest(req'[s])
        BY <1>0, <1>2, <1>3 DEF Priced
    <2> QED BY <2>1, <1>5 DEF Priced, PricedRequest, PricedTx
<1> QED BY <1>6, <1>7, <1>8 DEF IInv

LEMMA SubmitInvariant ==
    ASSUME IInv, NEW r \in Requests, NEW note \in Notes, NEW feeMax \in Ceilings,
           NEW at \in 1 .. MaxDeposits, Submit(r, note, feeMax, at)
    PROVE  IInv'
<1>0. /\ TypeOK /\ GuardMatchesHandlers /\ Priced
      /\ req \in [Requests -> Request] /\ pending \subseteq Notes
      /\ UNCHANGED <<deposits, spent, rentNow, balance, tx, rentCache>>
    BY DEF IInv, TypeOK, Submit, chain, ledger
<1>1. PICK q \in Request :
        /\ req' = [req EXCEPT ![r] = q]
        /\ PricedRequest(q)
        /\ \/ q.pc = "answered" /\ pending' = pending
           \/ /\ q.pc = "loadPool" /\ q.note = note
              /\ note \notin pending /\ pending' = pending \cup {note}
    <2>1. CASE GuardFree(note)
        <3> DEFINE q == [pc |-> "loadPool", note |-> note,
                         feeMax |-> feeMax, at |-> at, knownRoot |-> FALSE,
                         rent |-> 0, perCU |-> 0, fee |-> 0]
        <3>1. q \in Handling
            BY DEF Handling, Steps
        <3>2. q \in Request /\ PricedRequest(q) /\ q.pc = "loadPool" /\ q.note = note
            BY <3>1 DEF Request, PricedRequest
        <3>3. req' = [req EXCEPT ![r] = q] /\ pending' = pending \cup {note}
            BY <2>1 DEF Submit
        <3> HIDE DEF q
        <3> QED BY <2>1, <3>2, <3>3 DEF GuardFree
    <2>2. CASE ~GuardFree(note)
        <3>1. /\ Answered("NullifierPending") \in Request
              /\ Answered("NullifierPending").pc = "answered"
            BY DEF Answered, Request, Idle, Answers, Refusals
        <3> QED BY <2>2, <3>1 DEF Submit, PricedRequest
    <2> QED BY <2>1, <2>2
<1>2. /\ req'[r] = q /\ req[r].pc = "new"
      /\ \A s \in Requests : s # r => req'[s] = req[s]
    BY <1>0, <1>1 DEF Submit
<1>3. ~Active(r) /\ \A s \in Requests : s # r => (Active(s)' <=> Active(s))
    BY <1>2 DEF Active
<1>4. TypeOK'
    BY <1>0, <1>1 DEF TypeOK
<1>5. GuardMatchesHandlers'
    <2>1. /\ \A n : n \in pending <=> \E s \in Requests : Active(s) /\ req[s].note = n
          /\ \A s, u \in Requests :
                Active(s) /\ Active(u) /\ req[s].note = req[u].note => s = u
        BY <1>0, GuardPointwise
    <2>2. CASE q.pc = "answered" /\ pending' = pending
        <3>1. ~Active(r)'
            BY <1>2, <2>2 DEF Active
        <3>2. \A s \in Requests : (Active(s)' <=> Active(s))
                                  /\ (Active(s) => req'[s].note = req[s].note)
            BY <1>2, <1>3, <3>1
        <3>3. \A n : n \in pending' <=>
                    \E s \in Requests : Active(s)' /\ req'[s].note = n
            BY <2>1, <2>2, <3>2
        <3>4. \A s, u \in Requests :
                Active(s)' /\ Active(u)' /\ req'[s].note = req'[u].note => s = u
            BY <2>1, <3>2
        <3> QED BY <3>3, <3>4 DEF GuardMatchesHandlers, Active
    <2>3. CASE /\ q.pc = "loadPool" /\ q.note = note
               /\ note \notin pending /\ pending' = pending \cup {note}
        <3>1. Active(r)' /\ req'[r].note = note
            BY <1>2, <2>3 DEF Active
        <3>2. \A n : n \in pending' <=>
                    \E s \in Requests : Active(s)' /\ req'[s].note = n
            BY <1>2, <1>3, <2>1, <2>3, <3>1
        <3>3. \A s, u \in Requests :
                Active(s)' /\ Active(u)' /\ req'[s].note = req'[u].note => s = u
            BY <1>2, <1>3, <2>1, <2>3, <3>1
        <3> QED BY <3>2, <3>3 DEF GuardMatchesHandlers, Active
    <2> QED BY <1>1, <2>2, <2>3
<1>6. Priced'
    <2>1. \A s \in Requests : PricedRequest(req'[s])
        BY <1>0, <1>1, <1>2 DEF Priced
    <2> QED BY <2>1, <1>0 DEF Priced, PricedRequest, PricedTx
<1> QED BY <1>4, <1>5, <1>6 DEF IInv

\* What is settled keeps its type, and the wallet stays in the black: the chain
\* executes nothing the wallet cannot pay for.
LEMMA SettleTypes ==
    ASSUME IInv, NEW r \in Requests, Settle(r)
    PROVE  /\ tx[r] \in InFlight
           /\ \E t \in Done : tx' = [tx EXCEPT ![r] = t]
           /\ spent' \subseteq Notes
           /\ balance' \in Nat
           /\ UNCHANGED <<deposits, rentNow, pending, rentCache, req>>
<1>1. /\ tx[r] \in TxState /\ tx[r].status = "sent" /\ spent \subseteq Notes
      /\ balance \in Nat /\ rentNow \in Nat
    BY RelayerAssumption DEF IInv, TypeOK, Settle, Execute, Expire
<1>2. tx[r] \in InFlight
    BY <1>1, TxCases
<1>3. /\ tx[r].note \in Notes /\ tx[r].fee \in Nat /\ tx[r].priority \in Nat
    BY <1>2 DEF InFlight
<1>4. \A status \in Answers \ {"none"} : Settled(tx[r], status) \in Done
    BY <1>3 DEF Settled, Done
<1> DEFINE fees  == TxFees(tx[r].priority)
           error == ChainRejects(tx[r].note, tx[r].at, fees)
<1>5. fees \in Nat
    BY <1>3 DEF TxFees, BaseFee
<1>6. error \in Answers
    BY RejectTypes
<1>7. error = "none" => balance >= fees + rentNow
    BY <1>1, <1>5 DEF ChainRejects
<1> HIDE DEF fees, error
<1>8. CASE Execute(r)
    <2>1. /\ balance >= fees
          /\ error = "none" =>
                /\ tx' = [tx EXCEPT ![r] = Settled(tx[r], "ok")]
                /\ spent' = spent \cup {tx[r].note}
                /\ balance' = balance - fees - rentNow + tx[r].fee
          /\ error # "none" =>
                /\ tx' = [tx EXCEPT ![r] = Settled(tx[r], error)]
                /\ balance' = balance - fees
                /\ spent' = spent
          /\ UNCHANGED <<deposits, rentNow, pending, rentCache, req>>
        BY <1>8 DEF Execute, fees, error
    <2>2. "ok" \in Answers \ {"none"} /\ (error # "none" => error \in Answers \ {"none"})
        BY <1>6 DEF Answers
    <2>3. balance' \in Nat
        BY <2>1, <1>1, <1>3, <1>5, <1>7
    <2>4. \E t \in Done : tx' = [tx EXCEPT ![r] = t]
        BY <2>1, <2>2, <1>4
    <2> QED BY <2>1, <2>3, <2>4, <1>1, <1>2, <1>3
<1>9. CASE Expire(r)
    <2>1. Settled(tx[r], "InternalError") \in Done
        BY <1>4 DEF Answers
    <2> QED BY <2>1, <1>1, <1>2, <1>9 DEF Expire, chain
<1> QED BY <1>8, <1>9 DEF Settle

LEMMA SettleInvariant ==
    ASSUME IInv, NEW r \in Requests, Settle(r)
    PROVE  IInv'
<1>0. /\ TypeOK /\ GuardMatchesHandlers /\ Priced
      /\ tx \in [Requests -> TxState]
    BY DEF IInv, TypeOK
<1>1. PICK t \in Done : tx' = [tx EXCEPT ![r] = t]
    BY SettleTypes
<1>2. /\ spent' \subseteq Notes /\ balance' \in Nat
      /\ UNCHANGED <<deposits, rentNow, pending, rentCache, req>>
    BY SettleTypes
<1>3. t \in TxState /\ PricedTx(t)
    BY DEF TxState, Done, PricedTx, Answers, Refusals
<1>4. TypeOK'
    <2>1. tx' \in [Requests -> TxState]
        BY <1>0, <1>1, <1>3
    <2> QED BY <2>1, <1>0, <1>2 DEF TypeOK
<1>5. GuardMatchesHandlers'
    BY <1>0, <1>2 DEF GuardMatchesHandlers, Active
<1>6. Priced'
    <2>1. \A s \in Requests : PricedTx(tx'[s])
        BY <1>0, <1>1, <1>3 DEF Priced
    <2> QED BY <2>1, <1>0, <1>2 DEF Priced, PricedRequest, PricedTx
<1> QED BY <1>4, <1>5, <1>6 DEF IInv

\* The rest of the world moves the chain or the age of the cached rent only.
LEMMA WorldInvariant ==
    ASSUME IInv,
           LandDeposit \/ SomeSpendElsewhere \/ SomeRentChange \/ AgeRentCache
    PROVE  IInv'
<1>0. /\ TypeOK /\ GuardMatchesHandlers /\ Priced
      /\ deposits \in 1 .. MaxDeposits /\ spent \subseteq Notes /\ rentNow \in Rents
      /\ rentCache \in CachedRent
    BY DEF IInv, TypeOK
<1>1. UNCHANGED <<pending, req, tx, balance>>
    BY DEF LandDeposit, SomeSpendElsewhere, SpendElsewhere, SomeRentChange,
           ChangeRent, AgeRentCache, chain, ledger
<1>2. deposits' \in 1 .. MaxDeposits
    <2>1. CASE LandDeposit
        BY <1>0, <2>1, RelayerAssumption DEF LandDeposit
    <2>2. CASE SomeSpendElsewhere \/ SomeRentChange \/ AgeRentCache
        BY <1>0, <2>2 DEF SomeSpendElsewhere, SpendElsewhere, SomeRentChange,
                          ChangeRent, AgeRentCache, chain
    <2> QED BY <2>1, <2>2
<1>3. spent' \subseteq Notes
    BY <1>0 DEF LandDeposit, SomeSpendElsewhere, SpendElsewhere, SomeRentChange,
                ChangeRent, AgeRentCache, chain
<1>4. rentNow' \in Rents
    BY <1>0 DEF LandDeposit, SomeSpendElsewhere, SpendElsewhere, SomeRentChange,
                ChangeRent, AgeRentCache, chain
<1>5. rentCache' \in CachedRent
    <2>1. CASE AgeRentCache
        <3>1. rentCache \in [rent : Rents, fresh : BOOLEAN]
            BY <1>0, <2>1 DEF AgeRentCache, CacheFresh, CachedRent
        <3>2. rentCache' = [rentCache EXCEPT !.fresh = FALSE]
            BY <2>1 DEF AgeRentCache
        <3> QED BY <3>1, <3>2 DEF CachedRent
    <2>2. CASE LandDeposit \/ SomeSpendElsewhere \/ SomeRentChange
        BY <1>0, <2>2 DEF LandDeposit, SomeSpendElsewhere, SpendElsewhere,
                          SomeRentChange, ChangeRent
    <2> QED BY <2>1, <2>2
<1>6. TypeOK'
    BY <1>0, <1>1, <1>2, <1>3, <1>4, <1>5 DEF TypeOK
<1>7. GuardMatchesHandlers' /\ Priced'
    BY <1>0, <1>1 DEF GuardMatchesHandlers, Active, Priced, PricedRequest, PricedTx
<1> QED BY <1>6, <1>7 DEF IInv

LEMMA RestartInvariant ==
    ASSUME IInv, Restart
    PROVE  IInv'
<1>0. /\ TypeOK /\ Priced
      /\ req \in [Requests -> Request] /\ tx \in [Requests -> TxState]
    BY DEF IInv, TypeOK
<1>1. Answered("none") \in Request /\ Answered("none").pc = "answered"
    BY DEF Answered, Request, Idle, Answers
<1>2. /\ req' \in [Requests -> Request]
      /\ \A r \in Requests : ~Active(r)' /\ PricedRequest(req'[r])
    BY <1>0, <1>1 DEF Restart, Active, PricedRequest
<1>3. ASSUME NEW r \in Requests
      PROVE  tx'[r] \in TxState /\ PricedTx(tx'[r])
    <2>1. CASE tx[r].status = "sent"
        <3>1. PICK t \in InFlight : t = tx[r]
            BY <1>0, <2>1, TxCases
        <3>2. tx'[r] = [t EXCEPT !.orphan = TRUE]
            BY <2>1, <3>1 DEF Restart
        <3>3. /\ tx'[r] \in InFlight /\ tx'[r].fee = t.fee
              /\ tx'[r].rentRead = t.rentRead /\ tx'[r].priority = t.priority
            BY <3>2 DEF InFlight
        <3>4. ExactFee(t.fee, t.rentRead, t.priority)
            BY <1>0, <2>1, <3>1 DEF Priced, PricedTx
        <3> QED BY <3>3, <3>4 DEF TxState, PricedTx
    <2>2. CASE tx[r].status # "sent"
        BY <1>0, <2>2 DEF Restart, Priced
    <2> QED BY <2>1, <2>2
<1>4. TypeOK'
    <2>1. tx' \in [Requests -> TxState]
        BY <1>3 DEF Restart
    <2> QED BY <2>1, <1>0, <1>2 DEF TypeOK, Restart, CachedRent, chain
<1>5. GuardMatchesHandlers'
    BY <1>2 DEF Restart, GuardMatchesHandlers, Active
<1>6. Priced'
    BY <1>2, <1>3 DEF Priced, PricedRequest, PricedTx
<1> QED BY <1>4, <1>5, <1>6 DEF IInv

LEMMA StepInvariant == IInv /\ [Next]_vars => IInv'
<1> SUFFICES ASSUME IInv, [Next]_vars PROVE IInv'
    OBVIOUS
<1>1. CASE SomeSubmit
    BY <1>1, SubmitInvariant DEF SomeSubmit
<1>2. CASE \E r \in Requests : Handle(r)
    BY <1>2, HandleInvariant
<1>3. CASE \E r \in Requests : Settle(r)
    BY <1>3, SettleInvariant
<1>4. CASE LandDeposit \/ SomeSpendElsewhere \/ SomeRentChange \/ AgeRentCache
    BY <1>4, WorldInvariant
<1>5. CASE Restart
    BY <1>5, RestartInvariant
<1>6. CASE UNCHANGED vars
    BY <1>6 DEF vars, IInv, TypeOK, GuardMatchesHandlers, Active, Priced,
                PricedRequest, PricedTx
<1> QED BY <1>1, <1>2, <1>3, <1>4, <1>5, <1>6 DEF Next

THEOREM Invariance == Spec => []IInv
<1> QED BY InitInvariant, StepInvariant, PTL DEF Spec

-----------------------------------------------------------------------------
(* The results *)

\* The relayer's wallet is never overdrawn, and nothing but rents the cluster
\* has had is cached, however many submissions interleave (TypeOK).
THEOREM TypeCorrect == Spec => []TypeOK
<1>1. IInv => TypeOK
    BY DEF IInv
<1> QED BY <1>1, Invariance, PTL

\* No two handlers ever work on one note, and every note whose handler is gone
\* is free again (the pendingNullifiers set of api.js, L-2).
THEOREM GuardExcludes == Spec => []GuardMatchesHandlers
<1>1. IInv => GuardMatchesHandlers
    BY DEF IInv
<1> QED BY <1>1, Invariance, PTL

\* Only the execution of a transaction moves the wallet, by what the fee the
\* handler set leaves after what the transaction really cost.
LEMMA ExecuteCost ==
    ASSUME IInv, NEW r \in Requests, Execute(r), balance' < balance
    PROVE  /\ tx[r].status = "sent" /\ tx'[r].status # "sent"
           /\ balance - balance' <=
                 IF tx'[r].status = "ok" THEN Larger(0, rentNow - tx[r].rentRead)
                                         ELSE BaseFee + tx[r].priority
<1>1. /\ tx \in [Requests -> TxState] /\ tx[r].status = "sent"
      /\ balance \in Nat /\ rentNow \in Nat
    BY RelayerAssumption DEF IInv, TypeOK, Execute
<1>2. PICK t \in InFlight : t = tx[r]
    BY <1>1, TxCases
<1>3. /\ t.fee \in Nat /\ t.priority \in Nat /\ t.rentRead \in Nat
      /\ t.fee = BaseFee + t.rentRead + t.priority
    BY <1>1, <1>2 DEF InFlight, IInv, Priced, PricedTx, ExactFee
<1> DEFINE fees  == TxFees(t.priority)
           error == ChainRejects(t.note, t.at, fees)
<1>4. fees = BaseFee + t.priority /\ fees \in Nat
    BY <1>3 DEF TxFees, BaseFee
<1>5. error \in {"none", "StaleRoot", "NullifierSpent", "InternalError"}
    BY DEF ChainRejects
<1> HIDE DEF fees, error
<1>6. CASE error = "none"
    <2>1. /\ tx' = [tx EXCEPT ![r] = Settled(t, "ok")]
          /\ balance' = balance - fees - rentNow + t.fee
        BY <1>2, <1>6 DEF Execute, fees, error
    <2>2. tx'[r].status = "ok"
        BY <1>1, <2>1 DEF Settled
    <2>3. balance - balance' = rentNow - t.rentRead
        BY <1>1, <1>3, <1>4, <2>1 DEF BaseFee
    <2>4. rentNow - t.rentRead <= Larger(0, rentNow - t.rentRead)
        BY <1>1, <1>3 DEF Larger
    <2> QED BY <1>1, <1>2, <2>2, <2>3, <2>4
<1>7. CASE error # "none"
    <2>1. /\ tx' = [tx EXCEPT ![r] = Settled(t, error)]
          /\ balance' = balance - fees
        BY <1>2, <1>7 DEF Execute, fees, error
    <2>2. tx'[r].status = error /\ error # "ok" /\ error # "sent"
        BY <1>1, <1>5, <1>7, <2>1 DEF Settled
    <2>3. balance - balance' = BaseFee + t.priority
        BY <1>1, <1>4, <2>1
    <2>4. BaseFee + t.priority \in Nat
        BY <1>4
    <2> QED BY <1>1, <1>2, <2>2, <2>3, <2>4
<1> QED BY <1>6, <1>7

LEMMA NoOtherCost ==
    ASSUME IInv, Next, balance' # balance
    PROVE  \E r \in Requests : Execute(r)
<1>1. ASSUME NEW r \in Requests, Handle(r) PROVE FALSE
    BY <1>1, HandleShape
<1>2. SomeSubmit => UNCHANGED balance
    BY DEF SomeSubmit, Submit, ledger
<1>3. LandDeposit \/ SomeSpendElsewhere \/ SomeRentChange \/ AgeRentCache \/ Restart
        => UNCHANGED balance
    BY DEF LandDeposit, SomeSpendElsewhere, SpendElsewhere, SomeRentChange,
           ChangeRent, AgeRentCache, Restart, ledger
<1>4. ASSUME NEW r \in Requests, Settle(r) PROVE Execute(r)
    BY <1>4 DEF Settle, Expire
<1> QED BY <1>1, <1>2, <1>3, <1>4 DEF Next

\* A withdrawal that lands costs the relayer at most what the nullifier rent
\* rose since its handler read it, whatever the ceiling, the congestion and the
\* other submissions (planFee and the H-3 floor of api.js).
THEOREM WithdrawalsPayForThemselves == Spec => NoLossButRentDrift
<1> DEFINE Loss ==
        balance' < balance =>
         \E r \in Requests :
            /\ tx[r].status = "sent" /\ tx'[r].status # "sent"
            /\ balance - balance' <=
                  IF tx'[r].status = "ok" THEN Larger(0, rentNow - tx[r].rentRead)
                                          ELSE BaseFee + tx[r].priority
<1>1. IInv /\ [Next]_vars => [Loss]_vars
    <2> SUFFICES ASSUME IInv, Next, balance' < balance PROVE Loss
        OBVIOUS
    <2>1. balance \in Nat
        BY DEF IInv, TypeOK
    <2>2. IInv' /\ balance' \in Nat
        BY StepInvariant DEF IInv, TypeOK
    <2>3. PICK r \in Requests : Execute(r)
        BY <2>1, <2>2, NoOtherCost
    <2> QED BY <2>3, ExecuteCost
<1>2. Spec => [][Loss]_vars
    BY <1>1, Invariance, PTL DEF Spec
<1> QED BY <1>2 DEF NoLossButRentDrift

-----------------------------------------------------------------------------
(* What handlers know of their transactions *)

\* A handler has sent nothing before it waits for a confirmation, and what is in
\* flight is either waited for or was lost sight of.
Followed(q, t) ==
    /\ q.pc \in {"new"} \cup Steps => t.status = "none"
    /\ q.pc = "confirm" => t.status # "none" /\ t.note = q.note
    /\ t.status = "sent" => t.orphan \/ q.pc = "confirm"

\* What may become of a transaction; one that found its note spent found it so
\* for ever.
Outcomes == {"ok", "InternalError", "StaleRoot", "NullifierSpent"}

Truthful(t) ==
    /\ t.status \in {"none", "sent"} \cup Outcomes
    /\ t.status = "NullifierSpent" => t.note \in spent

TruthInv ==
    IInv /\ \A r \in Requests : Followed(req[r], tx[r]) /\ Truthful(tx[r])

AnswerIsTrue(r) ==
    Active(r) /\ req'[r].pc = "answered" =>
        LET answer == req'[r].answer IN
        /\ answer = "ok" => tx[r] = [status |-> "ok", note |-> req[r].note]
        /\ answer = "NullifierSpent" => req[r].note \in spent
        /\ answer \in Refusals => tx'[r].status = "none"

\* What a step of the handler of r comes to.
StaysTrue(r) ==
    /\ Followed(req'[r], tx'[r]) /\ Truthful(tx[r])' /\ AnswerIsTrue(r)
    /\ \A s \in Requests : s # r => req'[s] = req[s] /\ tx'[s] = tx[s]

\* A step that sends nothing and gives an answer that needs no transaction.
Quiet(r) ==
    \/ \E q \in Handling : req' = [req EXCEPT ![r] = q]
    \/ \E answer \in Answers \ {"ok"} :
          /\ answer = "NullifierSpent" => req[r].note \in spent
          /\ Answer(r, answer)

LEMMA QuietIsTrue ==
    ASSUME TruthInv, NEW r \in Requests, req[r].pc \in Steps,
           UNCHANGED <<tx, spent>>, Quiet(r)
    PROVE  StaysTrue(r)
<1>1. /\ req \in [Requests -> Request] /\ tx[r].status = "none"
      /\ Truthful(tx[r])
    BY DEF TruthInv, IInv, TypeOK, Followed
<1>2. Truthful(tx[r])'
    BY <1>1 DEF Truthful
<1>3. CASE \E q \in Handling : req' = [req EXCEPT ![r] = q]
    <2>1. PICK q \in Handling : req' = [req EXCEPT ![r] = q]
        BY <1>3
    <2>2. /\ req'[r] = q /\ \A s \in Requests : s # r => req'[s] = req[s]
          /\ q.pc \in Steps
        BY <1>1, <2>1 DEF Handling
    <2> QED BY <1>1, <1>2, <2>2 DEF StaysTrue, Followed, AnswerIsTrue, Steps
<1>4. CASE \E answer \in Answers \ {"ok"} :
              /\ answer = "NullifierSpent" => req[r].note \in spent
              /\ Answer(r, answer)
    <2>1. PICK answer \in Answers \ {"ok"} :
              /\ answer = "NullifierSpent" => req[r].note \in spent
              /\ Answer(r, answer)
        BY <1>4
    <2>2. /\ req'[r] = Answered(answer)
          /\ \A s \in Requests : s # r => req'[s] = req[s]
        BY <1>1, <2>1 DEF Answer
    <2>3. req'[r].pc = "answered" /\ req'[r].answer = answer
        BY <2>2 DEF Answered
    <2>4. Followed(req'[r], tx'[r])
        BY <1>1, <2>3 DEF Followed, Steps
    <2>5. AnswerIsTrue(r)
        BY <1>1, <2>1, <2>3 DEF AnswerIsTrue
    <2> QED BY <1>2, <2>2, <2>4, <2>5 DEF StaysTrue
<1> QED BY <1>3, <1>4 DEF Quiet

\* The steps before the transaction is sent.
Early(r) ==
    \/ LoadPool(r)
    \/ ReadRent(r)
    \/ \E estimate \in EstimatedPrices : PlanFee(r, estimate)
    \/ CheckBalance(r)
    \/ Preflight(r)
    \/ \E step \in {"loadPool", "balance", "send"} : RpcFails(r, step)

\* Such a step goes on to another, or gives an answer that needs no transaction.
LEMMA EarlyEnds ==
    ASSUME IInv, NEW r \in Requests, Early(r)
    PROVE  \/ req'[r].pc \in Steps
           \/ \E answer \in Answers \ {"ok"} :
                /\ answer = "NullifierSpent" => req[r].note \in spent
                /\ Answer(r, answer)
<1> DEFINE Told(answer) ==
        /\ answer \in Answers \ {"ok"}
        /\ answer = "NullifierSpent" => req[r].note \in spent
        /\ Answer(r, answer)
<1>0. \A answer \in Refusals \cup {"InternalError", "StaleRoot"} :
        Answer(r, answer) => Told(answer)
    BY DEF Answers, Refusals
<1>1. CASE \E step \in {"loadPool", "balance", "send"} : RpcFails(r, step)
    BY <1>0, <1>1 DEF RpcFails
<1>2. CASE ~\E step \in {"loadPool", "balance", "send"} : RpcFails(r, step)
    <2>1. PICK h \in Handling : h = req[r]
        BY <1>2, HandlingFields DEF IInv, Early, LoadPool, ReadRent, PlanFee,
                                    CheckBalance, Preflight, Steps
    <2>2. \A step : [h EXCEPT !.pc = step].pc = step
        BY DEF Handling
    <2>3. req \in [Requests -> Request]
        BY DEF IInv, TypeOK
    <2>4. CASE LoadPool(r)
        <3>1. CASE \E answer \in {"NotAPool", "RelayerFeeMaxTooHigh"} : Answer(r, answer)
            BY <1>0, <3>1 DEF Refusals
        <3>2. CASE ~\E answer \in {"NotAPool", "RelayerFeeMaxTooHigh"} : Answer(r, answer)
            <4>1. PICK known : req' = [req EXCEPT ![r].pc = "rent", ![r].knownRoot = known]
                BY <2>4, <3>2 DEF LoadPool, NotAPool
            <4>2. req'[r] = [h EXCEPT !.pc = "rent", !.knownRoot = known]
                BY <2>1, <2>3, <4>1
            <4>3. req'[r].pc = "rent"
                BY <4>2 DEF Handling
            <4> QED BY <4>3 DEF Steps
        <3> QED BY <3>1, <3>2
    <2>5. CASE ReadRent(r)
        <3>1. CASE Answer(r, "RelayerFeeBelowCost")
            BY <1>0, <3>1 DEF Refusals
        <3>2. CASE ~Answer(r, "RelayerFeeBelowCost")
            <4>1. PICK rent : req' = [req EXCEPT ![r].pc = "plan", ![r].rent = rent]
                BY <2>5, <3>2 DEF ReadRent
            <4>2. req'[r] = [h EXCEPT !.pc = "plan", !.rent = rent]
                BY <2>1, <2>3, <4>1
            <4>3. req'[r].pc = "plan"
                BY <4>2 DEF Handling
            <4> QED BY <4>3 DEF Steps
        <3> QED BY <3>1, <3>2
    <2>6. CASE \E estimate \in EstimatedPrices : PlanFee(r, estimate)
        <3>1. CASE Answer(r, "RelayerFeeBelowCost")
            BY <1>0, <3>1 DEF Refusals
        <3>2. CASE ~Answer(r, "RelayerFeeBelowCost")
            <4>1. PICK perCU, fee :
                    req' = [req EXCEPT ![r].pc = "balance", ![r].perCU = perCU,
                                       ![r].fee = fee]
                BY <2>6, <3>2 DEF PlanFee
            <4>2. req'[r] = [h EXCEPT !.pc = "balance", !.perCU = perCU, !.fee = fee]
                BY <2>1, <2>3, <4>1
            <4>3. req'[r].pc = "balance"
                BY <4>2 DEF Handling
            <4> QED BY <4>3 DEF Steps
        <3> QED BY <3>1, <3>2
    <2>7. CASE CheckBalance(r)
        <3>1. CASE Answer(r, "RelayerBusy")
            BY <1>0, <3>1 DEF Refusals
        <3>2. CASE req' = [req EXCEPT ![r].pc = "preflight"]
            BY <2>1, <2>2, <2>3, <3>2 DEF Steps
        <3> QED BY <2>7, <3>1, <3>2 DEF CheckBalance
    <2>8. CASE Preflight(r)
        <3>1. CASE Answer(r, "StaleRoot") \/ Answer(r, "InvalidProof")
            BY <1>0, <3>1 DEF Refusals
        <3>2. CASE req[r].note \in spent /\ Answer(r, "NullifierSpent")
            <4>1. Told("NullifierSpent")
                BY <3>2 DEF Answers
            <4> QED BY <4>1
        <3>3. CASE req' = [req EXCEPT ![r].pc = "send"]
            BY <2>1, <2>2, <2>3, <3>3 DEF Steps
        <3> QED BY <2>8, <3>1, <3>2, <3>3 DEF Preflight, ProofRefused
    <2> QED BY <1>2, <2>4, <2>5, <2>6, <2>7, <2>8 DEF Early
<1> QED BY <1>1, <1>2

LEMMA EarlyIsTrue ==
    ASSUME TruthInv, NEW r \in Requests, Early(r)
    PROVE  StaysTrue(r)
<1>1. req[r].pc \in Steps /\ UNCHANGED <<tx, spent>>
    BY DEF Early, LoadPool, ReadRent, PlanFee, CheckBalance, Preflight,
           RpcFails, Steps, chain, ledger
<1>2. IInv /\ req \in [Requests -> Request] /\ Handle(r)
    BY DEF TruthInv, IInv, TypeOK, Early, Handle
<1>3. CASE req'[r].pc \in Steps
    <2>1. Replies(r) \/ GoesOn(r)
        BY <1>2, HandleShape
    <2>2. ~Replies(r)
        BY <1>2, <1>3 DEF Replies, Answer, Answered, Steps
    <2>3. PICK q \in Handling \cup Confirming : req' = [req EXCEPT ![r] = q]
        BY <2>1, <2>2 DEF GoesOn
    <2>4. q \in Handling
        BY <1>2, <1>3, <2>3 DEF Confirming, Steps
    <2>5. Quiet(r)
        BY <2>3, <2>4 DEF Quiet
    <2> QED BY <1>1, <2>5, QuietIsTrue
<1>4. CASE \E answer \in Answers \ {"ok"} :
              /\ answer = "NullifierSpent" => req[r].note \in spent
              /\ Answer(r, answer)
    <2>1. Quiet(r)
        BY <1>4 DEF Quiet
    <2> QED BY <1>1, <2>1, QuietIsTrue
<1> QED BY <1>2, <1>3, <1>4, EarlyEnds

\* The transaction is waited for, or its sender gives it up and says so.
LEMMA SendIsTrue ==
    ASSUME TruthInv, NEW r \in Requests, Send(r)
    PROVE  StaysTrue(r)
<1>1. /\ req[r].pc = "send" /\ req[r].pc \in Steps /\ UNCHANGED spent
      /\ req \in [Requests -> Request] /\ tx \in [Requests -> TxState]
    BY DEF Send, Steps, TruthInv, IInv, TypeOK, chain
<1> DEFINE rejected == ChainRejects(req[r].note, req[r].at,
                                    TxFees(PriorityFeeLamports(req[r].perCU)))
<1>2. /\ rejected \in {"none", "StaleRoot", "NullifierSpent", "InternalError"}
      /\ rejected = "NullifierSpent" => req[r].note \in spent
    BY DEF ChainRejects
<1>3. \/ rejected # "none" /\ Answer(r, rejected) /\ UNCHANGED tx
      \/ /\ tx' = [tx EXCEPT ![r] = NewTx(r, FALSE)]
         /\ req' = [req EXCEPT ![r] = [pc |-> "confirm", note |-> req[r].note]]
      \/ tx' = [tx EXCEPT ![r] = NewTx(r, TRUE)] /\ Answer(r, "InternalError")
    BY DEF Send
<1> HIDE DEF rejected
<1>4. CASE rejected # "none" /\ Answer(r, rejected) /\ UNCHANGED tx
    <2>1. Quiet(r)
        BY <1>2, <1>4 DEF Quiet, Answers
    <2> QED BY <1>1, <1>4, <2>1, QuietIsTrue
<1>5. \A orphan : /\ NewTx(r, orphan).status = "sent"
                  /\ NewTx(r, orphan).note = req[r].note
                  /\ NewTx(r, orphan).orphan = orphan
    BY DEF NewTx
<1>6. CASE /\ tx' = [tx EXCEPT ![r] = NewTx(r, FALSE)]
           /\ req' = [req EXCEPT ![r] = [pc |-> "confirm", note |-> req[r].note]]
    <2>1. /\ tx'[r] = NewTx(r, FALSE)
          /\ req'[r] = [pc |-> "confirm", note |-> req[r].note]
          /\ \A s \in Requests : s # r => req'[s] = req[s] /\ tx'[s] = tx[s]
        BY <1>1, <1>6
    <2>2. req'[r].pc = "confirm" /\ req'[r].note = req[r].note
        BY <2>1
    <2>3. /\ tx'[r].status = "sent" /\ tx'[r].note = req[r].note
        BY <1>5, <2>1
    <2>4. Followed(req'[r], tx'[r])
        BY <2>2, <2>3 DEF Followed, Steps
    <2>5. Truthful(tx[r])' /\ AnswerIsTrue(r)
        BY <2>2, <2>3 DEF Truthful, AnswerIsTrue
    <2> QED BY <2>1, <2>4, <2>5 DEF StaysTrue
<1>7. CASE tx' = [tx EXCEPT ![r] = NewTx(r, TRUE)] /\ Answer(r, "InternalError")
    <2>1. /\ tx'[r] = NewTx(r, TRUE)
          /\ req'[r] = Answered("InternalError")
          /\ \A s \in Requests : s # r => req'[s] = req[s] /\ tx'[s] = tx[s]
        BY <1>1, <1>7 DEF Answer
    <2>2. req'[r].pc = "answered" /\ req'[r].answer = "InternalError"
        BY <2>1 DEF Answered
    <2>3. Followed(req'[r], tx'[r]) /\ Truthful(tx[r])' /\ AnswerIsTrue(r)
        BY <1>5, <2>1, <2>2 DEF Followed, Truthful, AnswerIsTrue, Refusals, Steps
    <2> QED BY <2>1, <2>3 DEF StaysTrue
<1> QED BY <1>3, <1>4, <1>6, <1>7

\* What is answered is what became of the transaction of this very request.
LEMMA ConfirmIsTrue ==
    ASSUME TruthInv, NEW r \in Requests, Confirm(r)
    PROVE  StaysTrue(r)
<1>1. /\ req[r].pc = "confirm" /\ UNCHANGED <<tx, spent>>
      /\ Followed(req[r], tx[r]) /\ Truthful(tx[r])
      /\ req \in [Requests -> Request] /\ tx[r] \in TxState
      /\ tx[r].status # "sent" /\ Answer(r, tx[r].status)
    BY DEF Confirm, Resolves, ConfirmedAnswer, TruthInv, IInv, TypeOK, chain, ledger
<1>2. /\ tx[r].note = req[r].note /\ tx[r].status \in Outcomes
    BY <1>1 DEF Followed, Truthful
<1>3. /\ req'[r] = Answered(tx[r].status)
      /\ \A s \in Requests : s # r => req'[s] = req[s]
    BY <1>1 DEF Answer
<1>4. req'[r].pc = "answered" /\ req'[r].answer = tx[r].status
    BY <1>3 DEF Answered
<1>5. tx[r].status = "ok" => tx[r] = [status |-> "ok", note |-> req[r].note]
    <2>1. tx[r] \in Done
        BY <1>1, <1>2, TxCases DEF Outcomes, TxState, Unsent, InFlight
    <2> QED BY <1>2, <2>1 DEF Done
<1>6. AnswerIsTrue(r)
    BY <1>1, <1>2, <1>4, <1>5 DEF AnswerIsTrue, Truthful, Outcomes, Refusals
<1>7. Followed(req'[r], tx'[r]) /\ Truthful(tx[r])'
    BY <1>1, <1>4 DEF Followed, Truthful, Steps
<1> QED BY <1>1, <1>3, <1>6, <1>7 DEF StaysTrue

LEMMA HandleIsTrue ==
    ASSUME TruthInv, NEW r \in Requests, Handle(r)
    PROVE  StaysTrue(r)
BY EarlyIsTrue, SendIsTrue, ConfirmIsTrue DEF Handle, Early

-----------------------------------------------------------------------------
(* What the rest does to that knowledge *)

\* Nothing is unspent, so what was found spent stays so.
LEMMA SpentStays ==
    ASSUME IInv, [Next]_vars
    PROVE  spent \subseteq spent'
<1>1. ASSUME NEW r \in Requests, Handle(r) \/ Settle(r) PROVE spent \subseteq spent'
    BY <1>1, HandleShape DEF Settle, Execute, Expire, chain
<1> QED BY <1>1 DEF Next, SomeSubmit, Submit, LandDeposit, SomeSpendElsewhere,
              SpendElsewhere, SomeRentChange, ChangeRent, AgeRentCache, Restart,
              chain, vars

\* The execution of a transaction decides what becomes of it.
LEMMA SettleIsTrue ==
    ASSUME TruthInv, NEW r \in Requests, Settle(r)
    PROVE  /\ Followed(req[r], tx'[r]) /\ Truthful(tx[r])'
           /\ \A s \in Requests : s # r => tx'[s] = tx[s]
<1>1. /\ tx \in [Requests -> TxState] /\ tx[r].status = "sent"
      /\ Followed(req[r], tx[r])
    BY DEF TruthInv, IInv, TypeOK, Settle, Execute, Expire
<1>2. PICK status \in Outcomes :
        /\ tx' = [tx EXCEPT ![r] = Settled(tx[r], status)]
        /\ status = "NullifierSpent" => tx[r].note \in spent'
    <2>1. CASE Expire(r)
        BY <2>1 DEF Expire, Outcomes
    <2>2. CASE Execute(r)
        <3> DEFINE error == ChainRejects(tx[r].note, tx[r].at, TxFees(tx[r].priority))
        <3>1. /\ error \in {"none", "StaleRoot", "NullifierSpent", "InternalError"}
              /\ error = "NullifierSpent" => tx[r].note \in spent
            BY DEF ChainRejects
        <3>2. \/ error = "none" /\ tx' = [tx EXCEPT ![r] = Settled(tx[r], "ok")]
              \/ /\ error # "none" /\ tx' = [tx EXCEPT ![r] = Settled(tx[r], error)]
                 /\ spent' = spent
            BY <2>2 DEF Execute
        <3> HIDE DEF error
        <3> QED BY <3>1, <3>2 DEF Outcomes
    <2> QED BY <2>1, <2>2 DEF Settle
<1>3. /\ tx'[r] = Settled(tx[r], status)
      /\ \A s \in Requests : s # r => tx'[s] = tx[s]
    BY <1>1, <1>2
<1>4. tx'[r].status = status /\ tx'[r].note = tx[r].note
    BY <1>3 DEF Settled
<1>5. Followed(req[r], tx'[r])
    BY <1>1, <1>4 DEF Followed, Outcomes
<1>6. Truthful(tx[r])'
    BY <1>2, <1>4 DEF Truthful
<1> QED BY <1>3, <1>5, <1>6

\* A restart loses sight of everything in flight, and answers nobody.
LEMMA RestartIsTrue ==
    ASSUME TruthInv, Restart, NEW r \in Requests
    PROVE  Followed(req'[r], tx'[r]) /\ Truthful(tx[r])' /\ AnswerIsTrue(r)
<1>1. /\ Followed(req[r], tx[r]) /\ Truthful(tx[r]) /\ spent' = spent
      /\ tx[r] \in TxState
      /\ req'[r] = IF Active(r) THEN Answered("none") ELSE req[r]
      /\ tx'[r] = IF tx[r].status = "sent" THEN [tx[r] EXCEPT !.orphan = TRUE]
                                           ELSE tx[r]
    BY DEF TruthInv, IInv, TypeOK, Restart, chain
<1>2. /\ tx'[r].status = tx[r].status
      /\ tx[r].status = "NullifierSpent" => tx'[r].note = tx[r].note
      /\ tx'[r].status = "sent" => tx'[r].orphan
    <2>1. CASE tx[r].status = "sent"
        <3>1. PICK t \in InFlight : t = tx[r]
            BY <1>1, <2>1, TxCases
        <3>2. tx'[r] = [t EXCEPT !.orphan = TRUE]
            BY <1>1, <2>1, <3>1
        <3>3. tx'[r].status = t.status /\ tx'[r].orphan
            BY <3>2 DEF InFlight
        <3> QED BY <2>1, <3>1, <3>3
    <2>2. CASE tx[r].status # "sent"
        BY <1>1, <2>2
    <2> QED BY <2>1, <2>2
<1>3. Answered("none").pc = "answered" /\ Answered("none").answer = "none"
    BY DEF Answered
<1>4. /\ req'[r].pc # "confirm"
      /\ req'[r].pc \in {"new"} \cup Steps => req'[r] = req[r]
    BY <1>1, <1>3 DEF Active, Steps
<1>5. Followed(req'[r], tx'[r])
    BY <1>1, <1>2, <1>4 DEF Followed
<1>6. Truthful(tx[r])'
    BY <1>1, <1>2 DEF Truthful
<1>7. AnswerIsTrue(r)
    BY <1>1, <1>3 DEF AnswerIsTrue, Refusals
<1> QED BY <1>5, <1>6, <1>7

LEMMA InitTruth == Init => TruthInv
BY InitInvariant DEF Init, TruthInv, Followed, Truthful, Steps

\* Every step keeps what is known, and every answer given by it is true.
LEMMA StepTruth ==
    ASSUME TruthInv, [Next]_vars
    PROVE  TruthInv' /\ (Next => \A r \in Requests : AnswerIsTrue(r))
<1>0. /\ IInv /\ IInv' /\ spent \subseteq spent'
      /\ \A r \in Requests : Followed(req[r], tx[r]) /\ Truthful(tx[r])
      /\ req \in [Requests -> Request]
    BY StepInvariant, SpentStays DEF TruthInv, IInv, TypeOK
<1> SUFFICES ASSUME NEW r \in Requests
             PROVE  /\ Followed(req'[r], tx'[r]) /\ Truthful(tx[r])'
                    /\ AnswerIsTrue(r)
    BY <1>0 DEF TruthInv
\* Untouched by the step.
<1>1. req'[r] = req[r] /\ tx'[r] = tx[r] =>
        /\ Followed(req'[r], tx'[r]) /\ Truthful(tx[r])' /\ AnswerIsTrue(r)
    BY <1>0 DEF Truthful, AnswerIsTrue, Active
<1>2. CASE SomeSubmit
    <2>1. PICK s \in Requests, note \in Notes, feeMax \in Ceilings,
               at \in 1 .. MaxDeposits : Submit(s, note, feeMax, at)
        BY <1>2 DEF SomeSubmit
    <2>2. tx' = tx /\ req[s].pc = "new"
        BY <2>1 DEF Submit, ledger
    <2>3. PICK q : req' = [req EXCEPT ![s] = q] /\ q.pc \in {"answered", "loadPool"}
        <3>1. Answered("NullifierPending").pc = "answered"
            BY DEF Answered
        <3> QED BY <2>1, <3>1 DEF Submit
    <2>4. CASE r = s
        <3>1. req'[r] = q /\ tx'[r] = tx[r] /\ tx[r].status = "none"
            BY <1>0, <2>2, <2>3, <2>4 DEF Followed
        <3>2. Followed(req'[r], tx'[r])
            BY <2>3, <3>1 DEF Followed
        <3>3. Truthful(tx[r])'
            BY <3>1 DEF Truthful
        <3>4. AnswerIsTrue(r)
            BY <2>2, <2>4 DEF AnswerIsTrue, Active
        <3> QED BY <3>2, <3>3, <3>4
    <2>5. CASE r # s
        BY <1>0, <1>1, <2>2, <2>3, <2>5
    <2> QED BY <2>4, <2>5
<1>3. CASE \E s \in Requests : Handle(s)
    BY <1>1, <1>3, HandleIsTrue DEF StaysTrue
<1>4. CASE \E s \in Requests : Settle(s)
    <2>1. PICK s \in Requests : Settle(s)
        BY <1>4
    <2>2. req' = req
        BY <1>0, <2>1, SettleTypes
    <2>3. AnswerIsTrue(r)
        BY <2>2 DEF AnswerIsTrue, Active
    <2> QED BY <1>1, <2>1, <2>2, <2>3, SettleIsTrue
<1>5. CASE LandDeposit \/ SomeSpendElsewhere \/ SomeRentChange \/ AgeRentCache
    <2>1. req' = req /\ tx' = tx
        BY <1>5 DEF LandDeposit, SomeSpendElsewhere, SpendElsewhere, SomeRentChange,
                    ChangeRent, AgeRentCache, ledger
    <2> QED BY <1>1, <2>1
<1>6. CASE Restart
    BY <1>6, RestartIsTrue
<1>7. CASE UNCHANGED vars
    BY <1>1, <1>7 DEF vars
<1> QED BY <1>2, <1>3, <1>4, <1>5, <1>6, <1>7 DEF Next

LEMMA TruthInvariance == Spec => []TruthInv
BY InitTruth, StepTruth, PTL DEF Spec

\* Whatever interleaves, fails or restarts, two transactions of one note are in
\* flight together only if the relayer lost sight of one: the handler of the
\* other holds the guard until its own is settled (pendingNullifiers, L-2).
THEOREM DoubleSendsWereLost == Spec => []DoubleSendNeedsLostReply
<1>1. TruthInv => DoubleSendNeedsLostReply
    BY DEF TruthInv, Followed, IInv, GuardMatchesHandlers, Active,
           DoubleSendNeedsLostReply
<1> QED BY <1>1, TruthInvariance, PTL

\* What handleSubmit answers is true of the chain when it is answered: "ok" only
\* of a transaction that withdrew this note (SEC-04), "NullifierSpent" only of a
\* spent note, a refusal only when nothing was sent.
THEOREM AnswersTellTheTruth == Spec => AnswersAreTrue
<1> DEFINE Told == \A r \in Requests : AnswerIsTrue(r)
<1>1. TruthInv /\ [Next]_vars => [Told]_vars
    BY StepTruth
<1>2. Spec => [][Told]_vars
    BY <1>1, TruthInvariance, PTL DEF Spec
<1> QED BY <1>2 DEF AnswersAreTrue, AnswerIsTrue

-----------------------------------------------------------------------------
(* Submissions end *)

\* How many steps of its handler a submission can still take.
StepsLeft(r) ==
    CASE req[r].pc = "new" -> 8
      [] req[r].pc = "loadPool" -> 7
      [] req[r].pc = "rent" -> 6
      [] req[r].pc = "plan" -> 5
      [] req[r].pc = "balance" -> 4
      [] req[r].pc = "preflight" -> 3
      [] req[r].pc = "send" -> 2
      [] req[r].pc = "confirm" -> 1
      [] OTHER -> 0

\* What can still become of its transaction: sent, settled, nothing.
FatesLeft(r) ==
    CASE tx[r].status = "none" -> 2
      [] tx[r].status = "sent" -> 1
      [] OTHER -> 0

\* A handler answers, or goes on to its next await.
Onwards(r) ==
    \/ req'[r].pc = "answered"
    \/ req[r].pc = "loadPool" /\ req'[r].pc = "rent"
    \/ req[r].pc = "rent" /\ req'[r].pc = "plan"
    \/ req[r].pc = "plan" /\ req'[r].pc = "balance"
    \/ req[r].pc = "balance" /\ req'[r].pc = "preflight"
    \/ req[r].pc = "preflight" /\ req'[r].pc = "send"
    \/ req[r].pc = "send" /\ req'[r].pc = "confirm"

LEMMA HandlersGoOnwards ==
    ASSUME TypeOK, NEW r \in Requests, Handle(r)
    PROVE  /\ Active(r) /\ Onwards(r)
           /\ \A s \in Requests : s # r => req'[s] = req[s]
<1> DEFINE To(pc) ==
             /\ req'[r].pc \in {pc, "answered"}
             /\ \A s \in Requests : s # r => req'[s] = req[s]
<1>1. /\ req \in [Requests -> Request]
      /\ req[r].pc \in Steps => req[r] \in Handling
    BY HandlingFields DEF TypeOK
<1>2. ASSUME NEW answer, Answer(r, answer)
      PROVE  To("answered")
    BY <1>1, <1>2 DEF Answer, Answered
<1>3. ASSUME NEW q, req' = [req EXCEPT ![r] = q]
      PROVE  To(q.pc)
    BY <1>1, <1>3
<1>4. CASE LoadPool(r)
    <2>1. PICK h \in Handling : h = req[r] /\ h.pc = "loadPool"
        BY <1>1, <1>4 DEF LoadPool, Steps
    <2>2. ASSUME NEW known, req' = [req EXCEPT ![r].pc = "rent", ![r].knownRoot = known]
          PROVE  To("rent")
        <3>1. req' = [req EXCEPT ![r] = [h EXCEPT !.pc = "rent", !.knownRoot = known]]
            BY <2>1, <2>2
        <3>2. [h EXCEPT !.pc = "rent", !.knownRoot = known].pc = "rent"
            BY DEF Handling
        <3> QED BY <3>1, <3>2, <1>3
    <2>3. To("rent")
        BY <2>2, <1>2, <1>4 DEF LoadPool, NotAPool
    <2> QED BY <2>1, <2>3 DEF Onwards, Active
<1>5. CASE ReadRent(r)
    <2>1. PICK h \in Handling : h = req[r] /\ h.pc = "rent"
        BY <1>1, <1>5 DEF ReadRent, Steps
    <2>2. ASSUME NEW rent, req' = [req EXCEPT ![r].pc = "plan", ![r].rent = rent]
          PROVE  To("plan")
        <3>1. req' = [req EXCEPT ![r] = [h EXCEPT !.pc = "plan", !.rent = rent]]
            BY <2>1, <2>2
        <3>2. [h EXCEPT !.pc = "plan", !.rent = rent].pc = "plan"
            BY DEF Handling
        <3> QED BY <3>1, <3>2, <1>3
    <2>3. To("plan")
        BY <2>2, <1>2, <1>5 DEF ReadRent
    <2> QED BY <2>1, <2>3 DEF Onwards, Active
<1>6. CASE \E estimate \in EstimatedPrices : PlanFee(r, estimate)
    <2>1. PICK h \in Handling : h = req[r] /\ h.pc = "plan"
        BY <1>1, <1>6 DEF PlanFee, Steps
    <2>2. ASSUME NEW perCU, NEW fee,
                 req' = [req EXCEPT ![r].pc = "balance", ![r].perCU = perCU, ![r].fee = fee]
          PROVE  To("balance")
        <3>1. req' = [req EXCEPT ![r] =
                        [h EXCEPT !.pc = "balance", !.perCU = perCU, !.fee = fee]]
            BY <2>1, <2>2
        <3>2. [h EXCEPT !.pc = "balance", !.perCU = perCU, !.fee = fee].pc = "balance"
            BY DEF Handling
        <3> QED BY <3>1, <3>2, <1>3
    <2>3. To("balance")
        BY <2>2, <1>2, <1>6 DEF PlanFee
    <2> QED BY <2>1, <2>3 DEF Onwards, Active
<1>7. CASE CheckBalance(r) \/ Preflight(r)
    <2>1. PICK h \in Handling : h = req[r] /\ h.pc \in {"balance", "preflight"}
        BY <1>1, <1>7 DEF CheckBalance, Preflight, Steps
    <2>2. ASSUME NEW pc, req' = [req EXCEPT ![r].pc = pc]
          PROVE  To(pc)
        <3>1. req' = [req EXCEPT ![r] = [h EXCEPT !.pc = pc]]
            BY <2>1, <2>2
        <3>2. [h EXCEPT !.pc = pc].pc = pc
            BY DEF Handling
        <3> QED BY <3>1, <3>2, <1>3
    <2>3. CheckBalance(r) => To("preflight")
        BY <2>2, <1>2 DEF CheckBalance
    <2>4. Preflight(r) => To("send")
        BY <2>2, <1>2 DEF Preflight, ProofRefused
    <2> QED BY <1>7, <2>1, <2>3, <2>4 DEF Onwards, Active, CheckBalance, Preflight
<1>8. CASE Send(r)
    <2>1. \/ \E answer : Answer(r, answer)
          \/ req' = [req EXCEPT ![r] = [pc |-> "confirm", note |-> req[r].note]]
        BY <1>8 DEF Send
    <2> DEFINE q == [pc |-> "confirm", note |-> req[r].note]
    <2>2. (q.pc = "confirm" /\ To(q.pc)) \/ To("answered")
        <3>1. q.pc = "confirm"
            OBVIOUS
        <3> HIDE DEF q
        <3>2. req' = [req EXCEPT ![r] = q] => To(q.pc)
            BY <1>3
        <3>3. (\E answer : Answer(r, answer)) => To("answered")
            BY <1>2
        <3> QED BY <2>1, <3>1, <3>2, <3>3 DEF q
    <2> QED BY <1>8, <2>2 DEF Send, Onwards, Active
<1>9. CASE Confirm(r)
    BY <1>2, <1>9 DEF Confirm, Onwards, Active
<1>10. CASE \E step \in {"loadPool", "balance", "send"} : RpcFails(r, step)
    BY <1>2, <1>10 DEF RpcFails, Onwards, Active
<1> QED BY <1>4, <1>5, <1>6, <1>7, <1>8, <1>9, <1>10 DEF Handle

\* What a step leaves a submission and its transaction.
Shorter(r) ==
    /\ StepsLeft(r)' <= StepsLeft(r)
    /\ FatesLeft(r)' <= FatesLeft(r)
    /\ Handle(r) => StepsLeft(r)' < StepsLeft(r)
    /\ Settle(r) => FatesLeft(r)' < FatesLeft(r)

LEMMA RanksAreNumbers ==
    ASSUME NEW r \in Requests
    PROVE  /\ StepsLeft(r) \in Nat /\ StepsLeft(r)' \in Nat
           /\ FatesLeft(r) \in Nat /\ FatesLeft(r)' \in Nat
BY DEF StepsLeft, FatesLeft

\* A transaction that is executed or expires is settled for good.
LEMMA SettlementIsFinal ==
    ASSUME TypeOK, NEW r \in Requests, Settle(r)
    PROVE  /\ tx[r].status = "sent" /\ tx'[r].status \notin {"none", "sent"}
           /\ \A s \in Requests : s # r => tx'[s] = tx[s]
           /\ UNCHANGED req
<1>1. \A note, at, fees : ChainRejects(note, at, fees) # "sent"
    BY DEF ChainRejects
<1> DEFINE Ends == \E status : /\ status \notin {"none", "sent"}
                               /\ tx' = [tx EXCEPT ![r] = Settled(tx[r], status)]
<1>2. CASE Execute(r)
    <2>1. Ends
        BY <1>1, <1>2 DEF Execute
    <2> QED BY <1>2, <2>1 DEF Execute, Settled, TypeOK
<1>3. CASE Expire(r)
    BY <1>3 DEF Expire, Settled, TypeOK
<1> QED BY <1>2, <1>3 DEF Settle

\* A handler sends nothing where it has sent before.
LEMMA SendsOnce ==
    ASSUME TruthInv, NEW r \in Requests, Handle(r)
    PROVE  \/ UNCHANGED tx
           \/ /\ tx[r].status = "none"
              /\ \E t \in InFlight : tx' = [tx EXCEPT ![r] = t]
<1>1. UNCHANGED tx \/ Sends(r)
    BY HandleShape DEF TruthInv
<1>2. CASE Send(r)
    <2>1. req[r].pc = "send" /\ tx[r].status = "none"
        BY <1>2 DEF Send, TruthInv, Followed, Steps
    <2> QED BY <1>1, <2>1 DEF Sends
<1>3. CASE ~Send(r)
    BY <1>3 DEF Handle, LoadPool, ReadRent, PlanFee, CheckBalance, Preflight,
                Confirm, RpcFails, ledger
<1> QED BY <1>2, <1>3

\* A submission takes a bounded number of steps and sends at most one
\* transaction, which settles at most once: no answer of a node, no failure, no
\* other submission and no restart sends a handler back or has it send again
\* (handleSubmit retries nothing; a client's retry is another submission).
SubmissionsAreBounded ==
    [][\A r \in Requests : Shorter(r)]_vars

THEOREM SubmissionsAreShort == Spec => SubmissionsAreBounded
<1>1. TruthInv /\ Next => \A r \in Requests : Shorter(r)
    <2> SUFFICES ASSUME TruthInv, Next, NEW r \in Requests
                 PROVE  Shorter(r)
        OBVIOUS
    <2>0. TypeOK
        BY DEF TruthInv, IInv
    <2>1. /\ StepsLeft(r) \in Nat /\ StepsLeft(r)' \in Nat
          /\ FatesLeft(r) \in Nat /\ FatesLeft(r)' \in Nat
        BY RanksAreNumbers
    <2>2. Handle(r) => StepsLeft(r)' < StepsLeft(r)
        <3>1. Handle(r) => Active(r) /\ Onwards(r)
            BY <2>0, HandlersGoOnwards
        <3>2. Active(r) /\ Onwards(r) => StepsLeft(r)' < StepsLeft(r)
            <4>0. req[r].pc \in Steps \cup {"new", "confirm", "answered"}
                BY <2>0 DEF TypeOK, Request, Idle, Handling, Confirming
            <4>1. CASE req'[r].pc = "answered"
                BY <4>0, <4>1 DEF StepsLeft, Active, Steps
            <4> QED BY <4>1 DEF StepsLeft, Onwards
        <3> QED BY <3>1, <3>2
    <2>3. Settle(r) => FatesLeft(r)' < FatesLeft(r)
        BY <2>0, SettlementIsFinal DEF FatesLeft
    <2>4. StepsLeft(r)' <= StepsLeft(r)
        <3>1. CASE \E s \in Requests : Handle(s)
            <4>1. PICK s \in Requests : Handle(s)
                BY <3>1
            <4>2. CASE r = s
                BY <4>1, <4>2, <2>1, <2>2
            <4>3. CASE r # s
                <5>1. req'[r] = req[r]
                    BY <4>1, <4>3, <2>0, HandlersGoOnwards
                <5> QED BY <5>1, <2>1 DEF StepsLeft
            <4> QED BY <4>2, <4>3
        <3>2. CASE SomeSubmit
            <4>1. PICK s \in Requests : req[s].pc = "new" /\ \E q : req' = [req EXCEPT ![s] = q]
                BY <3>2 DEF SomeSubmit, Submit
            <4>2. StepsLeft(r)' <= 8
                BY DEF StepsLeft
            <4>3. CASE r = s
                <5>1. StepsLeft(r) = 8
                    BY <4>1, <4>3 DEF StepsLeft
                <5> QED BY <4>2, <5>1
            <4>4. CASE r # s
                <5>1. req'[r] = req[r]
                    BY <4>1, <4>4, <2>0 DEF TypeOK
                <5> QED BY <5>1, <2>1 DEF StepsLeft
            <4> QED BY <4>3, <4>4
        <3>3. CASE Restart
            <4>1. req'[r] = IF Active(r) THEN Answered("none") ELSE req[r]
                BY <3>3 DEF Restart
            <4>2. CASE Active(r)
                <5>1. StepsLeft(r)' = 0
                    BY <4>1, <4>2 DEF Answered, StepsLeft
                <5> QED BY <5>1, <2>1
            <4>3. CASE ~Active(r)
                BY <4>1, <4>3, <2>1 DEF StepsLeft
            <4> QED BY <4>2, <4>3
        <3>4. (\E s \in Requests : Settle(s)) => UNCHANGED req
            BY <2>0, SettlementIsFinal
        <3>5. LandDeposit \/ SomeSpendElsewhere \/ SomeRentChange \/ AgeRentCache
                => UNCHANGED req
            BY DEF LandDeposit, SomeSpendElsewhere, SpendElsewhere, SomeRentChange,
                   ChangeRent, AgeRentCache
        <3>6. UNCHANGED req => StepsLeft(r)' = StepsLeft(r)
            BY DEF StepsLeft
        <3> QED BY <3>1, <3>2, <3>3, <3>4, <3>5, <3>6, <2>1 DEF Next
    <2>5. FatesLeft(r)' <= FatesLeft(r)
        <3>1. CASE \E s \in Requests : Handle(s)
            <4>1. PICK s \in Requests : Handle(s)
                BY <3>1
            <4>2. \/ UNCHANGED tx
                  \/ /\ tx[s].status = "none"
                     /\ \E t \in InFlight : tx' = [tx EXCEPT ![s] = t]
                BY <4>1, SendsOnce
            <4>3. CASE UNCHANGED tx
                BY <4>3, <2>1 DEF FatesLeft
            <4>4. CASE /\ tx[s].status = "none"
                       /\ \E t \in InFlight : tx' = [tx EXCEPT ![s] = t]
                <5>1. FatesLeft(r)' <= 2
                    BY DEF FatesLeft
                <5>2. CASE r = s
                    BY <5>1, <5>2, <4>4 DEF FatesLeft
                <5>3. CASE r # s
                    <6>1. tx'[r] = tx[r]
                        BY <4>4, <5>3, <2>0 DEF TypeOK
                    <6> QED BY <6>1, <2>1 DEF FatesLeft
                <5> QED BY <5>2, <5>3
            <4> QED BY <4>2, <4>3, <4>4
        <3>2. CASE \E s \in Requests : Settle(s)
            <4>1. PICK s \in Requests : Settle(s)
                BY <3>2
            <4>2. CASE r = s
                BY <4>1, <4>2, <2>1, <2>3
            <4>3. CASE r # s
                <5>1. tx'[r] = tx[r]
                    BY <4>1, <4>3, <2>0, SettlementIsFinal
                <5> QED BY <5>1, <2>1 DEF FatesLeft
            <4> QED BY <4>2, <4>3
        <3>3. CASE Restart
            <4>1. tx'[r].status = tx[r].status
                BY <3>3, <2>0, TxCases DEF Restart, TypeOK, InFlight
            <4> QED BY <4>1, <2>1 DEF FatesLeft
        <3>4. SomeSubmit \/ LandDeposit \/ SomeSpendElsewhere \/ SomeRentChange
                \/ AgeRentCache => UNCHANGED tx
            BY DEF SomeSubmit, Submit, LandDeposit, SomeSpendElsewhere, ledger,
                   SpendElsewhere, SomeRentChange, ChangeRent, AgeRentCache
        <3>5. UNCHANGED tx => FatesLeft(r)' = FatesLeft(r)
            BY DEF FatesLeft
        <3> QED BY <3>1, <3>2, <3>3, <3>4, <3>5, <2>1 DEF Next
    <2> QED BY <2>2, <2>3, <2>4, <2>5 DEF Shorter
<1> QED BY <1>1, TruthInvariance, PTL DEF Spec, SubmissionsAreBounded
=============================================================================
