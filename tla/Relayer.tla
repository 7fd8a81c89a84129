------------------------------- MODULE Relayer -------------------------------
(***************************************************************************)
(* The reference relayer's POST /submit_proof (relayer/src/api.js,         *)
(* preflight.js, tx.js) between its clients and the chain. Each request is *)
(* handled by an asynchronous function; one action is what runs from one   *)
(* await to the next, and requests interleave there.                       *)
(*                                                                         *)
(* A deposit evicts roots: a proof made when the pool had "at" deposits is *)
(* on a root the pool keeps until RootHistorySize more have landed. Rate   *)
(* limits, malformed fields and logging are left out: limits only remove   *)
(* behaviours, and a field is refused before anything is awaited.          *)
(***************************************************************************)
EXTENDS RelayerFees

CONSTANTS
    Requests,            \* the submissions, a retry being another one
    Notes,
    Denomination,
    RootHistorySize,     \* 256 in the code
    Ceilings,            \* relayerFeeMax values clients submit
    Estimates,           \* priority prices the RPC may report
    Rents,               \* nullifier rents of the cluster
    InitialBalance,
    MinimumBalanceToServe,  \* 0.01 SOL in the code
    RpcLag,              \* deposits an RPC node may be behind
    MaxDeposits,         \* bound of the model
    NoRent

ASSUME RelayerAssumption ==
    /\ Ceilings \subseteq Nat /\ Estimates \subseteq Nat /\ Rents \subseteq Nat
    /\ RootHistorySize \in Nat \ {0} /\ MaxDeposits \in Nat \ {0}
    /\ Denomination \in Nat /\ InitialBalance \in Nat /\ RpcLag \in Nat
    /\ NoRent \notin Rents

VARIABLES
    deposits,   \* the chain: deposits so far
    spent,      \* the chain: notes whose nullifier account exists
    rentNow,    \* the chain: rent of a nullifier account
    tx,         \* per submission, the transaction sent and what became of it
    balance,    \* lamports of the relayer's wallet
    pending,    \* pendingNullifiers
    rentCache,  \* the last rent read, and whether it is within its TTL
    req         \* per submission, the local variables of handleSubmit

vars == <<deposits, spent, rentNow, tx, balance, pending, rentCache, req>>

chain  == <<deposits, spent, rentNow>>
ledger == <<tx, balance>>

Answered(answer) == [pc |-> "answered", answer |-> answer]

Active(r) == req[r].pc \notin {"new", "answered"}

\* A root of the pool's history with the given number of deposits.
RootKept(at, seen) == at <= seen /\ seen - at < RootHistorySize

-----------------------------------------------------------------------------
(* Entering and leaving the handler *)

\* The answer is sent, and the finally clause releases the guard.
\* Mutant of Release: only a success releases it.
ReleaseOnSuccess(r, answer) ==
    pending' = IF answer = "ok" THEN pending \ {req[r].note} ELSE pending

Release(r, answer) == pending' = pending \ {req[r].note}

Answer(r, answer) ==
    /\ Release(r, answer)
    /\ req' = [req EXCEPT ![r] = Answered(answer)]

\* Mutant of GuardFree: the guard is not looked at on arrival (L-2).
GuardUnchecked(note) == TRUE

GuardFree(note) == note \notin pending

\* A client submits a proof it made against a root of the pool. The guard is
\* checked and taken before anything is awaited.
Submit(r, note, feeMax, at) ==
    /\ req[r].pc = "new"
    /\ at <= deposits
    /\ IF GuardFree(note)
       THEN /\ pending' = pending \cup {note}
            /\ req' = [req EXCEPT ![r] =
                  [pc |-> "loadPool", note |-> note,
                   feeMax |-> feeMax, at |-> at, knownRoot |-> FALSE,
                   rent |-> 0, perCU |-> 0, fee |-> 0]]
       ELSE /\ req' = [req EXCEPT ![r] = Answered("NullifierPending")]
            /\ UNCHANGED pending
    /\ UNCHANGED <<chain, ledger, rentCache>>

\* An RPC call of a step that does not handle its failure throws.
RpcFails(r, step) ==
    /\ req[r].pc = step
    /\ Answer(r, "InternalError")
    /\ UNCHANGED <<chain, ledger, rentCache>>

-----------------------------------------------------------------------------
(* handleSubmit, await by await *)

\* The address names no account, or one that is not a pool of the program.
NotAPool(r) == Answer(r, "NotAPool")

\* loadPool, from a node that may lag, and the cap of the pool.
LoadPool(r) ==
    /\ req[r].pc = "loadPool"
    /\ \/ NotAPool(r)
       \/ \E seen \in Larger(0, deposits - RpcLag) .. deposits :
             IF req[r].feeMax > OnChainCap(Denomination)
             THEN Answer(r, "RelayerFeeMaxTooHigh")
             ELSE /\ req' = [req EXCEPT ![r].pc = "rent",
                                ![r].knownRoot = RootKept(req[r].at, seen)]
                  /\ UNCHANGED pending
    /\ UNCHANGED <<chain, ledger, rentCache>>

CacheFresh == rentCache # NoRent /\ rentCache.fresh

\* getNullifierRent when the cache is not fresh: the chain's value, or - when
\* the chain cannot be read - the last value read, else the constant.
FallbackRent == IF rentCache = NoRent THEN NullifierRent ELSE rentCache.rent

\* Mutant of CacheAfterFailure: a failed read counts as one.
FailureCached == [rent |-> FallbackRent, fresh |-> TRUE]

CacheAfterFailure == rentCache

RentReads ==
    IF CacheFresh
    THEN {[rent |-> rentCache.rent, cache |-> rentCache]}
    ELSE {[rent |-> rentNow, cache |-> [rent |-> rentNow, fresh |-> TRUE]],
          [rent |-> FallbackRent, cache |-> CacheAfterFailure]}

CeilingCoversFloor(feeMax, rent) == feeMax >= SubmitFloor(rent)

ReadRent(r) ==
    /\ req[r].pc = "rent"
    /\ \E read \in RentReads :
        /\ rentCache' = read.cache
        /\ IF CeilingCoversFloor(req[r].feeMax, read.rent)
           THEN /\ req' = [req EXCEPT ![r].pc = "plan", ![r].rent = read.rent]
                /\ UNCHANGED pending
           ELSE Answer(r, "RelayerFeeBelowCost")
    /\ UNCHANGED <<chain, ledger>>

\* Mutant of AttachedPerCU: only the charge is capped by the ceiling (H-3).
AttachedEstimate(feeMax, rent, estimate) == estimate

\* The price attached to the transaction.
AttachedPerCU(feeMax, rent, estimate) == AppliedPerCU(feeMax, rent, estimate)

\* getPriorityFeePerCU: a price reported for the accounts a withdrawal locks,
\* and 0 when there is none or the call fails.
EstimatedPrices == Estimates \cup {0}

\* planFee; a plan that would not be reimbursed is refused.
PlanFee(r, estimate) ==
    LET feeMax == req[r].feeMax
        rent   == req[r].rent
    IN /\ req[r].pc = "plan"
       /\ IF Subsidy(feeMax, rent, estimate) > 0
          THEN Answer(r, "RelayerFeeBelowCost")
          ELSE /\ req' = [req EXCEPT ![r].pc = "balance",
                             ![r].perCU = AttachedPerCU(feeMax, rent, estimate),
                             ![r].fee   = ActualFee(feeMax, rent, estimate)]
               /\ UNCHANGED pending
       /\ UNCHANGED <<chain, ledger, rentCache>>

CheckBalance(r) ==
    /\ req[r].pc = "balance"
    /\ IF balance < MinimumBalanceToServe
       THEN Answer(r, "RelayerBusy")
       ELSE /\ req' = [req EXCEPT ![r].pc = "preflight"]
            /\ UNCHANGED pending
    /\ UNCHANGED <<chain, ledger, rentCache>>

\* The proof commits to another relayer, ceiling or recipient, or it does not
\* verify.
ProofRefused(r) == Answer(r, "InvalidProof")

\* preflight: the root must be in the pool data loaded before, and the note
\* must not be spent; a lookup that fails lets the request through.
Preflight(r) ==
    /\ req[r].pc = "preflight"
    /\ IF ~req[r].knownRoot
       THEN Answer(r, "StaleRoot")
       ELSE \/ /\ req[r].note \in spent
               /\ Answer(r, "NullifierSpent")
            \/ ProofRefused(r)
            \/ \* not spent, or the lookup failed, or the node lags
               /\ req' = [req EXCEPT ![r].pc = "send"]
               /\ UNCHANGED pending
    /\ UNCHANGED <<chain, ledger, rentCache>>

\* What the chain decides about a withdrawal of note, proved at deposit "at",
\* whose transaction fees are "fees". InternalError stands for every error the
\* handler does not name.
ChainRejects(note, at, fees) ==
    IF ~RootKept(at, deposits) THEN "StaleRoot"
    ELSE IF note \in spent THEN "NullifierSpent"
    ELSE IF balance < fees + rentNow THEN "InternalError"
    ELSE "none"

TxFees(priority) == BaseFee + priority

NewTx(r, orphan) ==
    [status |-> "sent", note |-> req[r].note, at |-> req[r].at,
     fee |-> req[r].fee, priority |-> PriorityFeeLamports(req[r].perCU),
     rentRead |-> req[r].rent, orphan |-> orphan]

\* What is remembered of a transaction that landed, reverted or expired.
Settled(t, status) == [status |-> status, note |-> t.note]

\* submitWithdraw up to sendTransaction, which simulates the transaction. The
\* reply may be lost after the node has accepted it: the handler then throws,
\* and nobody waits for that transaction.
Send(r) ==
    /\ req[r].pc = "send"
    /\ LET rejected == ChainRejects(req[r].note, req[r].at,
                                    TxFees(PriorityFeeLamports(req[r].perCU)))
       IN
       IF rejected # "none"
       THEN Answer(r, rejected) /\ UNCHANGED tx
       ELSE \/ /\ tx' = [tx EXCEPT ![r] = NewTx(r, FALSE)]
               /\ req' = [req EXCEPT ![r] = [pc |-> "confirm", note |-> req[r].note]]
               /\ UNCHANGED pending
            \/ /\ tx' = [tx EXCEPT ![r] = NewTx(r, TRUE)]
               /\ Answer(r, "InternalError")
    /\ UNCHANGED <<chain, balance, rentCache>>

\* confirmTransaction resolves for a transaction that failed as well; the
\* handler looks at value.err (SEC-04).
\* Mutant of ConfirmedAnswer: it does not.
ConfirmedIsOk(status) == IF status = "InternalError" THEN status ELSE "ok"

ConfirmedAnswer(status) == status

\* Mutant of Resolves: the expiry of the blockhash is not looked for.
ResolvesWhenExecuted(status) == status \notin {"sent", "InternalError"}

Resolves(status) == status # "sent"

Confirm(r) ==
    /\ req[r].pc = "confirm"
    /\ Resolves(tx[r].status)
    /\ Answer(r, ConfirmedAnswer(tx[r].status))
    /\ UNCHANGED <<chain, ledger, rentCache>>

-----------------------------------------------------------------------------
(* The chain and the clock (external) *)

\* A transaction whose fees the wallet can pay is executed: it withdraws, or it
\* reverts and costs its fees.
Execute(r) ==
    LET fees  == TxFees(tx[r].priority)
        error == ChainRejects(tx[r].note, tx[r].at, fees)
    IN /\ tx[r].status = "sent"
       /\ balance >= fees
       /\ IF error = "none"
          THEN /\ tx' = [tx EXCEPT ![r] = Settled(tx[r], "ok")]
               /\ spent' = spent \cup {tx[r].note}
               /\ balance' = balance - fees - rentNow + tx[r].fee
          ELSE /\ tx' = [tx EXCEPT ![r] = Settled(tx[r], error)]
               /\ balance' = balance - fees
               /\ UNCHANGED spent
       /\ UNCHANGED <<deposits, rentNow, pending, rentCache, req>>

\* Its blockhash expires before it is executed; waiting for it throws.
Expire(r) ==
    /\ tx[r].status = "sent"
    /\ tx' = [tx EXCEPT ![r] = Settled(tx[r], "InternalError")]
    /\ UNCHANGED <<chain, balance, pending, rentCache, req>>

LandDeposit ==
    /\ deposits < MaxDeposits
    /\ deposits' = deposits + 1
    /\ UNCHANGED <<spent, rentNow, ledger, pending, rentCache, req>>

\* The owner withdraws the note by another way.
SpendElsewhere(note) ==
    /\ note \notin spent
    /\ spent' = spent \cup {note}
    /\ UNCHANGED <<deposits, rentNow, ledger, pending, rentCache, req>>

ChangeRent(rent) ==
    /\ rent # rentNow
    /\ rentNow' = rent
    /\ UNCHANGED <<deposits, spent, ledger, pending, rentCache, req>>

\* Ten minutes pass since the rent was read.
AgeRentCache ==
    /\ CacheFresh
    /\ rentCache' = [rentCache EXCEPT !.fresh = FALSE]
    /\ UNCHANGED <<chain, ledger, pending, req>>

\* The process dies and is started again: all its memory is lost, what it sent
\* is not.
Restart ==
    /\ \E r \in Requests : Active(r)
    /\ req' = [r \in Requests |-> IF Active(r) THEN Answered("none") ELSE req[r]]
    /\ pending' = {}
    /\ rentCache' = NoRent
    /\ tx' = [r \in Requests |-> IF tx[r].status = "sent"
                                THEN [tx[r] EXCEPT !.orphan = TRUE] ELSE tx[r]]
    /\ UNCHANGED <<chain, balance>>

-----------------------------------------------------------------------------
Init ==
    /\ deposits = 1
    /\ spent = {}
    /\ rentNow \in Rents
    /\ tx = [r \in Requests |-> [status |-> "none"]]
    /\ balance = InitialBalance
    /\ pending = {}
    /\ rentCache = NoRent
    /\ req = [r \in Requests |-> [pc |-> "new"]]

Handle(r) ==
    \/ LoadPool(r)
    \/ ReadRent(r)
    \/ \E estimate \in EstimatedPrices : PlanFee(r, estimate)
    \/ CheckBalance(r)
    \/ Preflight(r)
    \/ Send(r)
    \/ Confirm(r)
    \/ \E step \in {"loadPool", "balance", "send"} : RpcFails(r, step)

SomeSubmit ==
    \E r \in Requests, note \in Notes, feeMax \in Ceilings, at \in 1 .. MaxDeposits :
        Submit(r, note, feeMax, at)

Settle(r) == Execute(r) \/ Expire(r)

SomeSpendElsewhere == \E note \in Notes : SpendElsewhere(note)

SomeRentChange == \E rent \in Rents : ChangeRent(rent)

Next == \/ SomeSubmit
        \/ \E r \in Requests : Handle(r)
        \/ \E r \in Requests : Settle(r)
        \/ LandDeposit
        \/ SomeSpendElsewhere
        \/ SomeRentChange
        \/ AgeRentCache
        \/ Restart

\* The event loop runs every handler whose await is over, RPC calls answer or
\* fail, and a transaction is executed or its blockhash expires. Clients, other
\* users, rent changes and crashes are under no obligation.
Fairness == \A r \in Requests : WF_vars(Handle(r)) /\ WF_vars(Settle(r))

Spec == Init /\ [][Next]_vars /\ Fairness

-----------------------------------------------------------------------------
(* Properties *)

\* The relayer declines to sign.
Refusals == {"RelayerFeeMaxTooHigh", "RelayerFeeBelowCost", "RelayerBusy",
             "NullifierPending", "NotAPool", "InvalidProof"}

Answers == Refusals \cup {"none", "ok", "InternalError", "StaleRoot",
                         "NullifierSpent"}

Steps == {"loadPool", "rent", "plan", "balance", "preflight", "send"}

\* What a submission's record holds, by the step it is at.
Idle       == [pc : {"new"}] \cup [pc : {"answered"}, answer : Answers]
Handling   == [pc : Steps, note : Notes, feeMax : Ceilings, at : 1 .. MaxDeposits,
               knownRoot : BOOLEAN, rent : Nat, perCU : Nat, fee : Nat]
Confirming == [pc : {"confirm"}, note : Notes]
Request    == Idle \cup Handling \cup Confirming

\* What is known of a transaction, by its status.
Unsent   == [status : {"none"}]
InFlight == [status : {"sent"}, note : Notes, at : 1 .. MaxDeposits, fee : Nat,
             priority : Nat, rentRead : Nat, orphan : BOOLEAN]
Done     == [status : Answers \ {"none"}, note : Notes]
TxState  == Unsent \cup InFlight \cup Done

CachedRent == {NoRent} \cup [rent : Rents, fresh : BOOLEAN]

\* Every variable has its type; the wallet is never overdrawn, and the cache
\* holds nothing but rents the cluster has had.
TypeOK ==
    /\ deposits \in 1 .. MaxDeposits
    /\ spent \subseteq Notes /\ pending \subseteq Notes
    /\ rentNow \in Rents
    /\ rentCache \in CachedRent
    /\ balance \in Nat
    /\ req \in [Requests -> Request]
    /\ tx \in [Requests -> TxState]

\* At most one handler works on a note, and the guard holds exactly the notes
\* being worked on: nothing is signed twice in parallel, and no note stays
\* locked behind a request that was refused, failed or crashed (L-2).
GuardMatchesHandlers ==
    /\ pending = {req[r].note : r \in {q \in Requests : Active(q)}}
    /\ \A r, s \in Requests :
          Active(r) /\ Active(s) /\ req[r].note = req[s].note => r = s

\* Two transactions of one note are in flight together only if the relayer lost
\* sight of one: its reply was lost, or the process died while it was waiting.
DoubleSendNeedsLostReply ==
    \A r, q \in Requests :
        /\ r # q
        /\ tx[r].status = "sent" /\ tx[q].status = "sent"
        /\ tx[r].note = tx[q].note
        => tx[r].orphan \/ tx[q].orphan

\* What the relayer answers is true: "ok" is said of a transaction that withdrew
\* the note (SEC-04), "NullifierSpent" of a note that can never be withdrawn
\* again, and a refusal to sign of a request for which nothing was sent.
AnswersAreTrue ==
    [][\A r \in Requests :
          Active(r) /\ req'[r].pc = "answered" =>
            LET answer == req'[r].answer IN
            /\ answer = "ok" => tx[r] = [status |-> "ok", note |-> req[r].note]
            /\ answer = "NullifierSpent" => req[r].note \in spent
            /\ answer \in Refusals => tx'[r].status = "none"]_vars

\* The wallet only ever loses the fees of a transaction that reverted, or what
\* the nullifier rent rose between its read and the landing: a withdrawal that
\* lands pays for itself, whatever its ceiling and the priority it was given
\* (H-3).
NoLossButRentDrift ==
    [][balance' < balance =>
         \E r \in Requests :
            /\ tx[r].status = "sent" /\ tx'[r].status # "sent"
            /\ balance - balance' <=
                  IF tx'[r].status = "ok" THEN Larger(0, rentNow - tx[r].rentRead)
                                          ELSE BaseFee + tx[r].priority]_vars

\* Every request is answered, and so every note is eventually let go of.
EveryRequestAnswered == \A r \in Requests : Active(r) ~> ~Active(r)

-----------------------------------------------------------------------------
(* Claims of the code that do not hold *)

\* "a ceiling at or above them is never subsidised" (api.js, on the floor of
\* signature fee and nullifier rent).
NeverSubsidised ==
    [][\A r \in Requests : tx[r].status = "sent" /\ tx'[r].status = "ok"
                             => balance' >= balance]_vars
==============================================================================
