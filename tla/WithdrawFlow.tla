---------------------------- MODULE WithdrawFlow ----------------------------
(***************************************************************************)
(* A withdrawal as the application makes it (app/src/pages/Withdraw.tsx,   *)
(* hooks/useRelayer.ts, hooks/usePool.ts, hooks/useClusterGate.ts,         *)
(* utils/withdrawalCheck.ts, utils/clusterGate.ts, sdk/src/fees.ts), with  *)
(* a relayer that is not trusted: it quotes what it likes, submits the     *)
(* proofs it holds when it likes, or never, and answers what it likes.     *)
(*                                                                         *)
(* The handlers are asynchronous: between two of their steps the user uses *)
(* whatever control the page shows, another effect settles, or the user    *)
(* leaves the page, which comes back with a fresh state while the handlers *)
(* of the earlier one run on.                                              *)
(***************************************************************************)
EXTENDS Naturals, FiniteSets

CONSTANTS
    Pools,
    Notes, PoolOf,          \* what the user may paste, and the pool it names
    Recipients,
    Cap,                    \* denomination / MAX_RELAYER_FEE_DIVISOR
    Fees,                   \* the ceilings a relayer may quote
    MaxStaleRootRetries,    \* MAX_STALE_ROOT_RETRIES
    Nothing,                \* null, and none of the others
    MaxMounts,              \* bound: times the page is opened
    MaxProofs               \* bound: proofs handed to the relayer

VARIABLES
    page,       \* the state of the mounted component, with its quote handler
    run,        \* executeWithdraw, for each time the page was opened
    cluster,    \* whether the connection serves the cluster allowed
    identified, \* the genesis hash of the connection is in the cache
    proofs,     \* the proofs the relayer holds
    landed      \* the proof each note was spent by

vars == <<page, run, cluster, identified, proofs, landed>>

Mounts == 1 .. MaxMounts

\* What a proof binds, and the ceiling shown as the user agreed to it.
Proofs == [note : Notes, recipient : Recipients, fee : Fees, shown : Fees]

\* The amounts of a quote that was accepted, of the pool of that denomination.
Breakdowns == [pool : Pools, fee : Fees]

ASSUME WithdrawAssumption ==
    /\ PoolOf \in [Notes -> Pools]
    /\ Fees \subseteq Nat
    /\ Cap \in [Pools -> Nat]
    /\ MaxStaleRootRetries \in Nat
    /\ MaxMounts \in Nat \ {0}
    /\ Nothing \notin Notes \cup Pools \cup Recipients
    /\ Nothing \notin Proofs /\ Nothing \notin Breakdowns

-----------------------------------------------------------------------------
(* The anti-mainnet gate.                                                  *)

\* Mutant: a failure to identify lets the action through.
VerifyFailingOpen(allowed) ==
    \/ /\ identified' = TRUE
       /\ allowed = cluster
    \/ /\ ~identified
       /\ allowed = TRUE
       /\ UNCHANGED identified

\* verifyCluster: only a success is remembered, and a failure is a refusal.
Verify(allowed) ==
    \/ /\ identified' = TRUE
       /\ allowed = cluster
    \/ /\ ~identified
       /\ allowed = FALSE
       /\ UNCHANGED identified

-----------------------------------------------------------------------------
(* The page.                                                               *)

NoQuote == [at |-> "idle"]

Mounted(m) ==
    [mount |-> m, step |-> "paste", note |-> Nothing, recipient |-> Nothing,
     tail |-> Nothing, info |-> Nothing, reading |-> Nothing,
     breakdown |-> Nothing, quote |-> NoQuote, gate |-> "checking",
     error |-> FALSE, sig |-> Nothing]

Set(p) == page' = p
Allowed == page.gate = "allowed"

\* The amount of the withdrawal is the pool's, whatever the note says (L-4).
PoolDenomination == page.info

\* The fees, and what the user receives at least, on the confirmation screen.
AmountsShown == page.breakdown

\* recipientConfirmed: what was typed on that screen is the end of the address.
RecipientConfirmed == page.recipient # Nothing /\ page.tail = page.recipient

\* Of a handler that leaves the chain, the relayer and the cache alone.
Elsewhere == <<run, cluster, identified, proofs, landed>>

\* useClusterGate, once per mount.
GateShown ==
    /\ page.gate = "checking"
    /\ \E allowed \in BOOLEAN :
         /\ Verify(allowed)
         /\ Set([page EXCEPT !.gate = IF allowed THEN "allowed" ELSE "blocked"])
    /\ UNCHANGED <<run, cluster, proofs, landed>>

\* The effect of usePoolInfo as the note changes: the read of an earlier pool
\* is dropped, what it had found is kept until the new one settles.
Reading(p, n) ==
    IF p.note # Nothing /\ PoolOf[p.note] = PoolOf[n] THEN p.reading ELSE PoolOf[n]

PasteNote(n) ==
    /\ page.step = "paste" /\ Allowed
    /\ Set([page EXCEPT !.note = n, !.step = "recipient",
                        !.reading = Reading(page, n)])
    /\ UNCHANGED Elsewhere

\* The account is the pool, or the read failed and what was there stays.
PoolRead ==
    /\ page.reading # Nothing
    /\ \E info \in {page.reading, page.info} :
         Set([page EXCEPT !.info = info, !.reading = Nothing])
    /\ UNCHANGED Elsewhere

EditRecipient(r) ==
    /\ page.step = "recipient" /\ page.recipient # r
    /\ Set([page EXCEPT !.recipient = r, !.tail = Nothing])
    /\ UNCHANGED Elsewhere

\* The last characters of the recipient, copied from where it came from.
TypeTail ==
    /\ page.step = "confirm" /\ page.tail # page.recipient
    /\ Set([page EXCEPT !.tail = page.recipient])
    /\ UNCHANGED Elsewhere

Back ==
    /\ \/ page.step = "recipient" /\ Set([page EXCEPT !.step = "paste"])
       \/ page.step = "confirm" /\ Set([page EXCEPT !.step = "recipient"])
       \/ /\ page.step = "progress" /\ page.error
          /\ Set([page EXCEPT !.step = "confirm", !.error = FALSE])
    /\ UNCHANGED Elsewhere

NewWithdrawal ==
    /\ page.step = "done"
    /\ Set([page EXCEPT !.step = "paste", !.note = Nothing, !.info = Nothing,
              !.reading = Nothing, !.recipient = Nothing, !.breakdown = Nothing,
              !.sig = Nothing])
    /\ UNCHANGED Elsewhere

-----------------------------------------------------------------------------
(* The quote asked for before the confirmation screen.                     *)

\* The estimate a relayer quotes fits one denomination, not always the pool's
\* that it was asked for.
Quotes == [fee : Fees, about : Pools]

\* Mutant: in the withdrawal the ceiling shown is not passed, and the cap of
\* the denomination is all that bounds the fee (FE-2).
AcceptableUnbound(q, denomination, ceiling) ==
    q.about = denomination /\ q.fee <= Cap[denomination]

\* Mutant: the fee is not bounded at all.
AcceptableAnyFee(q, denomination, ceiling) == q.about = denomination

\* validateFeeQuote: the estimate is what the denomination and the fee imply,
\* and the fee is at most the ceiling.
Acceptable(q, denomination, ceiling) ==
    q.about = denomination /\ q.fee <= ceiling

\* The button is enabled.
MayAskQuote ==
    page.recipient # Nothing /\ page.quote = NoQuote /\ Allowed

\* Continue: past its gate, the handler keeps the denomination as it
\* is now.
AskQuote ==
    /\ page.step = "recipient" /\ MayAskQuote
    /\ Verify(TRUE)
    /\ Set([page EXCEPT !.quote = [at |-> "fetch",
                                   denomination |-> PoolDenomination]])
    /\ UNCHANGED <<run, cluster, proofs, landed>>

QuoteArrives ==
    /\ page.quote.at = "fetch" /\ page.quote.denomination # Nothing
    /\ \E q \in Quotes :
         /\ Acceptable(q, page.quote.denomination, Cap[page.quote.denomination])
         /\ Set([page EXCEPT !.quote = NoQuote, !.step = "confirm",
                   !.breakdown = [pool |-> page.quote.denomination, fee |-> q.fee]])
    /\ UNCHANGED Elsewhere

\* No answer in time, an error, or a quote that is refused.
QuoteFails ==
    /\ page.quote.at = "fetch"
    /\ Set([page EXCEPT !.quote = NoQuote])
    /\ UNCHANGED Elsewhere

-----------------------------------------------------------------------------
(* executeWithdraw.  It works on what the page held at the click.          *)

Idle == [at |-> "idle"]

Others == <<cluster, proofs, landed>>

\* The Withdraw button, and Retry after an error.
Press ==
    /\ \/ page.step = "confirm"
       \/ page.step = "progress" /\ page.error
    /\ Allowed /\ RecipientConfirmed
    /\ run' = [run EXCEPT ![page.mount] =
         [at |-> "gate", attempt |-> 0, note |-> page.note,
          recipient |-> page.recipient, denomination |-> PoolDenomination,
          shown |-> AmountsShown.fee]]
    /\ Set([page EXCEPT !.step = "progress", !.error = FALSE])
    /\ UNCHANGED <<Others, identified>>

\* The handler of a component that is gone changes no state any more.
Show(m, p) == IF page.mount = m THEN Set(p) ELSE UNCHANGED page

Fail(m) ==
    /\ run' = [run EXCEPT ![m] = Idle]
    /\ Show(m, [page EXCEPT !.error = TRUE])

RunGate(m) ==
    /\ run[m].at = "gate"
    /\ \E allowed \in BOOLEAN :
         /\ Verify(allowed)
         /\ IF allowed
            THEN run' = [run EXCEPT ![m].at = "fetch"] /\ UNCHANGED page
            ELSE Fail(m)
    /\ UNCHANGED Others

\* The relayer sends the headers of its answer, with which the timer of the
\* request is cleared, but never the end of the body: the handler awaits it for
\* ever (fetchWithTimeout, parseJson).
BodyStalls(m) ==
    /\ run[m].at \in {"fetch", "reply"}
    /\ run' = [run EXCEPT ![m] = [at |-> "stalled", note |-> run[m].note]]
    /\ UNCHANGED page

\* A new quote, no worse than what was on the screen, and the tree; then the
\* proof, which the relayer has as the request leaves.
Submit(m) ==
    /\ run[m].at = "fetch" /\ run[m].denomination # Nothing
    /\ \E q \in Quotes :
         LET proof == [note |-> run[m].note, recipient |-> run[m].recipient,
                       fee |-> q.fee, shown |-> run[m].shown]
         IN  /\ Acceptable(q, run[m].denomination, run[m].shown)
             /\ Cardinality(proofs \cup {proof}) <= MaxProofs
             /\ proofs' = proofs \cup {proof}
    /\ run' = [run EXCEPT ![m].at = "reply"]
    /\ UNCHANGED <<page, cluster, landed, identified>>

\* No headers in time, the connection lost, an error in an answer, a quote that
\* is refused, no tree (it is rebuilt beside the request for the quote), no leaf
\* of the note in it, or no signature.
GoesWrong(m) == run[m].at \in {"fetch", "reply"} /\ Fail(m)

\* Mutant: every refusal for a stale root is tried again as a first attempt.
StaleRootForever(m) ==
    /\ run[m].at \in {"fetch", "reply"}
    /\ run' = [run EXCEPT ![m].at = "gate", ![m].attempt = 0]
    /\ UNCHANGED page

\* An error that speaks of StaleRoot or RootNotFound, which the relayer can
\* answer to either request: all of it again, up to a bound.
StaleRoot(m) ==
    /\ run[m].at \in {"fetch", "reply"}
    /\ IF run[m].attempt < MaxStaleRootRetries
       THEN /\ run' = [run EXCEPT ![m].at = "gate", ![m].attempt = @ + 1]
            /\ UNCHANGED page
       ELSE Fail(m)

\* What the page can tell of a signature: the notes whose nullifier accounts its
\* transaction lists.  Any transaction may list those of the notes the relayer
\* has a proof of, if only to send them a lamport; the empty set stands for one
\* that reverted, is unknown or is about something else.
Signatures == SUBSET {p.note : p \in proofs}

\* 200 with what can be a signature.
Answered(m) ==
    /\ run[m].at = "reply"
    /\ \E sig \in Signatures :
         run' = [run EXCEPT ![m] = [at |-> "check", sig |-> sig,
                                    note |-> run[m].note]]
    /\ UNCHANGED page

\* Mutant: that the transaction lists the nullifier account is enough.
NotChecked(note) == TRUE

\* The nullifier account exists and is the program's, which only a withdrawal of
\* the note makes it.
RecordedAsSpent(note) == landed[note] # Nothing

\* confirmWithdrawalOnChain: the transaction, polled up to a deadline, and then
\* the nullifier account; a lagging node may show neither.
ConfirmOnChain(m) ==
    /\ run[m].at = "check"
    /\ \/ /\ run[m].note \in run[m].sig
          /\ RecordedAsSpent(run[m].note)
          /\ Show(m, [page EXCEPT !.step = "done", !.sig = run[m].sig])
          /\ run' = [run EXCEPT ![m] = Idle]
       \/ Fail(m)

Reply(m) ==
    /\ \/ Answered(m) \/ StaleRoot(m) \/ GoesWrong(m) \/ BodyStalls(m)
       \/ ConfirmOnChain(m)
    /\ UNCHANGED <<Others, identified>>

Execute(m) == RunGate(m) \/ Submit(m) \/ Reply(m)

-----------------------------------------------------------------------------
(* The user leaves, the relayer submits.                                   *)

Leave ==
    /\ page.mount < MaxMounts
    /\ Set(Mounted(page.mount + 1))
    /\ UNCHANGED Elsewhere

\* The relayer submits a proof, and the program takes one of each note, with a
\* fee within its own cap.  One whose root has left the ring is not taken,
\* which is as if it were never submitted.
Land(p) ==
    /\ landed[p.note] = Nothing
    /\ p.fee <= Cap[PoolOf[p.note]]
    /\ landed' = [landed EXCEPT ![p.note] = p]
    /\ UNCHANGED <<page, run, cluster, identified, proofs>>

Init ==
    /\ page = Mounted(1)
    /\ run = [m \in Mounts |-> Idle]
    /\ cluster \in BOOLEAN
    /\ identified = FALSE
    /\ proofs = {}
    /\ landed = [n \in Notes |-> Nothing]

User ==
    \/ \E n \in Notes : PasteNote(n)
    \/ \E r \in Recipients : EditRecipient(r)
    \/ TypeTail \/ Back \/ NewWithdrawal \/ AskQuote \/ Press \/ Leave

Effects == GateShown \/ PoolRead \/ QuoteArrives \/ QuoteFails

Next ==
    \/ User \/ Effects
    \/ \E m \in Mounts : Execute(m)
    \/ \E p \in proofs : Land(p)

\* Every await of a handler settles, but for that of a body the relayer stalls:
\* the identification of the cluster and the headers of an answer by their
\* timeouts, the polls of the transaction by their deadline, the proof because it
\* is computed, and the reads of the tree and of the nullifier account because
\* calls to the node return or throw.
Fairness == \A m \in Mounts : WF_vars(Execute(m))

Spec == Init /\ [][Next]_vars /\ Fairness

-----------------------------------------------------------------------------
(* Properties.                                                             *)

OrNothing(S) == S \cup {Nothing}

PageStates ==
    [mount : Mounts, step : {"paste", "recipient", "confirm", "progress", "done"},
     note : OrNothing(Notes),
     recipient : OrNothing(Recipients), tail : OrNothing(Recipients),
     info : OrNothing(Pools), reading : OrNothing(Pools),
     breakdown : OrNothing(Breakdowns),
     quote : {NoQuote} \cup [at : {"fetch"}, denomination : OrNothing(Pools)],
     gate : {"checking", "allowed", "blocked"}, error : BOOLEAN,
     sig : OrNothing(SUBSET Notes)]

Working ==
    [at : {"gate", "fetch", "reply"}, attempt : Nat, note : Notes,
     recipient : Recipients, denomination : OrNothing(Pools), shown : Fees]

Checking == [at : {"check"}, sig : SUBSET Notes, note : Notes]

Stalled == [at : {"stalled"}, note : Notes]

RunStates == {Idle} \cup Working \cup Checking \cup Stalled

\* The amounts on the screen, whichever pool they are of, respect its cap.
TypeOK ==
    /\ page \in PageStates
    /\ page.breakdown # Nothing => page.breakdown.fee <= Cap[page.breakdown.pool]
    /\ run \in [Mounts -> RunStates]
    /\ cluster \in BOOLEAN /\ identified \in BOOLEAN
    /\ proofs \subseteq Proofs
    /\ landed \in [Notes -> OrNothing(Proofs)]

\* "Withdrawal complete" is said only of a note that is spent, and spent by a
\* proof the user had made of that note, at a fee within the ceiling on screen
\* at that click, whatever the relayer answered, and when.  The transaction it
\* links to lists the note's nullifier account, and need not be the one that
\* spent it (confirmWithdrawalOnChain).
DoneMeansWithdrawn ==
    page.step = "done" =>
        /\ page.note \in page.sig
        /\ \E p \in proofs :
             landed[page.note] = p /\ p.note = page.note /\ p.fee <= p.shown

\* No proof leaves the page with a fee above the ceiling on the screen as the
\* user agreed, though the quote is asked for again (the second
\* validateFeeQuote of executeWithdraw), retried or not.
FeeWithinTheCeilingShown == \A p \in proofs : p.fee <= p.shown

\* On a cluster that is not the one allowed the relayer learns of no note:
\* no handler gets past its gate, however identification failed before.
NothingOffCluster ==
    ~cluster =>
        /\ page.quote.at # "fetch"
        /\ \A m \in Mounts : run[m].at \in {"idle", "gate"}

\* Every withdrawal ends, done or with an error the user can act on, however
\* often roots go stale and whatever the relayer answers, unless it stalls the
\* body of an answer, which no timer limits.
WithdrawalsEnd ==
    \A m \in Mounts : []<>(run[m] = Idle) \/ <>[](run[m].at = "stalled")
=============================================================================
