--------------------------- MODULE WithdrawProofs ---------------------------
(***************************************************************************)
(* Theorems about WithdrawFlow, for every set of pools, notes and          *)
(* recipients, every cap and every fee a relayer may quote.                *)
(***************************************************************************)
EXTENDS WithdrawFlow, TLAPS

-----------------------------------------------------------------------------
(* The inductive invariant.                                                *)

\* What the screens build on has been entered, and no quote is under way
\* once the confirmation screen is reached.
ScreensInOrder ==
    /\ page.step # "paste" => page.note # Nothing
    /\ page.step \in {"confirm", "progress"} => page.breakdown # Nothing
    /\ page.quote # NoQuote =>
         page.step \in {"paste", "recipient"} /\ page.note # Nothing

\* A withdrawal under way belongs to a page that was opened, and the page that
\* is mounted shows the progress of its own, about the note it was started for.
RunIsShown ==
    \A m \in Mounts : run[m] # Idle =>
        /\ m <= page.mount
        /\ m = page.mount =>
             /\ page.step = "progress" /\ ~page.error
             /\ page.note = run[m].note

\* "Done" is shown of a note that is spent, with a transaction that lists its
\* nullifier account: what confirmWithdrawalOnChain has found.
DoneMeansSpent ==
    page.step = "done" =>
        page.note \in page.sig /\ landed[page.note] # Nothing

IInv == TypeOK /\ ScreensInOrder /\ RunIsShown /\ DoneMeansSpent

-----------------------------------------------------------------------------
(* The screens: what only the page changes.                                *)

\* The parts of the state no handler of a screen touches.
LEMMA ElsewhereKept ==
    ASSUME IInv, UNCHANGED <<run, cluster, proofs, landed>>,
           identified' \in BOOLEAN, page' \in PageStates,
           page'.breakdown # Nothing =>
               page'.breakdown.fee <= Cap[page'.breakdown.pool]
    PROVE  TypeOK'
BY DEF IInv, TypeOK

\* A handler that leaves mount, step and note alone, and has no quote under way
\* that was not, disturbs the invariant only by the type of what it sets.
LEMMA FieldsSet ==
    ASSUME IInv, UNCHANGED <<run, landed>>, TypeOK',
           page'.mount = page.mount, page'.step = page.step,
           page'.note = page.note, page'.breakdown = page.breakdown,
           page'.quote = page.quote, page'.error = page.error,
           page'.sig = page.sig
    PROVE  IInv'
<1>1. ScreensInOrder'
  BY DEF IInv, ScreensInOrder
<1>2. RunIsShown'
  BY DEF IInv, RunIsShown
<1>3. DoneMeansSpent'
  BY DEF IInv, DoneMeansSpent
<1>4. QED
  BY <1>1, <1>2, <1>3 DEF IInv

\* Reads that settle, and what is typed.
LEMMA FieldSteps ==
    ASSUME IInv,
           \/ GateShown \/ PoolRead \/ TypeTail
           \/ \E r \in Recipients : EditRecipient(r)
    PROVE  IInv'
<1>1. CASE GateShown
  <2>1. page' \in PageStates /\ identified' \in BOOLEAN
    BY <1>1 DEF GateShown, Verify, Set, IInv, TypeOK, PageStates
  <2>2. TypeOK'
    BY <1>1, <2>1, ElsewhereKept DEF GateShown, Set, IInv, TypeOK, PageStates
  <2>3. QED
    BY <1>1, <2>2, FieldsSet DEF GateShown, Set, IInv, TypeOK, PageStates
<1>2. CASE PoolRead
  <2>1. page' \in PageStates
    BY <1>2 DEF PoolRead, Set, OrNothing, IInv, TypeOK, PageStates
  <2>2. TypeOK'
    BY <1>2, <2>1, ElsewhereKept
    DEF PoolRead, Elsewhere, Set, IInv, TypeOK, PageStates
  <2>3. QED
    BY <1>2, <2>2, FieldsSet
    DEF PoolRead, Elsewhere, Set, IInv, TypeOK, PageStates
<1>3. CASE TypeTail
  <2>1. page' \in PageStates
    BY <1>3 DEF TypeTail, Set, OrNothing, IInv, TypeOK, PageStates
  <2>2. TypeOK'
    BY <1>3, <2>1, ElsewhereKept
    DEF TypeTail, Elsewhere, Set, IInv, TypeOK, PageStates
  <2>3. QED
    BY <1>3, <2>2, FieldsSet
    DEF TypeTail, Elsewhere, Set, IInv, TypeOK, PageStates
<1>4. ASSUME NEW r \in Recipients, EditRecipient(r)
      PROVE  IInv'
  <2>1. page' \in PageStates
    BY <1>4 DEF EditRecipient, Set, OrNothing, IInv, TypeOK, PageStates
  <2>2. TypeOK'
    BY <1>4, <2>1, ElsewhereKept
    DEF EditRecipient, Elsewhere, Set, IInv, TypeOK, PageStates
  <2>3. QED
    BY <1>4, <2>2, FieldsSet
    DEF EditRecipient, Elsewhere, Set, IInv, TypeOK, PageStates
<1>5. QED
  BY <1>1, <1>2, <1>3, <1>4

\* No withdrawal of the page runs behind a screen that does not show it.
LEMMA ScreenChanges ==
    ASSUME IInv, UNCHANGED <<run, landed>>, TypeOK', page'.mount = page.mount,
           page.step # "progress" \/ page.error
    PROVE  RunIsShown'
<1>1. \A m \in Mounts : run[m] # Idle => m # page.mount /\ m <= page.mount
  BY DEF IInv, RunIsShown
<1>2. QED
  BY <1>1 DEF RunIsShown

\* The screens, one after another.
LEMMA ScreenSteps ==
    ASSUME IInv,
           \/ Back \/ NewWithdrawal \/ AskQuote \/ QuoteArrives \/ QuoteFails
           \/ \E n \in Notes : PasteNote(n)
    PROVE  IInv'
<1>1. CASE Back
  <2>1. /\ UNCHANGED Elsewhere
        /\ \/ /\ page.step = "recipient"
              /\ page' = [page EXCEPT !.step = "paste"]
           \/ /\ page.step = "confirm"
              /\ page' = [page EXCEPT !.step = "recipient"]
           \/ /\ page.step = "progress" /\ page.error
              /\ page' = [page EXCEPT !.step = "confirm", !.error = FALSE]
    BY <1>1 DEF Back, Set
  <2>2. page' \in PageStates /\ page'.breakdown = page.breakdown
    BY <2>1 DEF IInv, TypeOK, PageStates
  <2>3. TypeOK'
    BY <2>1, <2>2, ElsewhereKept DEF Elsewhere, IInv, TypeOK
  <2>4. ScreensInOrder'
    BY <2>1 DEF ScreensInOrder, NoQuote, IInv, TypeOK, PageStates
  <2>5. RunIsShown'
    BY <2>1, <2>3, ScreenChanges DEF Elsewhere, IInv, TypeOK, PageStates
  <2>6. DoneMeansSpent'
    BY <2>1 DEF Elsewhere, DoneMeansSpent, IInv, TypeOK, PageStates
  <2>7. QED
    BY <2>3, <2>4, <2>5, <2>6 DEF IInv
<1>2. CASE NewWithdrawal
  <2>1. /\ UNCHANGED Elsewhere
        /\ page.step = "done"
        /\ page' = [page EXCEPT !.step = "paste", !.note = Nothing,
             !.info = Nothing, !.reading = Nothing, !.recipient = Nothing,
             !.breakdown = Nothing, !.sig = Nothing]
    BY <1>2 DEF NewWithdrawal, Set
  <2>2. page' \in PageStates /\ page'.breakdown = Nothing
    BY <2>1 DEF OrNothing, IInv, TypeOK, PageStates
  <2>3. TypeOK'
    BY <2>1, <2>2, ElsewhereKept DEF Elsewhere, IInv, TypeOK
  <2>4. ScreensInOrder'
    BY <2>1 DEF ScreensInOrder, NoQuote, IInv, TypeOK, PageStates
  <2>5. RunIsShown'
    BY <2>1, <2>3, ScreenChanges DEF Elsewhere, IInv, TypeOK, PageStates
  <2>6. DoneMeansSpent'
    BY <2>1 DEF Elsewhere, DoneMeansSpent, IInv, TypeOK, PageStates
  <2>7. QED
    BY <2>3, <2>4, <2>5, <2>6 DEF IInv
<1>3. CASE AskQuote
  <2>1. /\ UNCHANGED <<run, cluster, proofs, landed>>
        /\ identified' \in BOOLEAN
        /\ page.step = "recipient"
        /\ page' = [page EXCEPT !.quote = [at |-> "fetch",
                                          denomination |-> page.info]]
    BY <1>3 DEF AskQuote, Verify, Set, PoolDenomination
  <2>2. page' \in PageStates /\ page'.breakdown = page.breakdown
    BY <2>1 DEF IInv, TypeOK, PageStates
  <2>3. TypeOK'
    BY <2>1, <2>2, ElsewhereKept DEF Elsewhere, IInv, TypeOK
  <2>4. ScreensInOrder'
    BY <2>1 DEF ScreensInOrder, NoQuote, IInv, TypeOK, PageStates
  <2>5. RunIsShown'
    BY <2>1, <2>3, ScreenChanges DEF Elsewhere, IInv, TypeOK, PageStates
  <2>6. DoneMeansSpent'
    BY <2>1 DEF Elsewhere, DoneMeansSpent, IInv, TypeOK, PageStates
  <2>7. QED
    BY <2>3, <2>4, <2>5, <2>6 DEF IInv
<1>4. CASE QuoteArrives
  <2>1. PICK q \in Quotes :
          /\ UNCHANGED Elsewhere
          /\ page.quote.at = "fetch" /\ page.quote.denomination # Nothing
          /\ q.fee <= Cap[page.quote.denomination]
          /\ page' = [page EXCEPT !.quote = NoQuote, !.step = "confirm",
               !.breakdown = [pool |-> page.quote.denomination, fee |-> q.fee]]
    BY <1>4 DEF QuoteArrives, Acceptable, Set
  <2>2. /\ page.quote # NoQuote
        /\ page.quote.denomination \in Pools
        /\ q.fee \in Fees
    BY <2>1 DEF NoQuote, Quotes, OrNothing, IInv, TypeOK, PageStates
  <2>3. [pool |-> page.quote.denomination, fee |-> q.fee] \in Breakdowns
    BY <2>2 DEF Breakdowns
  <2>4. /\ page' \in PageStates
        /\ page'.breakdown.fee <= Cap[page'.breakdown.pool]
    BY <2>1, <2>3 DEF OrNothing, IInv, TypeOK, PageStates
  <2>5. TypeOK'
    BY <2>1, <2>4, ElsewhereKept DEF Elsewhere, IInv, TypeOK
  <2>6. page.step \in {"paste", "recipient"} /\ page.note # Nothing
    BY <2>2 DEF ScreensInOrder, IInv
  <2>7. ScreensInOrder'
    BY <2>1, <2>3, <2>6, WithdrawAssumption
    DEF ScreensInOrder, IInv, TypeOK, PageStates
  <2>8. RunIsShown'
    BY <2>1, <2>5, <2>6, ScreenChanges DEF Elsewhere, IInv, TypeOK, PageStates
  <2>9. DoneMeansSpent'
    BY <2>1 DEF DoneMeansSpent, IInv, TypeOK, PageStates
  <2>10. QED
    BY <2>5, <2>7, <2>8, <2>9 DEF IInv
<1>5. CASE QuoteFails
  <2>1. /\ UNCHANGED Elsewhere
        /\ page.quote.at = "fetch"
        /\ page' = [page EXCEPT !.quote = NoQuote]
    BY <1>5 DEF QuoteFails, Set
  <2>2. page' \in PageStates /\ page'.breakdown = page.breakdown
    BY <2>1 DEF IInv, TypeOK, PageStates
  <2>3. page.step \in {"paste", "recipient"}
    BY <2>1 DEF NoQuote, ScreensInOrder, IInv
  <2>4. TypeOK'
    BY <2>1, <2>2, ElsewhereKept DEF Elsewhere, IInv, TypeOK
  <2>5. ScreensInOrder'
    BY <2>1 DEF ScreensInOrder, IInv, TypeOK, PageStates
  <2>6. RunIsShown'
    BY <2>1, <2>3, <2>4, ScreenChanges DEF Elsewhere, IInv, TypeOK, PageStates
  <2>7. DoneMeansSpent'
    BY <2>1 DEF Elsewhere, DoneMeansSpent, IInv, TypeOK, PageStates
  <2>8. QED
    BY <2>4, <2>5, <2>6, <2>7 DEF IInv
<1>6. ASSUME NEW n \in Notes, PasteNote(n)
      PROVE  IInv'
  <2> DEFINE reading == Reading(page, n)
  <2>1. /\ page.step = "paste" /\ UNCHANGED Elsewhere
        /\ page' = [page EXCEPT !.note = n, !.step = "recipient",
                               !.reading = reading]
    BY <1>6 DEF PasteNote, Set
  <2>2. reading \in OrNothing(Pools)
    BY WithdrawAssumption DEF Reading, OrNothing, IInv, TypeOK, PageStates
  <2> HIDE DEF reading
  <2>3. page' \in PageStates /\ page'.breakdown = page.breakdown
    BY <2>1, <2>2 DEF OrNothing, IInv, TypeOK, PageStates
  <2>4. TypeOK'
    BY <2>1, <2>3, ElsewhereKept DEF Elsewhere, IInv, TypeOK
  <2>5. ScreensInOrder'
    BY <2>1, WithdrawAssumption
    DEF Elsewhere, ScreensInOrder, NoQuote, IInv, TypeOK, PageStates
  <2>6. RunIsShown'
    BY <2>1, <2>4, ScreenChanges DEF Elsewhere, IInv, TypeOK, PageStates
  <2>7. DoneMeansSpent'
    BY <2>1 DEF DoneMeansSpent, IInv, TypeOK, PageStates
  <2>8. QED
    BY <2>4, <2>5, <2>6, <2>7 DEF IInv
<1>7. QED
  BY <1>1, <1>2, <1>3, <1>4, <1>5, <1>6

\* A fresh page has no withdrawal of its own, and every other is an older one.
LEMMA LeaveStep ==
    ASSUME IInv, Leave
    PROVE  IInv'
<1>1. /\ page.mount < MaxMounts /\ page' = Mounted(page.mount + 1)
      /\ UNCHANGED Elsewhere
  BY DEF Leave, Set
<1>2. page.mount \in Mounts
  BY DEF IInv, TypeOK, PageStates
<1>3. page.mount \in Nat /\ page.mount + 1 \in Mounts
  BY <1>1, <1>2, WithdrawAssumption DEF Mounts
<1>4. page' \in PageStates /\ page'.breakdown = Nothing
  BY <1>1, <1>3 DEF Mounted, PageStates, OrNothing
<1>5. TypeOK'
  BY <1>1, <1>4, ElsewhereKept DEF Elsewhere, IInv, TypeOK
<1>6. ScreensInOrder' /\ DoneMeansSpent'
  BY <1>1 DEF ScreensInOrder, DoneMeansSpent, Mounted
<1>7. \A m \in Mounts : run[m] # Idle => m <= page.mount
  BY DEF IInv, RunIsShown
<1>8. \A m \in Mounts :
        m <= page.mount => m <= page.mount + 1 /\ m # page.mount + 1
  BY <1>3 DEF Mounts
<1>9. RunIsShown'
  BY <1>1, <1>7, <1>8 DEF RunIsShown, Mounted, Elsewhere
<1>10. QED
  BY <1>5, <1>6, <1>9 DEF IInv

-----------------------------------------------------------------------------
(* executeWithdraw.                                                        *)

\* The button is there only when no withdrawal of the page is under way.
LEMMA PressStep ==
    ASSUME IInv, Press
    PROVE  IInv'
<1> DEFINE r == [at |-> "gate", attempt |-> 0, note |-> page.note,
                 recipient |-> page.recipient, denomination |-> page.info,
                 shown |-> page.breakdown.fee]
<1>1. /\ page.step \in {"confirm", "progress"}
      /\ page.recipient # Nothing
      /\ run' = [run EXCEPT ![page.mount] = r]
      /\ page' = [page EXCEPT !.step = "progress", !.error = FALSE]
      /\ UNCHANGED <<Others, identified>>
  BY DEF Press, RecipientConfirmed, Set, PoolDenomination, AmountsShown
<1>2. /\ page.note \in Notes /\ page.recipient \in Recipients
      /\ page.info \in OrNothing(Pools)
  BY <1>1 DEF ScreensInOrder, OrNothing, IInv, TypeOK, PageStates
<1>3. page.breakdown \in Breakdowns
  BY <1>1 DEF ScreensInOrder, OrNothing, IInv, TypeOK, PageStates
<1>4. page.breakdown.fee \in Fees
  BY <1>3 DEF Breakdowns
<1>5. r \in RunStates
  BY <1>2, <1>4 DEF RunStates, Working
<1>6. r # Idle /\ r.note = page.note
  BY DEF Idle
<1> HIDE DEF r
<1>7. /\ page.mount \in Mounts
      /\ page' \in PageStates /\ page'.breakdown = page.breakdown
  BY <1>1 DEF IInv, TypeOK, PageStates
<1>8. TypeOK'
  BY <1>1, <1>5, <1>7 DEF Others, IInv, TypeOK
<1>9. ScreensInOrder'
  <2>1. page.quote = NoQuote
    BY <1>1 DEF IInv, ScreensInOrder
  <2>2. QED
    BY <1>1, <2>1 DEF ScreensInOrder, IInv, TypeOK, PageStates
<1>10. RunIsShown'
  <2>1. SUFFICES ASSUME NEW m \in Mounts, run'[m] # Idle
                 PROVE  /\ m <= page.mount
                        /\ m = page.mount =>
                             /\ page'.step = "progress" /\ ~page'.error
                             /\ page'.note = run'[m].note
    BY <1>1, <1>7 DEF RunIsShown, IInv, TypeOK, PageStates
  <2>2. CASE m = page.mount
    <3>1. run'[m] = r
      BY <1>1, <1>7, <2>2 DEF IInv, TypeOK
    <3>2. page'.step = "progress" /\ ~page'.error /\ page'.note = page.note
      BY <1>1 DEF IInv, TypeOK, PageStates
    <3>3. m <= page.mount
      BY <2>2, <1>7, WithdrawAssumption DEF Mounts
    <3>4. QED
      BY <3>1, <3>2, <3>3, <1>6
  <2>3. CASE m # page.mount
    BY <1>1, <2>1, <2>3 DEF RunIsShown, IInv, TypeOK
  <2>4. QED
    BY <2>2, <2>3
<1>11. DoneMeansSpent'
  BY <1>1 DEF DoneMeansSpent, IInv, TypeOK, PageStates
<1>12. QED
  BY <1>8, <1>9, <1>10, <1>11 DEF IInv

\* A withdrawal that goes on keeps its note, and nothing of the page changes.
LEMMA RunGoesOn ==
    ASSUME IInv, NEW m \in Mounts, NEW r \in RunStates, run[m] # Idle,
           run' = [run EXCEPT ![m] = r], r.note = run[m].note,
           UNCHANGED <<page, cluster, landed>>,
           identified' \in BOOLEAN, proofs' \subseteq Proofs
    PROVE  IInv'
<1>1. TypeOK'
  BY DEF IInv, TypeOK
<1>2. ScreensInOrder' /\ DoneMeansSpent'
  BY DEF IInv, ScreensInOrder, DoneMeansSpent
<1>3. RunIsShown'
  <2>1. SUFFICES ASSUME NEW k \in Mounts, run'[k] # Idle
                 PROVE  /\ k <= page.mount
                        /\ k = page.mount =>
                             /\ page.step = "progress" /\ ~page.error
                             /\ page.note = run'[k].note
    BY DEF RunIsShown
  <2>2. run[k] # Idle /\ run'[k].note = run[k].note
    BY <2>1 DEF IInv, TypeOK
  <2>3. QED
    BY <2>2 DEF IInv, RunIsShown
<1>4. QED
  BY <1>1, <1>2, <1>3 DEF IInv

\* A withdrawal that ends leaves a page that shows no other: it is about the
\* note on the page when the page is still its own.
LEMMA RunEnds ==
    ASSUME IInv, NEW m \in Mounts, run[m] # Idle,
           run' = [run EXCEPT ![m] = Idle], TypeOK', UNCHANGED landed,
           page'.mount = page.mount, page.mount # m => page' = page,
           page'.breakdown = page.breakdown, page'.quote = page.quote,
           page'.note = page.note,
           page'.step \in {page.step, "done"},
           DoneMeansSpent'
    PROVE  IInv'
<1>1. ScreensInOrder'
  <2>1. CASE page.mount = m
    <3>1. page.step = "progress" /\ page.note = run[m].note
      BY <2>1 DEF IInv, RunIsShown
    <3>2. page.note # Nothing /\ page.breakdown # Nothing /\ page.quote = NoQuote
      BY <3>1 DEF IInv, ScreensInOrder
    <3>3. QED
      BY <3>2 DEF ScreensInOrder
  <2>2. CASE page.mount # m
    BY <2>2 DEF IInv, ScreensInOrder
  <2>3. QED
    BY <2>1, <2>2
<1>2. RunIsShown'
  <2>1. SUFFICES ASSUME NEW k \in Mounts, run'[k] # Idle
                 PROVE  /\ k <= page'.mount
                        /\ k = page'.mount =>
                             /\ page'.step = "progress" /\ ~page'.error
                             /\ page'.note = run'[k].note
    BY DEF RunIsShown
  <2>2. k # m /\ run'[k] = run[k]
    BY <2>1 DEF IInv, TypeOK
  <2>3. QED
    BY <2>1, <2>2 DEF IInv, RunIsShown
<1>3. QED
  BY <1>1, <1>2 DEF IInv

LEMMA FailStep ==
    ASSUME IInv, NEW m \in Mounts, run[m] # Idle, Fail(m),
           UNCHANGED <<cluster, landed>>,
           identified' \in BOOLEAN, proofs' \subseteq Proofs
    PROVE  IInv'
<1>1. /\ run' = [run EXCEPT ![m] = Idle]
      /\ IF page.mount = m THEN page' = [page EXCEPT !.error = TRUE]
         ELSE page' = page
  BY DEF Fail, Show, Set
<1>2. page' \in PageStates /\ page'.breakdown = page.breakdown
  BY <1>1 DEF IInv, TypeOK, PageStates
<1>3. Idle \in RunStates
  BY DEF RunStates
<1>4. TypeOK'
  BY <1>1, <1>2, <1>3 DEF IInv, TypeOK
<1>5. /\ page'.mount = page.mount /\ page'.quote = page.quote
      /\ page'.note = page.note /\ page'.step = page.step
      /\ page'.sig = page.sig
  BY <1>1 DEF IInv, TypeOK, PageStates
<1>6. DoneMeansSpent'
  BY <1>5 DEF DoneMeansSpent, IInv
<1>7. QED
  BY <1>1, <1>2, <1>4, <1>5, <1>6, RunEnds

LEMMA RunGateStep ==
    ASSUME IInv, NEW m \in Mounts, RunGate(m)
    PROVE  IInv'
<1>1. PICK allowed \in BOOLEAN :
        /\ run[m].at = "gate"
        /\ UNCHANGED Others /\ identified' \in BOOLEAN
        /\ IF allowed
           THEN run' = [run EXCEPT ![m].at = "fetch"] /\ UNCHANGED page
           ELSE Fail(m)
  BY DEF RunGate, Verify, IInv, TypeOK
<1>2. run[m] \in Working /\ run[m] # Idle
  BY <1>1 DEF RunStates, Checking, Stalled, Idle, IInv, TypeOK
<1>3. CASE allowed
  <2> DEFINE r == [run[m] EXCEPT !.at = "fetch"]
  <2>1. r \in Working /\ r.note = run[m].note
    BY <1>1, <1>2 DEF Working
  <2>2. r \in RunStates
    BY <2>1 DEF RunStates
  <2>3. run' = [run EXCEPT ![m] = r]
    BY <1>1, <1>3 DEF IInv, TypeOK
  <2> HIDE DEF r
  <2>4. QED
    BY <1>1, <1>2, <1>3, <2>1, <2>2, <2>3, RunGoesOn DEF Others, IInv, TypeOK
<1>4. CASE ~allowed
  BY <1>1, <1>2, <1>4, FailStep DEF Others, IInv, TypeOK
<1>5. QED
  BY <1>3, <1>4

LEMMA SubmitStep ==
    ASSUME IInv, NEW m \in Mounts, Submit(m)
    PROVE  IInv'
<1> DEFINE r == [run[m] EXCEPT !.at = "reply"]
<1>1. /\ run[m].at = "fetch" /\ run' = [run EXCEPT ![m].at = "reply"]
      /\ UNCHANGED <<page, cluster, landed, identified>>
  BY DEF Submit
<1>2. run[m] \in Working /\ run[m] # Idle
  BY <1>1 DEF RunStates, Checking, Stalled, Idle, IInv, TypeOK
<1>3. PICK q \in Quotes :
        proofs' = proofs \cup
          {[note |-> run[m].note, recipient |-> run[m].recipient,
            fee |-> q.fee, shown |-> run[m].shown]}
  BY DEF Submit
<1>4. proofs' \subseteq Proofs
  BY <1>2, <1>3 DEF Working, Proofs, Quotes, IInv, TypeOK
<1>5. r \in Working /\ r.note = run[m].note
  BY <1>2 DEF Working
<1>6. r \in RunStates
  BY <1>5 DEF RunStates
<1>7. run' = [run EXCEPT ![m] = r]
  BY <1>1 DEF IInv, TypeOK
<1> HIDE DEF r
<1>8. QED
  BY <1>1, <1>2, <1>4, <1>5, <1>6, <1>7, RunGoesOn DEF IInv, TypeOK

\* Whatever the relayer answers.
LEMMA ReplyStep ==
    ASSUME IInv, NEW m \in Mounts, Reply(m)
    PROVE  IInv'
<1>1. UNCHANGED <<Others, identified>>
  BY DEF Reply
<1>2. ASSUME run[m].at \in {"fetch", "reply"}
      PROVE  run[m] \in Working /\ run[m] # Idle
  BY <1>2 DEF RunStates, Checking, Stalled, Idle, IInv, TypeOK
<1>3. ASSUME run[m] # Idle, Fail(m)
      PROVE  IInv'
  BY <1>1, <1>3, FailStep DEF Others, IInv, TypeOK
<1>4. ASSUME NEW r \in RunStates, run[m].at \in {"fetch", "reply"},
             r.note = run[m].note, run' = [run EXCEPT ![m] = r], UNCHANGED page
      PROVE  IInv'
  BY <1>1, <1>2, <1>4, RunGoesOn DEF Others, IInv, TypeOK
<1>5. CASE Answered(m)
  <2>1. PICK sig \in Signatures :
          /\ run[m].at = "reply" /\ UNCHANGED page
          /\ run' = [run EXCEPT ![m] = [at |-> "check", sig |-> sig,
                                       note |-> run[m].note]]
    BY <1>5 DEF Answered
  <2> DEFINE r == [at |-> "check", sig |-> sig, note |-> run[m].note]
  <2>2. sig \in SUBSET Notes
    BY <2>1 DEF Signatures, Proofs, IInv, TypeOK
  <2>3. run[m].note \in Notes
    BY <2>1, <1>2 DEF Working
  <2>4. r \in RunStates /\ r.note = run[m].note
    BY <2>2, <2>3 DEF RunStates, Checking
  <2> HIDE DEF r
  <2>5. QED
    BY <1>4, <2>1, <2>4 DEF r
<1>6. CASE StaleRoot(m)
  <2>1. run[m].at \in {"fetch", "reply"} /\ run[m] \in Working /\ run[m] # Idle
    BY <1>2, <1>6 DEF StaleRoot
  <2> DEFINE r == [run[m] EXCEPT !.at = "gate", !.attempt = run[m].attempt + 1]
  <2>2. CASE Fail(m)
    BY <1>3, <2>1, <2>2
  <2>3. CASE run' = [run EXCEPT ![m] = r] /\ UNCHANGED page
    <3>1. r \in Working /\ r.note = run[m].note
      <4> DEFINE w == [run[m] EXCEPT !.at = "gate"]
      <4>1. w \in Working /\ w.note = run[m].note
        BY <2>1 DEF Working
      <4>2. run[m].attempt + 1 \in Nat
        BY <2>1 DEF Working
      <4>3. r = [w EXCEPT !.attempt = run[m].attempt + 1]
        OBVIOUS
      <4> HIDE DEF w, r
      <4>4. QED
        BY <4>1, <4>2, <4>3 DEF Working
    <3>2. r \in RunStates
      BY <3>1 DEF RunStates
    <3> HIDE DEF r
    <3>3. QED
      BY <1>4, <2>1, <2>3, <3>1, <3>2
  <2>4. QED
    BY <1>6, <2>2, <2>3 DEF StaleRoot, IInv, TypeOK
<1>7. CASE GoesWrong(m)
  BY <1>2, <1>3, <1>7 DEF GoesWrong
<1>8. CASE BodyStalls(m)
  <2> DEFINE r == [at |-> "stalled", note |-> run[m].note]
  <2>1. /\ run[m].at \in {"fetch", "reply"} /\ UNCHANGED page
        /\ run' = [run EXCEPT ![m] = r]
    BY <1>8 DEF BodyStalls
  <2>2. run[m].note \in Notes
    BY <2>1, <1>2 DEF Working
  <2>3. r \in RunStates /\ r.note = run[m].note
    BY <2>2 DEF RunStates, Stalled
  <2> HIDE DEF r
  <2>4. QED
    BY <1>4, <2>1, <2>3
<1>9. CASE ConfirmOnChain(m)
  <2>1. run[m].at = "check" /\ run[m] # Idle
    BY <1>9 DEF ConfirmOnChain, Idle
  <2>2. run[m] \in Checking
    BY <2>1 DEF RunStates, Working, Stalled, Idle, IInv, TypeOK
  <2>3. CASE Fail(m)
    BY <1>3, <2>1, <2>3
  <2>4. CASE /\ run[m].note \in run[m].sig
             /\ RecordedAsSpent(run[m].note)
             /\ Show(m, [page EXCEPT !.step = "done", !.sig = run[m].sig])
             /\ run' = [run EXCEPT ![m] = Idle]
    <3>1. IF page.mount = m
          THEN page' = [page EXCEPT !.step = "done", !.sig = run[m].sig]
          ELSE page' = page
      BY <2>4 DEF Show, Set
    <3>2. page' \in PageStates /\ page'.breakdown = page.breakdown
      <4>1. run[m].sig \in OrNothing(SUBSET Notes)
        BY <2>2 DEF Checking, OrNothing
      <4>2. page \in PageStates
        BY DEF IInv, TypeOK
      <4>3. CASE page' = [page EXCEPT !.step = "done", !.sig = run[m].sig]
        BY <4>1, <4>2, <4>3 DEF PageStates
      <4>4. CASE page' = page
        BY <4>2, <4>4
      <4>5. QED
        BY <3>1, <4>3, <4>4
    <3>3. /\ page'.mount = page.mount /\ page'.quote = page.quote
          /\ page'.note = page.note /\ page'.step \in {page.step, "done"}
      BY <3>1 DEF IInv, TypeOK, PageStates
    <3>4. Idle \in RunStates
      BY DEF RunStates
    <3>5. TypeOK'
      BY <1>1, <2>4, <3>2, <3>4 DEF Others, IInv, TypeOK
    <3>6. page.mount = m => page.note = run[m].note
      BY <2>1 DEF RunIsShown, IInv
    <3>7. DoneMeansSpent'
      <4>1. CASE page.mount = m
        BY <1>1, <2>4, <3>1, <3>6, <4>1
        DEF RecordedAsSpent, DoneMeansSpent, Others, IInv, TypeOK, PageStates
      <4>2. CASE page.mount # m
        BY <1>1, <3>1, <4>2 DEF DoneMeansSpent, Others, IInv
      <4>3. QED
        BY <4>1, <4>2
    <3>8. QED
      BY <1>1, <2>1, <2>4, <3>1, <3>2, <3>3, <3>5, <3>7, RunEnds DEF Others
  <2>5. QED
    BY <1>9, <2>3, <2>4 DEF ConfirmOnChain
<1>10. QED
  BY <1>5, <1>6, <1>7, <1>8, <1>9 DEF Reply

-----------------------------------------------------------------------------
(* The theorems.                                                           *)

\* A note is spent once, so what the page has said of it stays true.
LEMMA LandStep ==
    ASSUME IInv, NEW p \in proofs, Land(p)
    PROVE  IInv'
<1>1. /\ landed[p.note] = Nothing
      /\ landed' = [landed EXCEPT ![p.note] = p]
      /\ UNCHANGED <<page, run, cluster, identified, proofs>>
  BY DEF Land
<1>2. p \in Proofs /\ p.note \in Notes
  BY DEF IInv, TypeOK, Proofs
<1>3. TypeOK'
  BY <1>1, <1>2 DEF IInv, TypeOK, OrNothing
<1>4. ScreensInOrder'
  BY <1>1 DEF IInv, ScreensInOrder
<1>5. RunIsShown'
  BY <1>1 DEF IInv, RunIsShown
<1>6. DoneMeansSpent'
  <2>1. page.step = "done" => page.note \in Notes
    BY DEF IInv, TypeOK, PageStates, ScreensInOrder, OrNothing
  <2>2. QED
    BY <1>1, <2>1 DEF IInv, TypeOK, DoneMeansSpent
<1>7. QED
  BY <1>3, <1>4, <1>5, <1>6 DEF IInv

LEMMA InitIInv == Init => IInv
<1>1. SUFFICES ASSUME Init PROVE IInv
  OBVIOUS
<1>2. 1 \in Mounts
  BY WithdrawAssumption DEF Mounts
<1>3. page \in PageStates /\ page.breakdown = Nothing
  BY <1>1, <1>2 DEF Init, Mounted, PageStates, OrNothing
<1>4. TypeOK
  BY <1>1, <1>3 DEF Init, TypeOK, RunStates, OrNothing
<1>5. ScreensInOrder /\ DoneMeansSpent
  BY <1>1 DEF Init, Mounted, ScreensInOrder, DoneMeansSpent
<1>6. RunIsShown
  BY <1>1 DEF Init, RunIsShown
<1>7. QED
  BY <1>4, <1>5, <1>6 DEF IInv

LEMMA NextIInv == IInv /\ [Next]_vars => IInv'
<1>1. SUFFICES ASSUME IInv, [Next]_vars PROVE IInv'
  OBVIOUS
<1>2. CASE User
  BY <1>1, <1>2, FieldSteps, ScreenSteps, LeaveStep, PressStep DEF User
<1>3. CASE Effects
  BY <1>1, <1>3, FieldSteps, ScreenSteps DEF Effects
<1>4. ASSUME NEW m \in Mounts, Execute(m) PROVE IInv'
  BY <1>1, <1>4, RunGateStep, SubmitStep, ReplyStep DEF Execute
<1>5. ASSUME NEW p \in proofs, Land(p) PROVE IInv'
  BY <1>1, <1>5, LandStep
<1>6. CASE UNCHANGED vars
  BY <1>1, <1>6
  DEF vars, IInv, TypeOK, ScreensInOrder, RunIsShown,
      DoneMeansSpent
<1>7. QED
  BY <1>1, <1>2, <1>3, <1>4, <1>5, <1>6 DEF Next

\* Every state of the page, of its handlers, of the relayer's proofs and of the
\* chain is as TypeOK says, and no amounts above their pool's cap are shown.
THEOREM TypeCorrect == Spec => []TypeOK
<1>1. IInv => TypeOK
  BY DEF IInv
<1>2. QED
  BY <1>1, InitIInv, NextIInv, PTL DEF Spec

\* The relayer gets no proof with a fee above the ceiling on the screen when
\* the user agreed, in any attempt of any handler, though each asks for a quote
\* of its own (the validateFeeQuote of executeWithdraw).
THEOREM FeeIsAgreed == Spec => []FeeWithinTheCeilingShown
<1>1. Init => FeeWithinTheCeilingShown
  BY DEF Init, FeeWithinTheCeilingShown
<1>2. FeeWithinTheCeilingShown /\ [Next]_vars => FeeWithinTheCeilingShown'
  <2>1. SUFFICES ASSUME FeeWithinTheCeilingShown, [Next]_vars
                 PROVE  FeeWithinTheCeilingShown'
    OBVIOUS
  <2>2. ASSUME UNCHANGED proofs
        PROVE  FeeWithinTheCeilingShown'
    BY <2>1, <2>2 DEF FeeWithinTheCeilingShown
  <2>3. CASE User \/ Effects \/ UNCHANGED vars
    BY <2>2, <2>3
    DEF User, Effects, PasteNote, EditRecipient, TypeTail, Back, NewWithdrawal,
        AskQuote, Press, Leave, GateShown, PoolRead, QuoteArrives, QuoteFails,
        Elsewhere, Others, vars
  <2>4. ASSUME NEW m \in Mounts, RunGate(m) \/ Reply(m)
        PROVE  FeeWithinTheCeilingShown'
    BY <2>2, <2>4 DEF RunGate, Reply, Others
  <2>5. ASSUME NEW m \in Mounts, Submit(m)
        PROVE  FeeWithinTheCeilingShown'
    <3>1. PICK q \in Quotes :
            /\ q.fee <= run[m].shown
            /\ proofs' = proofs \cup
                 {[note |-> run[m].note, recipient |-> run[m].recipient,
                   fee |-> q.fee, shown |-> run[m].shown]}
      BY <2>5 DEF Submit, Acceptable
    <3>2. QED
      BY <2>1, <3>1 DEF FeeWithinTheCeilingShown
  <2>6. ASSUME NEW p \in proofs, Land(p)
        PROVE  FeeWithinTheCeilingShown'
    BY <2>2, <2>6 DEF Land
  <2>7. QED
    BY <2>1, <2>3, <2>4, <2>5, <2>6 DEF Next, Execute
<1>3. QED
  BY <1>1, <1>2, PTL DEF Spec

\* A note is spent by a proof of it that the relayer was handed, as what the
\* program executes is what a page had made.
SpentByProofs ==
    \A n \in Notes : landed[n] # Nothing => landed[n] \in proofs /\ landed[n].note = n

LEMMA SpentByProofsKept ==
    TypeOK /\ SpentByProofs /\ [Next]_vars => SpentByProofs'
<1>1. SUFFICES ASSUME TypeOK, SpentByProofs, [Next]_vars
               PROVE  SpentByProofs'
  OBVIOUS
<1>2. ASSUME UNCHANGED landed, proofs \subseteq proofs'
      PROVE  SpentByProofs'
  BY <1>1, <1>2 DEF SpentByProofs
<1>3. CASE User \/ Effects \/ UNCHANGED vars
  BY <1>2, <1>3
  DEF User, Effects, PasteNote, EditRecipient, TypeTail, Back, NewWithdrawal,
      AskQuote, Press, Leave, GateShown, PoolRead, QuoteArrives, QuoteFails,
      Elsewhere, Others, vars
<1>4. ASSUME NEW m \in Mounts, Execute(m)
      PROVE  SpentByProofs'
  <2>1. CASE RunGate(m) \/ Reply(m)
    BY <1>2, <2>1 DEF RunGate, Reply, Others
  <2>2. CASE Submit(m)
    BY <1>2, <2>2 DEF Submit
  <2>3. QED
    BY <1>4, <2>1, <2>2 DEF Execute
<1>5. ASSUME NEW p \in proofs, Land(p)
      PROVE  SpentByProofs'
  BY <1>1, <1>5 DEF Land, SpentByProofs, TypeOK
<1>6. QED
  BY <1>1, <1>3, <1>4, <1>5 DEF Next

\* "Withdrawal complete" is said only of a note that is spent, by a proof the
\* user had made of it at a fee they had on screen, with a transaction on its
\* nullifier account, whatever an untrusted relayer answers and submits
\* (confirmWithdrawalOnChain), and however often the page is left and reopened.
THEOREM WithdrawalIsBelieved == Spec => []DoneMeansWithdrawn
<1>1. IInv /\ SpentByProofs /\ FeeWithinTheCeilingShown => DoneMeansWithdrawn
  <2>1. SUFFICES ASSUME IInv, SpentByProofs, FeeWithinTheCeilingShown,
                        page.step = "done"
                 PROVE  /\ page.note \in page.sig
                        /\ \E p \in proofs :
                             landed[page.note] = p /\ p.note = page.note
                                                  /\ p.fee <= p.shown
    BY DEF DoneMeansWithdrawn
  <2>2. page.note \in page.sig /\ landed[page.note] # Nothing
    BY <2>1 DEF IInv, DoneMeansSpent
  <2>3. page.note \in Notes
    BY <2>1 DEF IInv, TypeOK, PageStates, ScreensInOrder, OrNothing
  <2>4. landed[page.note] \in proofs /\ landed[page.note].note = page.note
    BY <2>1, <2>2, <2>3 DEF SpentByProofs
  <2>5. QED
    BY <2>1, <2>2, <2>4 DEF FeeWithinTheCeilingShown
<1>2. Init => SpentByProofs
  BY DEF Init, SpentByProofs
<1>3. IInv => TypeOK
  BY DEF IInv
<1>4. Spec => [](IInv /\ SpentByProofs)
  BY <1>2, <1>3, InitIInv, NextIInv, SpentByProofsKept, PTL DEF Spec
<1>5. QED
  BY <1>1, <1>4, FeeIsAgreed, PTL

\* A refusal, a failure to identify the cluster and a stale verdict of the page
\* all stop a handler before it asks the relayer for anything (verifyCluster,
\* assertClusterAllowed).
THEOREM GatesHold == Spec => []NothingOffCluster
<1>1. Init => NothingOffCluster
  BY DEF Init, NothingOffCluster, Mounted, NoQuote, Idle
<1>2. TypeOK /\ NothingOffCluster /\ [Next]_vars => NothingOffCluster'
  <2>1. SUFFICES ASSUME TypeOK, NothingOffCluster, [Next]_vars
                 PROVE  NothingOffCluster'
    OBVIOUS
  <2>2. cluster' = cluster
    BY <2>1
    DEF Next, vars, User, Effects, Execute, PasteNote, EditRecipient, TypeTail,
        Back, NewWithdrawal, AskQuote, Press, Leave, GateShown, PoolRead,
        QuoteArrives, QuoteFails, RunGate, Submit, Reply, Land, Elsewhere, Others
  <2>3. SUFFICES ASSUME ~cluster
                 PROVE  NothingOffCluster'
    BY <2>2 DEF NothingOffCluster
  <2>4. ASSUME UNCHANGED run, page'.quote \in {page.quote, NoQuote}
        PROVE  NothingOffCluster'
    BY <2>1, <2>3, <2>4 DEF NothingOffCluster, NoQuote
  <2>5. ASSUME NEW m \in Mounts, run'[m].at \in {"idle", "gate"},
               \A k \in Mounts \ {m} : run'[k] = run[k],
               page'.quote = page.quote
        PROVE  NothingOffCluster'
    BY <2>1, <2>3, <2>5 DEF NothingOffCluster
  <2>6. ASSUME NEW m \in Mounts, Fail(m)
        PROVE  NothingOffCluster'
    <3>1. run' = [run EXCEPT ![m] = Idle] /\ page'.quote = page.quote
      BY <2>1, <2>6 DEF Fail, Show, Set, TypeOK, PageStates
    <3>2. /\ run'[m].at \in {"idle", "gate"}
          /\ \A k \in Mounts \ {m} : run'[k] = run[k]
      BY <2>1, <3>1 DEF Idle, TypeOK
    <3>3. QED
      BY <2>5, <3>1, <3>2
  <2>7. CASE User
    <3>1. CASE AskQuote
      BY <2>3, <3>1 DEF AskQuote, Verify
    <3>2. CASE Press
      <4>1. page.mount \in Mounts
        BY <2>1 DEF TypeOK, PageStates
      <4>2. /\ run'[page.mount].at \in {"idle", "gate"}
            /\ \A k \in Mounts \ {page.mount} : run'[k] = run[k]
        BY <2>1, <3>2, <4>1 DEF Press, TypeOK
      <4>3. page'.quote = page.quote
        BY <2>1, <3>2 DEF Press, Set, TypeOK, PageStates
      <4>4. QED
        BY <2>5, <4>1, <4>2, <4>3
    <3>3. CASE Leave
      BY <2>4, <3>3 DEF Leave, Set, Mounted, Elsewhere
    <3>4. CASE TypeTail \/ Back \/ NewWithdrawal
      BY <2>1, <2>4, <3>4
      DEF TypeTail, Back, NewWithdrawal, Set, Elsewhere, TypeOK, PageStates
    <3>5. ASSUME NEW n \in Notes, PasteNote(n)
          PROVE  NothingOffCluster'
      BY <2>1, <2>4, <3>5 DEF PasteNote, Set, Elsewhere, TypeOK, PageStates
    <3>6. ASSUME NEW r \in Recipients, EditRecipient(r)
          PROVE  NothingOffCluster'
      BY <2>1, <2>4, <3>6 DEF EditRecipient, Set, Elsewhere, TypeOK, PageStates
    <3>7. QED
      BY <2>7, <3>1, <3>2, <3>3, <3>4, <3>5, <3>6 DEF User
  <2>8. CASE Effects
    <3>1. CASE GateShown
      BY <2>1, <2>4, <3>1 DEF GateShown, Set, TypeOK, PageStates
    <3>2. CASE PoolRead
      <4>1. UNCHANGED run /\ page'.quote = page.quote
        BY <2>1, <3>2 DEF PoolRead, Set, Elsewhere, TypeOK, PageStates
      <4>2. QED
        BY <2>4, <4>1
    <3>3. CASE QuoteArrives \/ QuoteFails
      <4>1. page.quote.at = "fetch"
        BY <3>3 DEF QuoteArrives, QuoteFails
      <4>2. QED
        BY <2>1, <2>3, <4>1 DEF NothingOffCluster
    <3>4. QED
      BY <2>8, <3>1, <3>2, <3>3 DEF Effects
  <2>9. ASSUME NEW m \in Mounts, Execute(m)
        PROVE  NothingOffCluster'
    <3>1. CASE RunGate(m)
      BY <2>3, <2>6, <3>1 DEF RunGate, Verify
    <3>2. run[m].at \in {"idle", "gate"}
      BY <2>1, <2>3 DEF NothingOffCluster
    <3>3. ~Submit(m) /\ ~Reply(m)
      BY <3>2
      DEF Submit, Reply, Answered, StaleRoot, GoesWrong, BodyStalls,
          ConfirmOnChain
    <3>4. QED
      BY <2>9, <3>1, <3>3 DEF Execute
  <2>10. ASSUME NEW p \in proofs, Land(p)
         PROVE  NothingOffCluster'
    BY <2>4, <2>10 DEF Land
  <2>11. CASE UNCHANGED vars
    BY <2>4, <2>11 DEF vars
  <2>12. QED
    BY <2>1, <2>7, <2>8, <2>9, <2>10, <2>11 DEF Next
<1>3. QED
  BY <1>1, <1>2, TypeCorrect, PTL DEF Spec

-----------------------------------------------------------------------------
(* Withdrawals end.                                                        *)

\* No withdrawal is at a later attempt than the last.
AttemptsBounded ==
    \A m \in Mounts :
        run[m].at \in {"gate", "fetch", "reply"} =>
            run[m].attempt \in 0 .. MaxStaleRootRetries

\* How many steps a withdrawal can still take: three for each attempt, and the
\* look at the chain; none while the body of an answer is stalled.
StepsLeft(r) ==
    CASE r.at = "gate"  -> 4 + 3 * (MaxStaleRootRetries - r.attempt)
      [] r.at = "fetch" -> 3 + 3 * (MaxStaleRootRetries - r.attempt)
      [] r.at = "reply" -> 2 + 3 * (MaxStaleRootRetries - r.attempt)
      [] r.at = "check" -> 1
      [] OTHER -> 0

\* What a step of a withdrawal makes of it.
Onwards(from, to) ==
    \/ to = Idle
    \/ from.at = "gate" /\ to.at = "fetch" /\ to.attempt = from.attempt
    \/ from.at = "fetch" /\ to.at = "reply" /\ to.attempt = from.attempt
    \/ from.at = "reply" /\ to.at = "check"
    \/ from.at \in {"fetch", "reply"} /\ to.at = "stalled"
    \/ /\ from.at \in {"fetch", "reply"} /\ to.at = "gate"
       /\ from.attempt < MaxStaleRootRetries /\ to.attempt = from.attempt + 1

LEMMA ExecuteMoves ==
    ASSUME TypeOK, NEW m \in Mounts, Execute(m)
    PROVE  /\ run[m].at \in {"gate", "fetch", "reply", "check"}
           /\ Onwards(run[m], run'[m])
           /\ \A k \in Mounts \ {m} : run'[k] = run[k]
<1> DEFINE To(r) == run'[m] = r /\ \A k \in Mounts \ {m} : run'[k] = run[k]
<1>1. ASSUME NEW r, run' = [run EXCEPT ![m] = r]
      PROVE  To(r)
  BY <1>1 DEF TypeOK
<1>2. Fail(m) => To(Idle)
  BY <1>1 DEF Fail
<1>3. CASE RunGate(m)
  <2>1. run[m] \in Working
    BY <1>3 DEF RunGate, RunStates, Checking, Stalled, Idle, TypeOK
  <2>2. \/ run' = [run EXCEPT ![m] = [run[m] EXCEPT !.at = "fetch"]]
        \/ Fail(m)
    BY <1>3 DEF RunGate
  <2>3. /\ [run[m] EXCEPT !.at = "fetch"].at = "fetch"
        /\ [run[m] EXCEPT !.at = "fetch"].attempt = run[m].attempt
    BY <2>1 DEF Working
  <2>4. To([run[m] EXCEPT !.at = "fetch"]) \/ To(Idle)
    BY <2>2, <1>1, <1>2
  <2>5. QED
    BY <1>3, <2>3, <2>4 DEF RunGate, Onwards
<1>4. CASE Submit(m)
  <2>1. run[m].at = "fetch" /\ run' = [run EXCEPT ![m].at = "reply"]
    BY <1>4 DEF Submit
  <2>2. run[m] \in Working
    BY <2>1 DEF RunStates, Checking, Stalled, Idle, TypeOK
  <2>3. To([run[m] EXCEPT !.at = "reply"])
    BY <2>1, <1>1
  <2>4. QED
    BY <2>1, <2>2, <2>3 DEF Onwards, Working
<1>5. CASE Answered(m)
  <2>1. PICK sig : run' = [run EXCEPT ![m] =
                     [at |-> "check", sig |-> sig, note |-> run[m].note]]
    BY <1>5 DEF Answered
  <2>2. To([at |-> "check", sig |-> sig, note |-> run[m].note])
    BY <2>1, <1>1
  <2>3. QED
    BY <1>5, <2>2 DEF Answered, Onwards
<1>6. CASE StaleRoot(m)
  <2>1. run[m] \in Working
    BY <1>6 DEF StaleRoot, RunStates, Checking, Stalled, Idle, TypeOK
  <2>2. CASE run[m].attempt < MaxStaleRootRetries
    <3> DEFINE r == [run[m] EXCEPT !.at = "gate", !.attempt = run[m].attempt + 1]
    <3>1. run' = [run EXCEPT ![m] = r]
      BY <1>6, <2>2 DEF StaleRoot, TypeOK
    <3>2. r.at = "gate" /\ r.attempt = run[m].attempt + 1
      BY <2>1 DEF Working
    <3> HIDE DEF r
    <3>3. To(r)
      BY <3>1, <1>1
    <3>4. QED
      BY <1>6, <2>2, <3>2, <3>3 DEF StaleRoot, Onwards
  <2>3. CASE ~(run[m].attempt < MaxStaleRootRetries)
    BY <1>2, <1>6, <2>3 DEF StaleRoot, Onwards
  <2>4. QED
    BY <2>2, <2>3
<1>7. CASE GoesWrong(m)
  BY <1>2, <1>7 DEF GoesWrong, Onwards
<1>8. CASE BodyStalls(m)
  <2>1. To([at |-> "stalled", note |-> run[m].note])
    BY <1>1, <1>8 DEF BodyStalls
  <2>2. QED
    BY <1>8, <2>1 DEF BodyStalls, Onwards
<1>9. CASE ConfirmOnChain(m)
  <2>1. To(Idle)
    BY <1>1, <1>2, <1>9 DEF ConfirmOnChain
  <2>2. QED
    BY <1>9, <2>1 DEF ConfirmOnChain, Onwards
<1>10. QED
  BY <1>3, <1>4, <1>5, <1>6, <1>7, <1>8, <1>9 DEF Execute, Reply

\* Steps that are none of a withdrawal's.
LEMMA NoExecution ==
    ASSUME TypeOK, [Next]_vars, \A m \in Mounts : ~Execute(m)
    PROVE  \/ UNCHANGED run
           \/ /\ Press /\ run'[page.mount].at = "gate"
              /\ run'[page.mount].attempt = 0
              /\ \A k \in Mounts \ {page.mount} : run'[k] = run[k]
<1>1. CASE Press
  <2> DEFINE r == [at |-> "gate", attempt |-> 0, note |-> page.note,
                   recipient |-> page.recipient,
                   denomination |-> PoolDenomination, shown |-> AmountsShown.fee]
  <2>1. run' = [run EXCEPT ![page.mount] = r] /\ page.mount \in Mounts
    BY <1>1 DEF Press, TypeOK, PageStates
  <2>2. r.at = "gate" /\ r.attempt = 0
    OBVIOUS
  <2> HIDE DEF r
  <2>3. run'[page.mount] = r /\ \A k \in Mounts \ {page.mount} : run'[k] = run[k]
    BY <2>1 DEF TypeOK
  <2>4. QED
    BY <1>1, <2>2, <2>3
<1>2. CASE ~Press
  BY <1>2
  DEF Next, vars, User, Effects, PasteNote, EditRecipient, TypeTail, Back,
      NewWithdrawal, AskQuote, Leave, GateShown, PoolRead, QuoteArrives,
      QuoteFails, Land, Elsewhere
<1>3. QED
  BY <1>1, <1>2

LEMMA AttemptsStayBounded ==
    TypeOK /\ AttemptsBounded /\ [Next]_vars => AttemptsBounded'
<1>1. SUFFICES ASSUME TypeOK, AttemptsBounded, [Next]_vars
               PROVE  AttemptsBounded'
  OBVIOUS
<1>2. MaxStaleRootRetries \in Nat
  BY WithdrawAssumption
<1>3. ASSUME NEW m \in Mounts, Execute(m)
      PROVE  AttemptsBounded'
  <2>1. /\ Onwards(run[m], run'[m])
        /\ run[m].at \in {"gate", "fetch", "reply", "check"}
        /\ \A k \in Mounts \ {m} : run'[k] = run[k]
    BY <1>1, <1>3, ExecuteMoves
  <2>2. run'[m].at \in {"gate", "fetch", "reply"} =>
          run'[m].attempt \in 0 .. MaxStaleRootRetries
    BY <1>1, <1>2, <2>1 DEF AttemptsBounded, Onwards, Idle
  <2>3. QED
    BY <1>1, <2>1, <2>2 DEF AttemptsBounded
<1>4. CASE \A m \in Mounts : ~Execute(m)
  BY <1>1, <1>2, <1>4, NoExecution DEF AttemptsBounded
<1>5. QED
  BY <1>3, <1>4

\* A withdrawal takes at most three steps for each of its attempts and one more,
\* whatever the relayer answers, however often a root goes stale and whether or
\* not its page is still shown: then it has ended, or waits for an answer the
\* relayer stalls.  Only the button begins one again (executeWithdraw and
\* MAX_STALE_ROOT_RETRIES).
WithdrawalIsBounded ==
    [][\A m \in Mounts :
         /\ Execute(m) => StepsLeft(run'[m]) < StepsLeft(run[m])
         /\ StepsLeft(run'[m]) > StepsLeft(run[m]) => Press /\ m = page.mount]_vars

THEOREM WithdrawalsAreShort == Spec => WithdrawalIsBounded
<1> DEFINE Shorter(m) ==
             /\ Execute(m) => StepsLeft(run'[m]) < StepsLeft(run[m])
             /\ StepsLeft(run'[m]) > StepsLeft(run[m]) => Press /\ m = page.mount
<1>1. Init => AttemptsBounded
  BY DEF Init, AttemptsBounded, Idle
<1>2. TypeOK /\ AttemptsBounded /\ Next => \A m \in Mounts : Shorter(m)
  <2>1. SUFFICES ASSUME TypeOK, AttemptsBounded, Next, NEW m \in Mounts
                 PROVE  Shorter(m)
    OBVIOUS
  <2>2. MaxStaleRootRetries \in Nat
    BY WithdrawAssumption
  <2>3. ASSUME NEW k \in Mounts
        PROVE  StepsLeft(run[k]) \in Nat /\ StepsLeft(run'[k]) \in Nat
    <3>1. AttemptsBounded'
      BY <2>1, AttemptsStayBounded
    <3>2. QED
      BY <2>1, <2>2, <3>1 DEF AttemptsBounded, StepsLeft
  <2>4. ASSUME NEW k \in Mounts, Execute(k)
        PROVE  /\ StepsLeft(run'[k]) < StepsLeft(run[k])
               /\ \A j \in Mounts \ {k} : run'[j] = run[j]
    <3>1. /\ Onwards(run[k], run'[k])
          /\ run[k].at \in {"gate", "fetch", "reply", "check"}
          /\ \A j \in Mounts \ {k} : run'[j] = run[j]
      BY <2>1, <2>4, ExecuteMoves
    <3>2. run[k].at # "check" => run[k].attempt \in 0 .. MaxStaleRootRetries
      BY <2>1, <3>1 DEF AttemptsBounded
    <3>3. CASE run'[k] = Idle
      BY <3>1, <3>2, <3>3, <2>2 DEF StepsLeft, Idle
    <3>4. CASE run'[k] # Idle
      BY <3>1, <3>2, <3>4, <2>2 DEF StepsLeft, Onwards
    <3>5. QED
      BY <3>1, <3>3, <3>4
  <2>5. CASE \E k \in Mounts : Execute(k)
    <3>1. PICK k \in Mounts : Execute(k)
      BY <2>5
    <3>2. CASE m = k
      BY <3>1, <3>2, <2>3, <2>4
    <3>3. CASE m # k
      <4>1. run'[m] = run[m]
        BY <3>1, <3>3, <2>4
      <4>2. ~Execute(m)
        BY <4>1, <2>3, <2>4
      <4>3. QED
        BY <4>1, <4>2, <2>3
    <3>4. QED
      BY <3>2, <3>3
  <2>6. CASE \A k \in Mounts : ~Execute(k)
    <3>1. ~Execute(m)
      BY <2>6
    <3>2. run'[m] = run[m] \/ (Press /\ m = page.mount)
      BY <2>1, <2>6, NoExecution
    <3>3. StepsLeft(run[m]) \in Nat /\ StepsLeft(run'[m]) \in Nat
      BY <2>3
    <3>4. QED
      BY <3>1, <3>2, <3>3
  <2>7. QED
    BY <2>5, <2>6
<1>3. Spec => [](TypeOK /\ AttemptsBounded)
  <2>1. IInv => TypeOK
    BY DEF IInv
  <2>2. QED
    BY <1>1, <2>1, AttemptsStayBounded, InitIInv, NextIInv, PTL DEF Spec
<1>4. QED
  BY <1>2, <1>3, PTL DEF Spec, WithdrawalIsBounded
=============================================================================
