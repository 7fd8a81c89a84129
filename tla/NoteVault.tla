------------------------------ MODULE NoteVault ------------------------------
(***************************************************************************)
(* A deposit as the application makes it, and the note that is the only    *)
(* key to it (app/src/pages/Deposit.tsx, utils/noteVault.ts,               *)
(* utils/noteReconcile.ts, components/NoteRecovery.tsx, NoteDisplay.tsx):  *)
(* the note is stored before the wallet is asked to send, its status       *)
(* follows what is learnt of the transaction, and it leaves the storage    *)
(* when the wallet refused or when the user says it is kept elsewhere.     *)
(*                                                                         *)
(* Tabs share localStorage.  Each of its operations is atomic, a function  *)
(* that makes several is not: another tab may run between any two of them, *)
(* and the page may be closed there.  Within one tab the operations of a   *)
(* function are not interleaved with other code of the tab.                *)
(***************************************************************************)
EXTENDS Naturals

CONSTANTS
    Tabs,
    Notes,          \* the notes generateNote may return, and the old ones
    OldNotes,       \* those an earlier build may have left in its array
    Grace,          \* GRACE_MS
    MaxTime,        \* bound: the clock
    MaxOpens        \* bound: page loads

VARIABLES
    store,  \* the per-note keys of localStorage
    array,  \* the notes of the earlier format, {} once it is removed
    tx,     \* what became of the deposit of each note
    tab,    \* the pages
    ack,    \* the notes the user said to have saved, or chose to discard
    now, opens

vars == <<store, array, tx, tab, ack, now, opens>>
world == <<tx, ack, now, opens>>

ASSUME VaultAssumption ==
    /\ OldNotes \subseteq Notes /\ Notes # {} /\ {"mount", "work"} \cap Notes = {}
    /\ Grace \in Nat /\ MaxTime \in Nat /\ MaxOpens \in Nat

Absent == [status |-> "absent"]
Never == MaxTime + 1

Stored(n) == store[n] # Absent

\* A deposit the wallet was asked for is refused for good or broadcast, and
\* then executed, with success or not, or dropped as its blockhash expires.
TxStates == {"none", "asked", "refused", "sent", "landed", "reverted", "expired"}

MayLand(n) == tx[n] \in {"asked", "sent", "landed"}

OldEntry == [status |-> "sent", sentAt |-> 0]

-----------------------------------------------------------------------------
(* The vault, one localStorage operation at a time.  op is the function a  *)
(* page is in, NoOp between two events; what awaits it is in pc and rec.   *)

NoOp == [at |-> "none"]

Call(fn, n, status) ==
    [at |-> "array", fn |-> fn, note |-> n, status |-> status,
     todo |-> {}, copy |-> Absent]

Op(t) == tab[t].op
SetOp(t, op) == tab' = [tab EXCEPT ![t].op = op]

\* migrateArrays, at the head of every read: take the array, write each of
\* its notes that has no key yet, remove the array.
ReadArray(t) ==
    /\ Op(t).at = "array"
    /\ SetOp(t, IF array = {} THEN [Op(t) EXCEPT !.at = "get"]
                ELSE [Op(t) EXCEPT !.at = "keys", !.todo = array])
    /\ UNCHANGED <<store, array, world>>

CheckKey(t) ==
    /\ Op(t).at = "keys"
    /\ \E n \in Op(t).todo :
         SetOp(t, IF Stored(n) THEN [Op(t) EXCEPT !.todo = @ \ {n}]
                  ELSE [Op(t) EXCEPT !.at = "put"])
    /\ UNCHANGED <<store, array, world>>

\* A write that throws leaves the array for the next read.
PutKey(t) ==
    /\ Op(t).at = "put"
    /\ \/ \E n \in Op(t).todo :
            /\ store' = [store EXCEPT ![n] = OldEntry]
            /\ SetOp(t, [Op(t) EXCEPT !.at = "keys", !.todo = @ \ {n}])
       \/ SetOp(t, [Op(t) EXCEPT !.at = "get"]) /\ UNCHANGED store
    /\ UNCHANGED <<array, world>>

RemoveArray(t) ==
    /\ Op(t).at = "keys" /\ Op(t).todo = {}
    /\ array' = {}
    /\ SetOp(t, [Op(t) EXCEPT !.at = "get"])
    /\ UNCHANGED <<store, world>>

\* Not confirmed already, and with a time of its broadcast.
Broadcasted(entry) == entry.status = "sent" /\ entry.sentAt # Never

\* pendingNotes, as the reconciliation takes it: it works through the snapshot
\* of the notes it may judge.
List(t) ==
    /\ Op(t).at = "get" /\ Op(t).fn = "list"
    /\ tab' = [tab EXCEPT ![t].op = NoOp,
                          ![t].rec.todo = {[note |-> n, sentAt |-> store[n].sentAt] :
                              n \in {m \in Notes : Broadcasted(store[m])}}]
    /\ UNCHANGED <<store, array, world>>

\* markNoteStatus: read the note, and write it back with the new status.
ReadOne(t) ==
    /\ Op(t).at = "get" /\ Op(t).fn = "mark"
    /\ SetOp(t, IF Stored(Op(t).note)
                THEN [Op(t) EXCEPT !.at = "set", !.copy = store[Op(t).note]]
                ELSE NoOp)
    /\ UNCHANGED <<store, array, world>>

\* Mutant: only the status is written.
MarkedWithoutTime(entry, status) == [status |-> status, sentAt |-> entry.sentAt]

\* Mutant: every mark starts the clock again.
StampAlways(entry, status) == [status |-> status, sentAt |-> now]

\* sentAt is the time of the first status other than unsent.
Marked(entry, status) ==
    [status |-> status,
     sentAt |-> IF entry.sentAt = Never THEN now ELSE entry.sentAt]

WriteOne(t) ==
    /\ Op(t).at = "set"
    /\ \/ store' = [store EXCEPT ![Op(t).note] = Marked(Op(t).copy, Op(t).status)]
       \/ UNCHANGED store
    /\ SetOp(t, NoOp)
    /\ UNCHANGED <<array, world>>

ClearNote(n) == store' = [store EXCEPT ![n] = Absent]

Vault(t) ==
    \/ ReadArray(t) \/ CheckKey(t) \/ PutKey(t) \/ RemoveArray(t)
    \/ List(t) \/ ReadOne(t) \/ WriteOne(t)

-----------------------------------------------------------------------------
(* The deposit page.                                                       *)

Closed == [open |-> FALSE, screen |-> "confirm", pc |-> "idle", unknown |-> FALSE,
           note |-> {}, op |-> NoOp,
           rec |-> [at |-> "mount", todo |-> {}]]

\* The page runs, and no function of the vault is on its stack.
Awake(t) == tab[t].open /\ Op(t) = NoOp

\* The note of the attempt, {} before there is one.
NoteOf(t) == CHOOSE n \in tab[t].note : TRUE

HandleDeposit(t) ==
    /\ Awake(t) /\ tab[t].screen = "confirm"
    /\ tab' = [tab EXCEPT ![t].screen = "processing", ![t].pc = "build",
                          ![t].unknown = FALSE]
    /\ UNCHANGED <<store, array, world>>

\* The cluster or the wallet is refused, the transaction cannot be built, or
\* stageNote finds the storage unavailable: nothing is stored or sent.
BuildFails(t) ==
    /\ Awake(t) /\ tab[t].pc = "build"
    /\ tab' = [tab EXCEPT ![t].screen = "confirm", ![t].pc = "idle"]
    /\ UNCHANGED <<store, array, world>>

\* The transaction is built, the note staged, and the wallet asked.
StageAndSend(t) ==
    /\ Awake(t) /\ tab[t].pc = "build"
    /\ \E n \in Notes :
         /\ tx[n] = "none"
         /\ store' = [store EXCEPT ![n] = [status |-> "unsent", sentAt |-> Never]]
         /\ tx' = [tx EXCEPT ![n] = "asked"]
         /\ tab' = [tab EXCEPT ![t].pc = "wallet", ![t].note = {n}]
    /\ UNCHANGED <<array, ack, now, opens>>

SendReturns(t) ==
    /\ Awake(t) /\ tab[t].pc = "wallet"
    /\ tx[NoteOf(t)] \notin {"asked", "refused"}
    /\ tab' = [tab EXCEPT ![t].pc = "confirm", ![t].op = Call("mark", NoteOf(t), "sent")]
    /\ UNCHANGED <<store, array, world>>

\* What sendTransaction may throw.  The first three come of a transaction that
\* is not broadcast and never will be; a node may claim anything in its own
\* error, and so the text "User rejected" or the code 4001 of a rejection.
Refusals == {"WalletSignTransactionError", "wallet 4001", "Simulation failed"}
SendErrors == Refusals \cup {"node 4001", "other"}

Thrown(n, err) ==
    IF err \in Refusals
    THEN tx[n] = "asked" /\ tx' = [tx EXCEPT ![n] = "refused"]
    ELSE UNCHANGED tx

\* Mutant: a rejection is told by its text or code, whoever it comes from (L-1).
IsRejectionByItsText(err) ==
    err \in {"WalletSignTransactionError", "wallet 4001", "node 4001"}

\* isWalletRejection: told from where the error came from.
IsWalletRejection(err) == err \in {"WalletSignTransactionError", "wallet 4001"}

\* provesNotBroadcast: the simulation before the broadcast failed.
ProvesNotBroadcast(err) == err = "Simulation failed"

\* No signed transaction exists, and the note goes.
WalletRejects(t) ==
    /\ Awake(t) /\ tab[t].pc = "wallet"
    /\ \E err \in SendErrors : IsWalletRejection(err) /\ Thrown(NoteOf(t), err)
    /\ ClearNote(NoteOf(t))
    /\ tab' = [tab EXCEPT ![t].screen = "confirm", ![t].pc = "idle"]
    /\ UNCHANGED <<array, ack, now, opens>>

PreflightFails(t) ==
    /\ Awake(t) /\ tab[t].pc = "wallet"
    /\ \E err \in SendErrors :
         ~IsWalletRejection(err) /\ ProvesNotBroadcast(err) /\ Thrown(NoteOf(t), err)
    /\ tab' = [tab EXCEPT ![t].screen = "confirm", ![t].pc = "idle"]
    /\ UNCHANGED <<store, array, ack, now, opens>>

\* Any other error says nothing of the transaction, which may be broadcast
\* before the error or after it.
SendIsAmbiguous(t) ==
    /\ Awake(t) /\ tab[t].pc = "wallet"
    /\ \E err \in SendErrors :
         ~IsWalletRejection(err) /\ ~ProvesNotBroadcast(err) /\ Thrown(NoteOf(t), err)
    /\ tab' = [tab EXCEPT ![t].pc = "show", ![t].unknown = TRUE,
                          ![t].op = Call("mark", NoteOf(t), "sent")]
    /\ UNCHANGED <<store, array, ack, now, opens>>

\* confirmTransaction resolves for a transaction that was executed.
Confirmed(t) ==
    /\ Awake(t) /\ tab[t].pc = "confirm"
    /\ tx[NoteOf(t)] \in {"landed", "reverted"}
    /\ tab' = [tab EXCEPT ![t].pc = "show",
                          ![t].op = Call("mark", NoteOf(t), "confirmed")]
    /\ UNCHANGED <<store, array, world>>

ConfirmationUnknown(t) ==
    /\ Awake(t) /\ tab[t].pc = "confirm"
    /\ tab' = [tab EXCEPT ![t].pc = "show", ![t].unknown = TRUE]
    /\ UNCHANGED <<store, array, world>>

ShowNote(t) ==
    /\ Awake(t) /\ tab[t].pc = "show"
    /\ tab' = [tab EXCEPT ![t].pc = "idle", ![t].screen = "note"]
    /\ UNCHANGED <<store, array, world>>

\* NoteDisplay: "I have saved my secret note" is ticked, then Done.
SaysSaved(n) == ack' = ack \cup {n}

NoteDone(t) ==
    /\ Awake(t) /\ tab[t].screen = "note"
    /\ SaysSaved(NoteOf(t))
    /\ ClearNote(NoteOf(t))
    /\ tab' = [tab EXCEPT ![t].screen = "next"]
    /\ UNCHANGED <<array, tx, now, opens>>

AnotherDeposit(t) ==
    /\ Awake(t) /\ tab[t].screen = "next"
    /\ tab' = [tab EXCEPT ![t].screen = "confirm", ![t].note = {}]
    /\ UNCHANGED <<store, array, world>>

Deposit(t) ==
    \/ HandleDeposit(t) \/ BuildFails(t) \/ StageAndSend(t) \/ SendReturns(t)
    \/ WalletRejects(t) \/ PreflightFails(t) \/ SendIsAmbiguous(t)
    \/ Confirmed(t) \/ ConfirmationUnknown(t) \/ ShowNote(t)
    \/ NoteDone(t) \/ AnotherDeposit(t)

-----------------------------------------------------------------------------
(* The banner and its reconciliation, once per page load.                  *)

Reconcile(t) ==
    /\ Awake(t) /\ tab[t].rec.at = "mount"
    /\ tab' = [tab EXCEPT ![t].rec.at = "work",
                          ![t].op = Call("list", CHOOSE n \in Notes : TRUE, "")]
    /\ UNCHANGED <<store, array, world>>

\* Only a deposit broadcast long enough ago is judged.
Judged(entry) == now - entry.sentAt >= Grace

NextEntry(t) ==
    /\ Awake(t) /\ tab[t].rec.at = "work"
    /\ \E entry \in tab[t].rec.todo :
         tab' = [tab EXCEPT ![t].rec.todo = @ \ {entry},
                   ![t].rec.at = IF Judged(entry) THEN entry.note ELSE "work"]
    /\ UNCHANGED <<store, array, world>>

\* The leaf is in the verified tree, which can only be if the deposit landed.
LeafFound(t) ==
    /\ Awake(t) /\ tab[t].rec.at \in Notes /\ tx[tab[t].rec.at] = "landed"
    /\ tab' = [tab EXCEPT ![t].rec.at = "work",
                          ![t].op = Call("mark", tab[t].rec.at, "confirmed")]
    /\ UNCHANGED <<store, array, world>>

\* Mutant: a deposit not found is taken for one that never landed (H-4).
NotFoundClears(t) ==
    /\ Awake(t) /\ tab[t].rec.at \in Notes
    /\ ClearNote(tab[t].rec.at)
    /\ tab' = [tab EXCEPT ![t].rec.at = "work"]
    /\ UNCHANGED <<array, world>>

\* It is not, as the deposit did not land or the node lags, or no tree could
\* be verified.
LeafNotFound(t) ==
    /\ Awake(t) /\ tab[t].rec.at \in Notes
    /\ tab' = [tab EXCEPT ![t].rec.at = "work"]
    /\ UNCHANGED <<store, array, world>>

\* The second, confirming click of the banner.
Discard(t) ==
    /\ Awake(t)
    /\ \E n \in Notes :
         /\ Stored(n)
         /\ ClearNote(n)
         /\ ack' = ack \cup {n}
    /\ UNCHANGED <<array, tx, tab, now, opens>>

Banner(t) ==
    \/ Reconcile(t) \/ NextEntry(t) \/ LeafFound(t) \/ LeafNotFound(t)
    \/ Discard(t)

-----------------------------------------------------------------------------
(* The environment.                                                        *)

Open(t) ==
    /\ ~tab[t].open /\ opens < MaxOpens
    /\ opens' = opens + 1
    /\ tab' = [tab EXCEPT ![t] = [Closed EXCEPT !.open = TRUE]]
    /\ UNCHANGED <<store, array, tx, ack, now>>

\* A crash, a reload or the end of the session.
Close(t) ==
    /\ tab[t].open
    /\ tab' = [tab EXCEPT ![t] = Closed]
    /\ UNCHANGED <<store, array, world>>

\* The wallet broadcasts what it was asked for, even for a page that is gone.
Broadcast(n) == tx[n] = "asked" /\ tx' = [tx EXCEPT ![n] = "sent"]

Execute(n) ==
    /\ tx[n] = "sent"
    /\ \E s \in {"landed", "reverted", "expired"} : tx' = [tx EXCEPT ![n] = s]

Cluster(n) ==
    /\ Broadcast(n) \/ Execute(n)
    /\ UNCHANGED <<store, array, tab, ack, now, opens>>

Tick ==
    /\ now < MaxTime
    /\ now' = now + 1
    /\ UNCHANGED <<store, array, tx, tab, ack, opens>>

Init ==
    /\ array \in SUBSET OldNotes
    /\ store = [n \in Notes |-> Absent]
    /\ tx \in [Notes -> TxStates]
    /\ \A n \in Notes : tx[n] \in IF n \in OldNotes THEN {"landed", "expired"} ELSE {"none"}
    /\ tab = [t \in Tabs |-> Closed]
    /\ ack = OldNotes \ array
    /\ now = 0 /\ opens = 0

Page(t) == Vault(t) \/ Deposit(t) \/ Banner(t)

Next ==
    \/ \E t \in Tabs : Page(t) \/ Open(t) \/ Close(t)
    \/ \E n \in Notes : Cluster(n)
    \/ Tick

\* Nobody owes an answer of the wallet, a click or a page load.
Spec == Init /\ [][Next]_vars

-----------------------------------------------------------------------------
(* Properties.                                                             *)

Entries == [status : {"unsent", "sent", "confirmed"}, sentAt : 0 .. Never]

\* Every note that is said to be sent has the time from which reconciliation
\* waits: without it none would ever be judged.
Timed(entry) ==
    IF entry.status = "unsent" THEN entry.sentAt = Never ELSE entry.sentAt \in 0 .. now

Migrating == {"array", "keys", "put", "get"}

Calls ==
    [at : Migrating, fn : {"list"}, note : Notes, status : {""},
     todo : SUBSET OldNotes, copy : {Absent}]
    \cup [at : Migrating, fn : {"mark"}, note : Notes, status : {"sent", "confirmed"},
          todo : SUBSET OldNotes, copy : {Absent}]
    \cup [at : {"set"}, fn : {"mark"}, note : Notes, status : {"sent", "confirmed"},
          todo : SUBSET OldNotes, copy : Entries]

Passes ==
    [at : {"mount", "work"} \cup Notes,
     todo : SUBSET [note : Notes, sentAt : 0 .. MaxTime]]

PageStates ==
    [open : BOOLEAN, screen : {"confirm", "processing", "note", "next"},
     pc : {"idle", "build", "wallet", "confirm", "show"}, unknown : BOOLEAN,
     note : {{}} \cup {{n} : n \in Notes}, op : {NoOp} \cup Calls,
     rec : Passes]

TypeOK ==
    /\ store \in [Notes -> {Absent} \cup Entries]
    /\ \A n \in Notes : Stored(n) => Timed(store[n])
    /\ array \subseteq OldNotes /\ ack \subseteq Notes
    /\ tx \in [Notes -> TxStates]
    /\ tab \in [Tabs -> PageStates]
    /\ \A t \in Tabs : Op(t).at = "set" => Timed(Op(t).copy)
    /\ now \in 0 .. MaxTime /\ opens \in 0 .. MaxOpens

\* The key to a deposit that landed, or still may, is never lost: it is in
\* the storage or in the array not yet migrated, or the user declared to have
\* it or gave it up (noteVault.ts:14-15), whatever tabs do at the same time
\* and wherever a page is closed.
NoteNeverLost ==
    \A n \in Notes : MayLand(n) => Stored(n) \/ n \in array \cup ack

\* What a tab learns of a deposit is never undone by another: the status of a
\* note only moves from unsent to sent to confirmed, and the time from which
\* reconciliation waits is fixed by the first of these moves (SEC-03).
Rank == [unsent |-> 0, sent |-> 1, confirmed |-> 2]

StatusOnlyAdvances ==
    [][\A n \in Notes \ OldNotes :
         (Stored(n) /\ Stored(n)')
            => /\ Rank[store'[n].status] >= Rank[store[n].status]
               /\ store[n].sentAt # Never => store'[n].sentAt = store[n].sentAt]_vars

\* When the page is back on the confirm screen with an error, the deposit it
\* was about has not been sent and never will be: the user may try again
\* without paying twice (L-1, L-5).
FailedAttemptSentNothing ==
    \A t \in Tabs : tab[t].screen = "confirm" =>
        \A n \in tab[t].note : tx[n] = "refused"

\* A deposit shown as successful, or as confirmed on-chain, has landed
\* (Deposit.tsx:585, NoteRecovery.tsx:115).
SuccessMeansLanded ==
    /\ \A t \in Tabs :
         (tab[t].screen = "note" /\ ~tab[t].unknown) => tx[NoteOf(t)] = "landed"
    /\ \A n \in Notes : store[n].status = "confirmed" => tx[n] = "landed"
=============================================================================
