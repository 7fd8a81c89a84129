-------------------------- MODULE NoteVaultProofs --------------------------
(***************************************************************************)
(* Theorems about NoteVault, for every set of tabs and notes, every clock  *)
(* and every number of page loads.                                         *)
(***************************************************************************)
EXTENDS NoteVault, TLAPS

-----------------------------------------------------------------------------
(* The inductive invariant.                                                *)

\* Whoever is about to remove the array has a key for each note it holds that
\* matters, or need not: the user may have disposed of it in the meantime.
ArrayIsCopied ==
    \A t \in Tabs : Op(t).at \in {"keys", "put"} =>
        \A n \in array : MayLand(n) => Stored(n) \/ n \in Op(t).todo \cup ack

\* An attempt under way is shown as such; a page that waits for a wallet or
\* shows a note has one; one about to make a note, or to let the user try
\* again, has none that was sent.
Fits(page) ==
    /\ page.screen # "processing" => page.pc = "idle"
    /\ page.pc \in {"wallet", "confirm", "show"} \/ page.screen = "note"
         => page.note # {}
    /\ page.pc = "build" \/ page.screen = "confirm"
         => \A n \in page.note : tx[n] = "refused"

AttemptsFit == \A t \in Tabs : Fits(tab[t])

IInv ==
    /\ TypeOK
    /\ ArrayIsCopied /\ NoteNeverLost /\ AttemptsFit

-----------------------------------------------------------------------------
(* The functions of the vault.                                             *)

\* What is stored stays so, and nothing but a function of one tab moves.
Writing(t) ==
    /\ UNCHANGED world
    /\ store' \in [Notes -> {Absent} \cup Entries]
    /\ \A n \in Notes : Stored(n) => Stored(n)'
    /\ \A n \in Notes : Stored(n)' => Timed(store'[n])
    /\ tab' = [tab EXCEPT ![t].op = tab'[t].op]
    /\ tab'[t].op \in {NoOp} \cup Calls
    /\ tab'[t].op.at = "set" => Timed(tab'[t].op.copy)

LEMMA WritingIsTyped ==
    ASSUME IInv, NEW t \in Tabs, Writing(t), array' \in SUBSET array
    PROVE  TypeOK'
<1>1. tab' \in [Tabs -> PageStates]
  BY DEF Writing, IInv, TypeOK, PageStates
<1>2. \A u \in Tabs : Op(u)'.at = "set" => Timed(Op(u)'.copy)
  BY DEF Writing, IInv, TypeOK, PageStates, Op
<1>3. QED
  BY <1>1, <1>2 DEF Writing, IInv, TypeOK, world, Timed, Never, Op

LEMMA WritingKeeps ==
    ASSUME IInv, NEW t \in Tabs, Writing(t), array' = array,
           tab'[t].op.at \in {"keys", "put"} =>
              \A n \in array : MayLand(n) =>
                  Stored(n)' \/ n \in tab'[t].op.todo \cup ack
    PROVE  IInv'
<1>1. \A u \in Tabs : u # t => Op(u)' = Op(u)
  BY DEF Writing, IInv, TypeOK, Op
<1>2. Op(t)' = tab'[t].op
  BY DEF Op
<1>3. \A u \in Tabs : /\ tab'[u].pc = tab[u].pc /\ tab'[u].screen = tab[u].screen
                      /\ tab'[u].note = tab[u].note
  BY DEF Writing, IInv, TypeOK, PageStates
<1>4. ArrayIsCopied'
  <2>1. SUFFICES ASSUME NEW u \in Tabs, Op(u)'.at \in {"keys", "put"},
                        NEW n \in array, MayLand(n)
                 PROVE  Stored(n)' \/ n \in Op(u)'.todo \cup ack
    BY DEF ArrayIsCopied, Writing, world, MayLand
  <2>2. n \in Notes
    BY VaultAssumption DEF IInv, TypeOK
  <2>3. QED
    BY <1>1, <1>2, <2>1, <2>2 DEF IInv, ArrayIsCopied, Writing
<1>5. NoteNeverLost'
  BY DEF NoteNeverLost, IInv, Writing, world, MayLand
<1>6. AttemptsFit'
  BY <1>3 DEF AttemptsFit, Fits, IInv, Writing, world
<1>7. QED
  BY <1>4, <1>5, <1>6, WritingIsTyped DEF IInv

\* A step of a function that writes nothing.
LEMMA Reads ==
    ASSUME IInv, NEW t \in Tabs, UNCHANGED <<store, world>>,
           tab' = [tab EXCEPT ![t].op = tab'[t].op],
           tab'[t].op \in {NoOp} \cup Calls,
           tab'[t].op.at = "set" => Timed(tab'[t].op.copy)
    PROVE  Writing(t)
BY DEF Writing, IInv, TypeOK, Stored

LEMMA CallTypes ==
    ASSUME IInv, NEW t \in Tabs, Op(t).at # "none"
    PROVE  /\ Op(t) \in Calls
           /\ Op(t).todo \in SUBSET Notes
           /\ Op(t) = tab[t].op
<1>1. Op(t) = tab[t].op /\ tab[t].op \in {NoOp} \cup Calls
  BY DEF IInv, TypeOK, PageStates, Op
<1>2. Op(t) \in Calls
  BY <1>1 DEF NoOp
<1>3. Op(t).todo \in SUBSET OldNotes
  BY <1>2 DEF Calls
<1>4. QED
  BY <1>1, <1>2, <1>3, VaultAssumption

LEMMA ReadArrayStep ==
    ASSUME IInv, NEW t \in Tabs, ReadArray(t)
    PROVE  IInv'
<1>1. /\ tab'[t].op = IF array = {} THEN [Op(t) EXCEPT !.at = "get"]
                      ELSE [Op(t) EXCEPT !.at = "keys", !.todo = array]
      /\ tab' = [tab EXCEPT ![t].op = tab'[t].op]
  BY DEF ReadArray, SetOp, IInv, TypeOK, PageStates
<1>2. Op(t) \in Calls /\ Op(t).at = "array"
  BY CallTypes DEF ReadArray
<1>3. CASE array = {}
  <2>1. tab'[t].op \in Calls /\ tab'[t].op.at = "get"
    BY <1>1, <1>2, <1>3 DEF Calls, Migrating
  <2>2. QED
    BY <1>1, <2>1, Reads, WritingKeeps DEF ReadArray
<1>4. CASE array # {}
  <2>1. tab'[t].op \in Calls /\ tab'[t].op.at = "keys" /\ tab'[t].op.todo = array
    BY <1>1, <1>2, <1>4 DEF Calls, Migrating, IInv, TypeOK
  <2>2. QED
    BY <1>1, <2>1, Reads, WritingKeeps DEF ReadArray
<1>5. QED
  BY <1>3, <1>4

LEMMA CheckKeyStep ==
    ASSUME IInv, NEW t \in Tabs, CheckKey(t)
    PROVE  IInv'
<1>1. PICK n \in Op(t).todo :
        SetOp(t, IF Stored(n) THEN [Op(t) EXCEPT !.todo = @ \ {n}]
                 ELSE [Op(t) EXCEPT !.at = "put"])
  BY DEF CheckKey
<1>2. /\ tab'[t].op = IF Stored(n) THEN [Op(t) EXCEPT !.todo = @ \ {n}]
                      ELSE [Op(t) EXCEPT !.at = "put"]
      /\ tab' = [tab EXCEPT ![t].op = tab'[t].op]
  BY <1>1 DEF SetOp, IInv, TypeOK, PageStates
<1>3. Op(t) \in Calls /\ Op(t).at = "keys"
  BY CallTypes DEF CheckKey
<1>4. /\ tab'[t].op \in Calls /\ tab'[t].op.at \in {"keys", "put"}
      /\ tab'[t].op.todo = Op(t).todo \/ (Stored(n) /\ tab'[t].op.todo = Op(t).todo \ {n})
  <2>1. CASE Stored(n)
    <3>1. tab'[t].op = [Op(t) EXCEPT !.todo = Op(t).todo \ {n}]
      BY <1>2, <2>1
    <3>2. QED
      BY <1>3, <2>1, <3>1 DEF Calls, Migrating
  <2>2. CASE ~Stored(n)
    <3>1. tab'[t].op = [Op(t) EXCEPT !.at = "put"]
      BY <1>2, <2>2
    <3>2. QED
      BY <1>3, <3>1 DEF Calls, Migrating
  <2>3. QED
    BY <2>1, <2>2
<1>5. Writing(t)
  BY <1>2, <1>4, Reads, <1>3 DEF CheckKey, Calls, Migrating
<1>6. \A k \in array : MayLand(k) => Stored(k)' \/ k \in tab'[t].op.todo \cup ack
  BY <1>3, <1>4 DEF IInv, ArrayIsCopied, CheckKey, Stored
<1>7. QED
  BY <1>5, <1>6, WritingKeeps DEF CheckKey

LEMMA PutKeyStep ==
    ASSUME IInv, NEW t \in Tabs, PutKey(t)
    PROVE  IInv'
<1>1. Op(t) \in Calls /\ Op(t).at = "put" /\ Op(t).todo \in SUBSET Notes
  BY CallTypes DEF PutKey
<1>2. CASE SetOp(t, [Op(t) EXCEPT !.at = "get"]) /\ UNCHANGED store
  <2>1. /\ tab'[t].op = [Op(t) EXCEPT !.at = "get"]
        /\ tab' = [tab EXCEPT ![t].op = tab'[t].op]
    BY <1>2 DEF SetOp, IInv, TypeOK, PageStates
  <2>2. tab'[t].op \in Calls /\ tab'[t].op.at = "get"
    BY <1>1, <2>1 DEF Calls, Migrating
  <2>3. QED
    BY <1>2, <2>1, <2>2, Reads, WritingKeeps DEF PutKey
<1>3. ASSUME NEW n \in Op(t).todo,
             store' = [store EXCEPT ![n] = OldEntry],
             SetOp(t, [Op(t) EXCEPT !.at = "keys", !.todo = @ \ {n}])
      PROVE  IInv'
  <2>1. /\ tab'[t].op = [Op(t) EXCEPT !.at = "keys", !.todo = @ \ {n}]
        /\ tab' = [tab EXCEPT ![t].op = tab'[t].op]
    BY <1>3 DEF SetOp, IInv, TypeOK, PageStates
  <2>2. /\ tab'[t].op \in Calls /\ tab'[t].op.at = "keys"
        /\ tab'[t].op.todo = Op(t).todo \ {n}
    BY <1>1, <2>1 DEF Calls, Migrating
  <2>3. OldEntry \in Entries /\ OldEntry # Absent /\ Timed(OldEntry)
    BY VaultAssumption DEF OldEntry, Entries, Absent, Timed, Never, IInv, TypeOK
  <2>4. n \in Notes /\ store'[n] = OldEntry /\ \A k \in Notes \ {n} : store'[k] = store[k]
    BY <1>1, <1>3 DEF IInv, TypeOK
  <2>5. Writing(t)
    BY <1>3, <2>1, <2>2, <2>3, <2>4 DEF Writing, PutKey, IInv, TypeOK, Stored
  <2>6. \A k \in array : MayLand(k) => Stored(k)' \/ k \in tab'[t].op.todo \cup ack
    BY <1>1, <2>2, <2>3, <2>4, <2>5, VaultAssumption
    DEF IInv, TypeOK, ArrayIsCopied, Stored, Writing
  <2>7. QED
    BY <2>5, <2>6, WritingKeeps DEF PutKey
<1>4. QED
  BY <1>2, <1>3 DEF PutKey

LEMMA RemoveArrayStep ==
    ASSUME IInv, NEW t \in Tabs, RemoveArray(t)
    PROVE  IInv'
<1>1. Op(t) \in Calls /\ Op(t).at = "keys" /\ Op(t).todo = {}
  BY CallTypes DEF RemoveArray
<1>2. /\ tab'[t].op = [Op(t) EXCEPT !.at = "get"]
      /\ tab' = [tab EXCEPT ![t].op = tab'[t].op]
  BY DEF RemoveArray, SetOp, IInv, TypeOK, PageStates
<1>3. tab'[t].op \in Calls /\ tab'[t].op.at = "get"
  BY <1>1, <1>2 DEF Calls, Migrating
<1>4. Writing(t)
  BY <1>2, <1>3, Reads DEF RemoveArray
<1>5. TypeOK'
  BY <1>4, WritingIsTyped DEF RemoveArray
<1>6. \A u \in Tabs : /\ tab'[u].pc = tab[u].pc /\ tab'[u].screen = tab[u].screen
                      /\ tab'[u].note = tab[u].note
  BY <1>4 DEF Writing, IInv, TypeOK, PageStates
<1>7. ArrayIsCopied'
  BY DEF RemoveArray, ArrayIsCopied
<1>8. NoteNeverLost'
  <2>1. \A n \in array : MayLand(n) => Stored(n) \/ n \in ack
    BY <1>1 DEF IInv, ArrayIsCopied
  <2>2. QED
    BY <2>1 DEF NoteNeverLost, IInv, RemoveArray, world, MayLand, Stored
<1>9. AttemptsFit'
  BY <1>6 DEF AttemptsFit, Fits, IInv, RemoveArray, world
<1>10. QED
  BY <1>5, <1>7, <1>8, <1>9 DEF IInv

LEMMA WriteOneStep ==
    ASSUME IInv, NEW t \in Tabs, WriteOne(t)
    PROVE  IInv'
<1>1. Op(t) \in Calls /\ Op(t).at = "set" /\ Op(t) = tab[t].op
  BY CallTypes DEF WriteOne
<1>2. tab' = [tab EXCEPT ![t].op = tab'[t].op] /\ tab'[t].op = NoOp
  BY DEF WriteOne, SetOp, IInv, TypeOK, PageStates
<1>3. CASE UNCHANGED store
  BY <1>2, <1>3, Reads, WritingKeeps DEF WriteOne, NoOp
<1>4. CASE store' = [store EXCEPT ![Op(t).note] = Marked(Op(t).copy, Op(t).status)]
  <2>1. /\ Op(t).note \in Notes /\ Op(t).copy \in Entries
        /\ Op(t).status \in {"sent", "confirmed"}
    BY <1>1 DEF Calls, Migrating
  <2>2. Timed(Op(t).copy) /\ now \in 0 .. MaxTime
    BY <1>1 DEF IInv, TypeOK
  <2>3. /\ Marked(Op(t).copy, Op(t).status) \in Entries
        /\ Marked(Op(t).copy, Op(t).status) # Absent
        /\ Timed(Marked(Op(t).copy, Op(t).status))
    BY <2>1, <2>2, VaultAssumption DEF Marked, Entries, Absent, Timed, Never
  <2>4. Writing(t)
    BY <1>2, <1>4, <2>1, <2>3 DEF Writing, WriteOne, IInv, TypeOK, Stored, NoOp
  <2>5. QED
    BY <1>2, <2>4, WritingKeeps DEF WriteOne, NoOp
<1>5. QED
  BY <1>3, <1>4 DEF WriteOne

-----------------------------------------------------------------------------
(* A step of one tab, whatever it changes but the array.                   *)

\* The tab is left as it may be, and no note that matters is lost.
LEMMA StepKeeps ==
    ASSUME IInv, NEW t \in Tabs, UNCHANGED <<array, now>>,
           opens' \in 0 .. MaxOpens,
           ack \subseteq ack', ack' \subseteq Notes,
           store' \in [Notes -> {Absent} \cup Entries],
           \A n \in Notes : Stored(n)' => Timed(store'[n]),
           tx' \in [Notes -> TxStates],
           \A n \in Notes : tx[n] = "refused" => tx'[n] = "refused",
           \A n \in Notes : MayLand(n)' =>
               Stored(n)' \/ n \in ack' \/ (MayLand(n) /\ store'[n] = store[n]),
           tab' = [tab EXCEPT ![t] = tab'[t]],
           tab'[t] \in PageStates,
           tab'[t].op.at \notin {"keys", "put"},
           tab'[t].op.at = "set" => Timed(tab'[t].op.copy),
           Fits(tab[t])'
    PROVE  IInv'
<1>1. tab' \in [Tabs -> PageStates] /\ \A u \in Tabs : u # t => tab'[u] = tab[u]
  BY DEF IInv, TypeOK
<1>2. \A u \in Tabs : tab[u].note \subseteq Notes
  BY DEF IInv, TypeOK, PageStates
<1>3. TypeOK'
  <2>1. \A u \in Tabs : Op(u)'.at = "set" => Timed(Op(u)'.copy)
    BY <1>1 DEF IInv, TypeOK, Op
  <2>2. QED
    BY <1>1, <2>1 DEF IInv, TypeOK, Timed, Never, Op
<1>4. ArrayIsCopied'
  <2>1. SUFFICES ASSUME NEW u \in Tabs, Op(u)'.at \in {"keys", "put"},
                        NEW n \in array, MayLand(n)'
                 PROVE  Stored(n)' \/ n \in Op(u)'.todo \cup ack'
    BY DEF ArrayIsCopied
  <2>2. n \in Notes /\ u # t /\ Op(u)' = Op(u)
    BY <1>1, <2>1, VaultAssumption DEF IInv, TypeOK, Op
  <2>3. QED
    BY <2>1, <2>2 DEF IInv, ArrayIsCopied, Stored
<1>5. NoteNeverLost'
  BY DEF NoteNeverLost, IInv, Stored
<1>6. AttemptsFit'
  BY <1>1, <1>2 DEF AttemptsFit, Fits, IInv
<1>7. QED
  BY <1>3, <1>4, <1>5, <1>6 DEF IInv

\* A step of one tab that leaves the storage and the chain alone.
LEMMA PageKeeps ==
    ASSUME IInv, NEW t \in Tabs, UNCHANGED <<store, array, tx, ack, now>>,
           opens' \in 0 .. MaxOpens,
           tab' = [tab EXCEPT ![t] = tab'[t]],
           tab'[t] \in PageStates,
           tab'[t].op.at \notin {"keys", "put"},
           tab'[t].op.at = "set" => Timed(tab'[t].op.copy),
           Fits(tab[t])'
    PROVE  IInv'
<1>1. /\ store' \in [Notes -> {Absent} \cup Entries] /\ tx' \in [Notes -> TxStates]
      /\ \A n \in Notes : Stored(n)' => Timed(store'[n])
      /\ ack' \subseteq Notes
  BY DEF IInv, TypeOK, Stored
<1>2. \A n \in Notes : MayLand(n)' =>
        Stored(n)' \/ n \in ack' \/ (MayLand(n) /\ store'[n] = store[n])
  BY DEF MayLand
<1>3. QED
  BY <1>1, <1>2, StepKeeps

\* Of a page none of whose functions of the vault runs, and the states it has.
LEMMA AwakeTypes ==
    ASSUME IInv, NEW t \in Tabs, Awake(t)
    PROVE  tab[t] \in PageStates /\ tab[t].op = NoOp
BY DEF IInv, TypeOK, Awake, Op

LEMMA CallsTyped ==
    ASSUME NEW n \in Notes
    PROVE  /\ Call("mark", n, "sent") \in Calls
           /\ Call("mark", n, "confirmed") \in Calls
           /\ Call("list", n, "") \in Calls
           /\ \A fn, status : Call(fn, n, status).at = "array"
BY DEF Call, Calls, Migrating

\* The note of an attempt that has one.
LEMMA TheNote ==
    ASSUME IInv, NEW t \in Tabs, tab[t].note # {}
    PROVE  NoteOf(t) \in Notes /\ tab[t].note = {NoteOf(t)}
<1>1. tab[t].note \in {{n} : n \in Notes}
  BY DEF IInv, TypeOK, PageStates
<1>2. PICK n \in Notes : tab[t].note = {n}
  BY <1>1
<1>3. QED
  BY <1>2 DEF NoteOf

LEMMA ListStep ==
    ASSUME IInv, NEW t \in Tabs, List(t)
    PROVE  IInv'
<1> DEFINE snapshot == {[note |-> n, sentAt |-> store[n].sentAt] :
                          n \in {m \in Notes : Broadcasted(store[m])}}
<1>1. snapshot \in SUBSET [note : Notes, sentAt : 0 .. MaxTime]
  <2>1. SUFFICES ASSUME NEW n \in Notes, Broadcasted(store[n])
                 PROVE  store[n].sentAt \in 0 .. MaxTime
    OBVIOUS
  <2>2. Stored(n) /\ store[n].status = "sent"
    BY <2>1 DEF Broadcasted, Stored, Absent
  <2>3. QED
    BY <2>2, VaultAssumption DEF IInv, TypeOK, Timed
<1>2. tab[t] \in PageStates
  BY DEF IInv, TypeOK
<1> HIDE DEF snapshot
<1>3. tab' = [tab EXCEPT ![t] = tab'[t]]
      /\ tab'[t] = [tab[t] EXCEPT !.op = NoOp, !.rec.todo = snapshot]
  BY DEF List, IInv, TypeOK, PageStates, snapshot
<1>4. /\ tab'[t] \in PageStates /\ tab'[t].op = NoOp
      /\ tab'[t].pc = tab[t].pc /\ tab'[t].screen = tab[t].screen
      /\ tab'[t].note = tab[t].note
  <2>1. tab[t].rec \in Passes
    BY <1>2 DEF PageStates
  <2>2. [tab[t].rec EXCEPT !.todo = snapshot] \in Passes
    BY <1>1, <2>1 DEF Passes
  <2>3. tab'[t] = [tab[t] EXCEPT !.op = NoOp,
                                 !.rec = [tab[t].rec EXCEPT !.todo = snapshot]]
    BY <1>2, <1>3 DEF PageStates
  <2>4. QED
    BY <1>2, <2>2, <2>3 DEF PageStates
<1>5. NoOp.at = "none"
  BY DEF NoOp
<1>6. opens' \in 0 .. MaxOpens
  BY DEF List, world, IInv, TypeOK
<1>7. Fits(tab[t])'
  BY <1>4 DEF List, world, IInv, AttemptsFit, Fits
<1>8. QED
  BY <1>3, <1>4, <1>5, <1>6, <1>7, PageKeeps DEF List, world

LEMMA ReadOneStep ==
    ASSUME IInv, NEW t \in Tabs, ReadOne(t)
    PROVE  IInv'
<1>1. Op(t) \in Calls /\ Op(t).at = "get" /\ Op(t).fn = "mark"
  BY CallTypes DEF ReadOne
<1>2. Op(t).note \in Notes
  BY <1>1 DEF Calls
<1>3. CASE ~Stored(Op(t).note)
  <2>1. tab' = [tab EXCEPT ![t].op = tab'[t].op] /\ tab'[t].op = NoOp
    BY <1>3 DEF ReadOne, SetOp, IInv, TypeOK, PageStates
  <2>2. QED
    BY <2>1, Reads, WritingKeeps DEF ReadOne, NoOp
<1>4. CASE Stored(Op(t).note)
  <2>1. /\ tab' = [tab EXCEPT ![t].op = tab'[t].op]
        /\ tab'[t].op = [Op(t) EXCEPT !.at = "set", !.copy = store[Op(t).note]]
    BY <1>4 DEF ReadOne, SetOp, IInv, TypeOK, PageStates
  <2>2. store[Op(t).note] \in Entries /\ Timed(store[Op(t).note])
    BY <1>2, <1>4 DEF IInv, TypeOK, Stored
  <2>3. /\ tab'[t].op \in Calls /\ tab'[t].op.at = "set"
        /\ tab'[t].op.copy = store[Op(t).note]
    BY <1>1, <2>1, <2>2 DEF Calls, Migrating
  <2>4. QED
    BY <2>1, <2>2, <2>3, Reads, WritingKeeps DEF ReadOne
<1>5. QED
  BY <1>3, <1>4

LEMMA VaultStep ==
    ASSUME IInv, NEW t \in Tabs, Vault(t)
    PROVE  IInv'
BY ReadArrayStep, CheckKeyStep, PutKeyStep, RemoveArrayStep, ListStep,
   ReadOneStep, WriteOneStep DEF Vault

-----------------------------------------------------------------------------
(* The deposit page.                                                       *)

LEMMA HandleDepositStep ==
    ASSUME IInv, NEW t \in Tabs, HandleDeposit(t)
    PROVE  IInv'
<1>1. tab[t] \in PageStates /\ tab[t].op = NoOp /\ NoOp.at = "none"
  BY AwakeTypes DEF HandleDeposit, NoOp
<1>2. /\ tab' = [tab EXCEPT ![t] = tab'[t]]
      /\ tab'[t] = [tab[t] EXCEPT !.screen = "processing", !.pc = "build",
                                 !.unknown = FALSE]
  BY DEF HandleDeposit, IInv, TypeOK, PageStates
<1>3. tab'[t] \in PageStates /\ tab'[t].op = NoOp
  BY <1>1, <1>2 DEF PageStates
<1>4. Fits(tab[t])'
  <2>1. /\ tab'[t].pc = "build" /\ tab'[t].screen = "processing"
        /\ tab'[t].note = tab[t].note
    BY <1>1, <1>2 DEF PageStates
  <2>2. QED
    BY <2>1 DEF HandleDeposit, world, IInv, AttemptsFit, Fits
<1>5. UNCHANGED <<store, array, tx, ack, now>> /\ opens' \in 0 .. MaxOpens
  BY DEF HandleDeposit, world, IInv, TypeOK
<1>6. QED
  BY <1>1, <1>2, <1>3, <1>4, <1>5, PageKeeps

LEMMA BuildFailsStep ==
    ASSUME IInv, NEW t \in Tabs, BuildFails(t)
    PROVE  IInv'
<1>1. tab[t] \in PageStates /\ tab[t].op = NoOp /\ NoOp.at = "none"
  BY AwakeTypes DEF BuildFails, NoOp
<1>2. /\ tab' = [tab EXCEPT ![t] = tab'[t]]
      /\ tab'[t] = [tab[t] EXCEPT !.screen = "confirm", !.pc = "idle"]
  BY DEF BuildFails, IInv, TypeOK, PageStates
<1>3. tab'[t] \in PageStates /\ tab'[t].op = NoOp
  BY <1>1, <1>2 DEF PageStates
<1>4. Fits(tab[t])'
  <2>1. /\ tab'[t].pc = "idle" /\ tab'[t].screen = "confirm"
        /\ tab'[t].note = tab[t].note
    BY <1>1, <1>2 DEF PageStates
  <2>2. QED
    BY <2>1 DEF BuildFails, world, IInv, AttemptsFit, Fits
<1>5. UNCHANGED <<store, array, tx, ack, now>> /\ opens' \in 0 .. MaxOpens
  BY DEF BuildFails, world, IInv, TypeOK
<1>6. QED
  BY <1>1, <1>2, <1>3, <1>4, <1>5, PageKeeps

LEMMA ConfirmationUnknownStep ==
    ASSUME IInv, NEW t \in Tabs, ConfirmationUnknown(t)
    PROVE  IInv'
<1>1. tab[t] \in PageStates /\ tab[t].op = NoOp /\ NoOp.at = "none"
  BY AwakeTypes DEF ConfirmationUnknown, NoOp
<1>2. /\ tab' = [tab EXCEPT ![t] = tab'[t]]
      /\ tab'[t] = [tab[t] EXCEPT !.pc = "show", !.unknown = TRUE]
  BY DEF ConfirmationUnknown, IInv, TypeOK, PageStates
<1>3. tab'[t] \in PageStates /\ tab'[t].op = NoOp
  BY <1>1, <1>2 DEF PageStates
<1>4. Fits(tab[t])'
  <2>1. /\ tab'[t].pc = "show" /\ tab'[t].screen = tab[t].screen
        /\ tab'[t].note = tab[t].note
    BY <1>1, <1>2 DEF PageStates
  <2>2. QED
    BY <2>1 DEF ConfirmationUnknown, world, IInv, AttemptsFit, Fits
<1>5. UNCHANGED <<store, array, tx, ack, now>> /\ opens' \in 0 .. MaxOpens
  BY DEF ConfirmationUnknown, world, IInv, TypeOK
<1>6. QED
  BY <1>1, <1>2, <1>3, <1>4, <1>5, PageKeeps

LEMMA ShowNoteStep ==
    ASSUME IInv, NEW t \in Tabs, ShowNote(t)
    PROVE  IInv'
<1>1. tab[t] \in PageStates /\ tab[t].op = NoOp /\ NoOp.at = "none"
  BY AwakeTypes DEF ShowNote, NoOp
<1>2. /\ tab' = [tab EXCEPT ![t] = tab'[t]]
      /\ tab'[t] = [tab[t] EXCEPT !.pc = "idle", !.screen = "note"]
  BY DEF ShowNote, IInv, TypeOK, PageStates
<1>3. tab'[t] \in PageStates /\ tab'[t].op = NoOp
  BY <1>1, <1>2 DEF PageStates
<1>4. Fits(tab[t])'
  <2>1. /\ tab'[t].pc = "idle" /\ tab'[t].screen = "note"
        /\ tab'[t].note = tab[t].note
    BY <1>1, <1>2 DEF PageStates
  <2>2. QED
    BY <2>1 DEF ShowNote, world, IInv, AttemptsFit, Fits
<1>5. UNCHANGED <<store, array, tx, ack, now>> /\ opens' \in 0 .. MaxOpens
  BY DEF ShowNote, world, IInv, TypeOK
<1>6. QED
  BY <1>1, <1>2, <1>3, <1>4, <1>5, PageKeeps

LEMMA AnotherDepositStep ==
    ASSUME IInv, NEW t \in Tabs, AnotherDeposit(t)
    PROVE  IInv'
<1>1. tab[t] \in PageStates /\ tab[t].op = NoOp /\ NoOp.at = "none"
  BY AwakeTypes DEF AnotherDeposit, NoOp
<1>2. /\ tab' = [tab EXCEPT ![t] = tab'[t]]
      /\ tab'[t] = [tab[t] EXCEPT !.screen = "confirm", !.note = {}]
  BY DEF AnotherDeposit, IInv, TypeOK, PageStates
<1>3. tab'[t] \in PageStates /\ tab'[t].op = NoOp
  BY <1>1, <1>2 DEF PageStates
<1>4. Fits(tab[t])'
  <2>1. /\ tab'[t].pc = tab[t].pc /\ tab'[t].screen = "confirm"
        /\ tab'[t].note = {}
    BY <1>1, <1>2 DEF PageStates
  <2>2. QED
    BY <2>1 DEF AnotherDeposit, world, IInv, AttemptsFit, Fits
<1>5. UNCHANGED <<store, array, tx, ack, now>> /\ opens' \in 0 .. MaxOpens
  BY DEF AnotherDeposit, world, IInv, TypeOK
<1>6. QED
  BY <1>1, <1>2, <1>3, <1>4, <1>5, PageKeeps

LEMMA SendReturnsStep ==
    ASSUME IInv, NEW t \in Tabs, SendReturns(t)
    PROVE  IInv'
<1>1. tab[t] \in PageStates /\ tab[t].note # {}
  BY AwakeTypes DEF SendReturns, IInv, AttemptsFit, Fits
<1>2. NoteOf(t) \in Notes
  BY <1>1, TheNote
<1> DEFINE call == Call("mark", NoteOf(t), "sent")
<1>3. call \in Calls /\ call.at = "array"
  BY <1>2, CallsTyped
<1>4. /\ tab' = [tab EXCEPT ![t] = tab'[t]]
      /\ tab'[t] = [tab[t] EXCEPT !.pc = "confirm", !.op = call]
  BY DEF SendReturns, IInv, TypeOK, PageStates
<1> HIDE DEF call
<1>5. tab'[t] \in PageStates /\ tab'[t].op.at = "array"
  BY <1>1, <1>3, <1>4 DEF PageStates
<1>6. Fits(tab[t])'
  <2>1. /\ tab'[t].pc = "confirm" /\ tab'[t].screen = tab[t].screen
        /\ tab'[t].note = tab[t].note
    BY <1>1, <1>4 DEF PageStates
  <2>2. QED
    BY <1>1, <2>1 DEF SendReturns, world, IInv, AttemptsFit, Fits
<1>7. UNCHANGED <<store, array, ack, now>> /\ opens' \in 0 .. MaxOpens
  BY DEF SendReturns, world, IInv, TypeOK
<1>8. QED
  BY <1>4, <1>5, <1>6, <1>7, PageKeeps DEF SendReturns, world

LEMMA ConfirmedStep ==
    ASSUME IInv, NEW t \in Tabs, Confirmed(t)
    PROVE  IInv'
<1>1. tab[t] \in PageStates /\ tab[t].note # {}
  BY AwakeTypes DEF Confirmed, IInv, AttemptsFit, Fits
<1>2. NoteOf(t) \in Notes
  BY <1>1, TheNote
<1> DEFINE call == Call("mark", NoteOf(t), "confirmed")
<1>3. call \in Calls /\ call.at = "array"
  BY <1>2, CallsTyped
<1>4. /\ tab' = [tab EXCEPT ![t] = tab'[t]]
      /\ tab'[t] = [tab[t] EXCEPT !.pc = "show", !.op = call]
  BY DEF Confirmed, IInv, TypeOK, PageStates
<1> HIDE DEF call
<1>5. tab'[t] \in PageStates /\ tab'[t].op.at = "array"
  BY <1>1, <1>3, <1>4 DEF PageStates
<1>6. Fits(tab[t])'
  <2>1. /\ tab'[t].pc = "show" /\ tab'[t].screen = tab[t].screen
        /\ tab'[t].note = tab[t].note
    BY <1>1, <1>4 DEF PageStates
  <2>2. QED
    BY <1>1, <2>1 DEF Confirmed, world, IInv, AttemptsFit, Fits
<1>7. UNCHANGED <<store, array, ack, now>> /\ opens' \in 0 .. MaxOpens
  BY DEF Confirmed, world, IInv, TypeOK
<1>8. QED
  BY <1>4, <1>5, <1>6, <1>7, PageKeeps DEF Confirmed, world

LEMMA StageAndSendStep ==
    ASSUME IInv, NEW t \in Tabs, StageAndSend(t)
    PROVE  IInv'
<1>1. tab[t] \in PageStates /\ tab[t].op = NoOp /\ NoOp.at = "none"
  BY AwakeTypes DEF StageAndSend, NoOp
<1> DEFINE staged == [status |-> "unsent", sentAt |-> Never]
<1>2. PICK n \in Notes :
        /\ tx[n] = "none"
        /\ store' = [store EXCEPT ![n] = staged]
        /\ tx' = [tx EXCEPT ![n] = "asked"]
        /\ tab' = [tab EXCEPT ![t].pc = "wallet", ![t].note = {n}]
  BY DEF StageAndSend
<1>3. staged \in Entries /\ staged # Absent /\ Timed(staged)
  BY VaultAssumption DEF Entries, Absent, Timed, Never
<1> HIDE DEF staged
<1>4. /\ tab' = [tab EXCEPT ![t] = tab'[t]]
      /\ tab'[t] = [tab[t] EXCEPT !.pc = "wallet", !.note = {n}]
  BY <1>2 DEF IInv, TypeOK, PageStates
<1>5. /\ tab'[t] \in PageStates /\ tab'[t].op = NoOp
      /\ tab'[t].pc = "wallet" /\ tab'[t].note = {n}
      /\ tab'[t].screen = tab[t].screen
  BY <1>1, <1>4 DEF PageStates
<1>6. Fits(tab[t])'
  BY <1>5 DEF StageAndSend, IInv, AttemptsFit, Fits
<1>7. /\ store' \in [Notes -> {Absent} \cup Entries]
      /\ \A k \in Notes : Stored(k)' => Timed(store'[k])
      /\ \A k \in Notes \ {n} : store'[k] = store[k]
      /\ Stored(n)'
  BY <1>2, <1>3 DEF IInv, TypeOK, Stored
<1>8. /\ tx' \in [Notes -> TxStates]
      /\ \A k \in Notes : tx[k] = "refused" => tx'[k] = "refused"
      /\ \A k \in Notes \ {n} : tx'[k] = tx[k]
  BY <1>2 DEF IInv, TypeOK, TxStates
<1>9. \A k \in Notes : MayLand(k)' =>
        Stored(k)' \/ k \in ack' \/ (MayLand(k) /\ store'[k] = store[k])
  BY <1>7, <1>8 DEF MayLand
<1>10. /\ UNCHANGED <<array, ack, now>> /\ ack' \subseteq Notes
       /\ opens' \in 0 .. MaxOpens
  BY DEF StageAndSend, IInv, TypeOK
<1>11. QED
  BY <1>1, <1>4, <1>5, <1>6, <1>7, <1>8, <1>9, <1>10, StepKeeps

\* What clears a note the wallet refused, or the user has, keeps the others.
LEMMA Cleared ==
    ASSUME IInv, NEW n \in Notes, ClearNote(n), UNCHANGED now
    PROVE  /\ store' \in [Notes -> {Absent} \cup Entries]
           /\ \A k \in Notes : Stored(k)' => Timed(store'[k])
           /\ \A k \in Notes \ {n} : store'[k] = store[k]
BY DEF ClearNote, IInv, TypeOK, Stored

\* An error of the wallet that is a refusal refuses the transaction for good.
LEMMA ThrownRefuses ==
    ASSUME IInv, NEW n \in Notes, NEW err, Thrown(n, err)
    PROVE  /\ tx' \in [Notes -> TxStates]
           /\ \A k \in Notes : tx[k] = "refused" => tx'[k] = "refused"
           /\ \A k \in Notes \ {n} : tx'[k] = tx[k]
           /\ MayLand(n)' => MayLand(n)
           /\ err \in Refusals => tx'[n] = "refused"
BY DEF Thrown, IInv, TypeOK, TxStates, MayLand

LEMMA WalletRejectsStep ==
    ASSUME IInv, NEW t \in Tabs, WalletRejects(t)
    PROVE  IInv'
<1>1. /\ tab[t] \in PageStates /\ tab[t].op = NoOp /\ NoOp.at = "none"
      /\ tab[t].note # {}
  BY AwakeTypes DEF WalletRejects, NoOp, IInv, AttemptsFit, Fits
<1>2. PICK n \in Notes : n = NoteOf(t) /\ tab[t].note = {n}
  BY <1>1, TheNote
<1>3. PICK err \in SendErrors : IsWalletRejection(err) /\ Thrown(n, err)
  BY <1>2 DEF WalletRejects
<1>4. tx'[n] = "refused"
  BY <1>2, <1>3, ThrownRefuses DEF IsWalletRejection, Refusals
<1>5. /\ tab' = [tab EXCEPT ![t] = tab'[t]]
      /\ tab'[t] = [tab[t] EXCEPT !.screen = "confirm", !.pc = "idle"]
  BY DEF WalletRejects, IInv, TypeOK, PageStates
<1>6. /\ tab'[t] \in PageStates /\ tab'[t].op = NoOp
      /\ tab'[t].pc = "idle" /\ tab'[t].screen = "confirm"
      /\ tab'[t].note = {n}
  BY <1>1, <1>2, <1>5 DEF PageStates
<1>7. UNCHANGED <<array, ack, now>> /\ ack' \subseteq Notes /\ opens' \in 0 .. MaxOpens
  BY DEF WalletRejects, IInv, TypeOK
<1>8. ClearNote(n)
  BY <1>2 DEF WalletRejects
<1>9. Fits(tab[t])'
  BY <1>4, <1>6 DEF Fits
<1>10. \A k \in Notes : MayLand(k)' => MayLand(k) /\ store'[k] = store[k]
  <2>1. ~MayLand(n)'
    BY <1>4 DEF MayLand
  <2>2. \A k \in Notes \ {n} : tx'[k] = tx[k]
    BY <1>2, <1>3, ThrownRefuses
  <2>3. QED
    BY <1>2, <1>7, <1>8, <2>1, <2>2, Cleared DEF MayLand
<1>11. QED
  BY <1>1, <1>2, <1>3, <1>5, <1>6, <1>7, <1>8, <1>9, <1>10, Cleared,
     ThrownRefuses, StepKeeps

LEMMA PreflightFailsStep ==
    ASSUME IInv, NEW t \in Tabs, PreflightFails(t)
    PROVE  IInv'
<1>1. /\ tab[t] \in PageStates /\ tab[t].op = NoOp /\ NoOp.at = "none"
      /\ tab[t].note # {}
  BY AwakeTypes DEF PreflightFails, NoOp, IInv, AttemptsFit, Fits
<1>2. NoteOf(t) \in Notes /\ tab[t].note = {NoteOf(t)}
  BY <1>1, TheNote
<1>3. PICK err \in SendErrors : ProvesNotBroadcast(err) /\ Thrown(NoteOf(t), err)
  BY DEF PreflightFails
<1>4. tx'[NoteOf(t)] = "refused"
  BY <1>2, <1>3, ThrownRefuses DEF ProvesNotBroadcast, Refusals
<1>5. /\ tab' = [tab EXCEPT ![t] = tab'[t]]
      /\ tab'[t] = [tab[t] EXCEPT !.screen = "confirm", !.pc = "idle"]
  BY DEF PreflightFails, IInv, TypeOK, PageStates
<1>6. /\ tab'[t] \in PageStates /\ tab'[t].op = NoOp
      /\ tab'[t].pc = "idle" /\ tab'[t].screen = "confirm"
      /\ tab'[t].note = {NoteOf(t)}
  BY <1>1, <1>2, <1>5 DEF PageStates
<1>7. Fits(tab[t])'
  BY <1>4, <1>6 DEF Fits
<1>8. /\ UNCHANGED <<store, array, ack, now>> /\ ack' \subseteq Notes
      /\ opens' \in 0 .. MaxOpens
      /\ store' \in [Notes -> {Absent} \cup Entries]
      /\ \A k \in Notes : Stored(k)' => Timed(store'[k])
  BY DEF PreflightFails, IInv, TypeOK, Stored
<1>9. \A k \in Notes : MayLand(k)' => MayLand(k)
  BY <1>2, <1>3, ThrownRefuses DEF MayLand
<1>10. QED
  BY <1>1, <1>2, <1>3, <1>5, <1>6, <1>7, <1>8, <1>9, ThrownRefuses, StepKeeps

LEMMA SendIsAmbiguousStep ==
    ASSUME IInv, NEW t \in Tabs, SendIsAmbiguous(t)
    PROVE  IInv'
<1>1. tab[t] \in PageStates /\ tab[t].note # {}
  BY AwakeTypes DEF SendIsAmbiguous, IInv, AttemptsFit, Fits
<1>2. NoteOf(t) \in Notes
  BY <1>1, TheNote
<1>3. PICK err \in SendErrors : Thrown(NoteOf(t), err)
  BY DEF SendIsAmbiguous
<1> DEFINE call == Call("mark", NoteOf(t), "sent")
<1>4. call \in Calls /\ call.at = "array"
  BY <1>2, CallsTyped
<1>5. /\ tab' = [tab EXCEPT ![t] = tab'[t]]
      /\ tab'[t] = [tab[t] EXCEPT !.pc = "show", !.unknown = TRUE, !.op = call]
  BY DEF SendIsAmbiguous, IInv, TypeOK, PageStates
<1> HIDE DEF call
<1>6. /\ tab'[t] \in PageStates /\ tab'[t].op.at = "array"
      /\ tab'[t].pc = "show" /\ tab'[t].screen = tab[t].screen
      /\ tab'[t].note = tab[t].note
  BY <1>1, <1>4, <1>5 DEF PageStates
<1>7. Fits(tab[t])'
  BY <1>1, <1>6 DEF SendIsAmbiguous, IInv, AttemptsFit, Fits
<1>8. /\ UNCHANGED <<store, array, ack, now>> /\ ack' \subseteq Notes
      /\ opens' \in 0 .. MaxOpens
      /\ store' \in [Notes -> {Absent} \cup Entries]
      /\ \A k \in Notes : Stored(k)' => Timed(store'[k])
  BY DEF SendIsAmbiguous, IInv, TypeOK, Stored
<1>9. \A k \in Notes : MayLand(k)' => MayLand(k)
  BY <1>2, <1>3, ThrownRefuses DEF MayLand
<1>10. QED
  BY <1>2, <1>3, <1>5, <1>6, <1>7, <1>8, <1>9, ThrownRefuses, StepKeeps

LEMMA NoteDoneStep ==
    ASSUME IInv, NEW t \in Tabs, NoteDone(t)
    PROVE  IInv'
<1>1. /\ tab[t] \in PageStates /\ tab[t].op = NoOp /\ NoOp.at = "none"
      /\ tab[t].note # {}
  BY AwakeTypes DEF NoteDone, NoOp, IInv, AttemptsFit, Fits
<1>2. NoteOf(t) \in Notes
  BY <1>1, TheNote
<1>3. /\ tab' = [tab EXCEPT ![t] = tab'[t]]
      /\ tab'[t] = [tab[t] EXCEPT !.screen = "next"]
  BY DEF NoteDone, IInv, TypeOK, PageStates
<1>4. /\ tab'[t] \in PageStates /\ tab'[t].op = NoOp
      /\ tab'[t].pc = tab[t].pc /\ tab'[t].screen = "next"
      /\ tab'[t].note = tab[t].note
  BY <1>1, <1>3 DEF PageStates
<1>5. Fits(tab[t])'
  BY <1>4 DEF NoteDone, IInv, AttemptsFit, Fits
<1>6. /\ UNCHANGED <<array, tx, now>> /\ opens' \in 0 .. MaxOpens
      /\ tx' \in [Notes -> TxStates]
      /\ ack' = ack \cup {NoteOf(t)} /\ ack' \subseteq Notes
      /\ ClearNote(NoteOf(t))
  BY <1>2 DEF NoteDone, SaysSaved, IInv, TypeOK
<1>7. \A k \in Notes : MayLand(k)' =>
        k \in ack' \/ (MayLand(k) /\ store'[k] = store[k])
  BY <1>2, <1>6, Cleared DEF MayLand
<1>8. QED
  BY <1>1, <1>2, <1>3, <1>4, <1>5, <1>6, <1>7, Cleared, StepKeeps

LEMMA DepositStep ==
    ASSUME IInv, NEW t \in Tabs, Deposit(t)
    PROVE  IInv'
BY HandleDepositStep, BuildFailsStep, StageAndSendStep, SendReturnsStep,
   WalletRejectsStep, PreflightFailsStep, SendIsAmbiguousStep, ConfirmedStep,
   ConfirmationUnknownStep, ShowNoteStep, NoteDoneStep, AnotherDepositStep
DEF Deposit

-----------------------------------------------------------------------------
(* The banner.                                                             *)

\* Of the banner only the pass and the function of the vault it calls move.
LEMMA BannerKeeps ==
    ASSUME IInv, NEW t \in Tabs, UNCHANGED <<store, array, world>>,
           Awake(t), tab[t].pc = tab'[t].pc,
           tab' = [tab EXCEPT ![t] = tab'[t]],
           tab'[t] = [tab[t] EXCEPT !.op = tab'[t].op, !.rec = tab'[t].rec],
           tab'[t].op = NoOp \/ (tab'[t].op \in Calls /\ tab'[t].op.at = "array"),
           tab'[t].rec \in Passes
    PROVE  IInv'
<1>1. tab[t] \in PageStates /\ NoOp.at = "none"
  BY AwakeTypes DEF NoOp
<1>2. tab'[t].op \in {NoOp} \cup Calls
  OBVIOUS
<1>3. /\ tab'[t] \in PageStates /\ tab'[t].screen = tab[t].screen
      /\ tab'[t].note = tab[t].note
  BY <1>1, <1>2 DEF PageStates
<1>4. tab'[t].op.at \in {"none", "array"}
  BY <1>1
<1>5. Fits(tab[t])'
  BY <1>3 DEF world, IInv, AttemptsFit, Fits
<1>6. UNCHANGED <<tx, ack, now>> /\ opens' \in 0 .. MaxOpens
  BY DEF world, IInv, TypeOK
<1>7. QED
  BY <1>3, <1>4, <1>5, <1>6, PageKeeps

LEMMA ReconcileStep ==
    ASSUME IInv, NEW t \in Tabs, Reconcile(t)
    PROVE  IInv'
<1> DEFINE call == Call("list", CHOOSE n \in Notes : TRUE, "")
<1>1. call \in Calls /\ call.at = "array"
  <2>1. (CHOOSE n \in Notes : TRUE) \in Notes
    BY VaultAssumption
  <2>2. QED
    BY <2>1, CallsTyped
<1>2. tab[t] \in PageStates /\ tab[t].rec \in Passes
  BY DEF IInv, TypeOK, PageStates
<1>3. [tab[t].rec EXCEPT !.at = "work"] \in Passes
  BY <1>2 DEF Passes
<1>4. /\ tab' = [tab EXCEPT ![t] = tab'[t]]
      /\ tab'[t] = [tab[t] EXCEPT !.op = call,
                                  !.rec = [tab[t].rec EXCEPT !.at = "work"]]
  BY <1>2 DEF Reconcile, IInv, TypeOK, PageStates
<1> HIDE DEF call
<1>5. /\ tab'[t].op = call /\ tab'[t].pc = tab[t].pc
      /\ tab'[t].rec = [tab[t].rec EXCEPT !.at = "work"]
  BY <1>2, <1>4 DEF PageStates
<1>6. QED
  BY <1>1, <1>3, <1>4, <1>5, BannerKeeps DEF Reconcile

LEMMA NextEntryStep ==
    ASSUME IInv, NEW t \in Tabs, NextEntry(t)
    PROVE  IInv'
<1>1. tab[t] \in PageStates /\ tab[t].rec \in Passes /\ tab[t].op = NoOp
  BY AwakeTypes DEF NextEntry, PageStates
<1>2. PICK entry \in tab[t].rec.todo :
        tab' = [tab EXCEPT ![t].rec.todo = @ \ {entry},
                  ![t].rec.at = IF Judged(entry) THEN entry.note ELSE "work"]
  BY DEF NextEntry
<1> DEFINE pass == [tab[t].rec EXCEPT !.todo = @ \ {entry},
                      !.at = IF Judged(entry) THEN entry.note ELSE "work"]
<1>3. pass \in Passes
  BY <1>1, <1>2 DEF Passes
<1>4. /\ tab' = [tab EXCEPT ![t] = tab'[t]]
      /\ tab'[t] = [tab[t] EXCEPT !.rec = pass]
  BY <1>1, <1>2 DEF IInv, TypeOK, PageStates, Passes
<1> HIDE DEF pass
<1>5. tab'[t].op = NoOp /\ tab'[t].pc = tab[t].pc /\ tab'[t].rec = pass
  BY <1>1, <1>4 DEF PageStates
<1>6. tab'[t] = [tab[t] EXCEPT !.op = tab'[t].op, !.rec = tab'[t].rec]
  BY <1>1, <1>4, <1>5 DEF PageStates
<1>7. QED
  BY <1>3, <1>4, <1>5, <1>6, BannerKeeps DEF NextEntry

LEMMA LeafFoundStep ==
    ASSUME IInv, NEW t \in Tabs, LeafFound(t)
    PROVE  IInv'
<1> DEFINE call == Call("mark", tab[t].rec.at, "confirmed")
<1>1. call \in Calls /\ call.at = "array"
  BY CallsTyped DEF LeafFound
<1>2. tab[t] \in PageStates /\ tab[t].rec \in Passes
  BY DEF IInv, TypeOK, PageStates
<1>3. [tab[t].rec EXCEPT !.at = "work"] \in Passes
  BY <1>2 DEF Passes
<1>4. /\ tab' = [tab EXCEPT ![t] = tab'[t]]
      /\ tab'[t] = [tab[t] EXCEPT !.op = call,
                                  !.rec = [tab[t].rec EXCEPT !.at = "work"]]
  BY <1>2 DEF LeafFound, IInv, TypeOK, PageStates
<1> HIDE DEF call
<1>5. /\ tab'[t].op = call /\ tab'[t].pc = tab[t].pc
      /\ tab'[t].rec = [tab[t].rec EXCEPT !.at = "work"]
  BY <1>2, <1>4 DEF PageStates
<1>6. QED
  BY <1>1, <1>3, <1>4, <1>5, BannerKeeps DEF LeafFound

LEMMA LeafNotFoundStep ==
    ASSUME IInv, NEW t \in Tabs, LeafNotFound(t)
    PROVE  IInv'
<1>1. tab[t] \in PageStates /\ tab[t].rec \in Passes /\ tab[t].op = NoOp
  BY AwakeTypes DEF LeafNotFound, PageStates
<1>2. [tab[t].rec EXCEPT !.at = "work"] \in Passes
  BY <1>1 DEF Passes
<1>3. /\ tab' = [tab EXCEPT ![t] = tab'[t]]
      /\ tab'[t] = [tab[t] EXCEPT !.rec = [tab[t].rec EXCEPT !.at = "work"]]
  BY <1>1 DEF LeafNotFound, IInv, TypeOK, PageStates
<1>4. /\ tab'[t].op = NoOp /\ tab'[t].pc = tab[t].pc
      /\ tab'[t].rec = [tab[t].rec EXCEPT !.at = "work"]
  BY <1>1, <1>3 DEF PageStates
<1>5. tab'[t] = [tab[t] EXCEPT !.op = tab'[t].op, !.rec = tab'[t].rec]
  BY <1>1, <1>3, <1>4 DEF PageStates
<1>6. QED
  BY <1>2, <1>3, <1>4, <1>5, BannerKeeps DEF LeafNotFound

LEMMA DiscardStep ==
    ASSUME IInv, NEW t \in Tabs, Discard(t)
    PROVE  IInv'
<1>1. tab[t] \in PageStates /\ tab[t].op = NoOp /\ NoOp.at = "none"
  BY AwakeTypes DEF Discard, NoOp
<1>2. PICK n \in Notes : ClearNote(n) /\ ack' = ack \cup {n}
  BY DEF Discard
<1>3. /\ UNCHANGED <<array, tx, tab, now>> /\ opens' \in 0 .. MaxOpens
      /\ tx' \in [Notes -> TxStates] /\ ack' \subseteq Notes
  BY <1>2 DEF Discard, IInv, TypeOK
<1>4. tab' = [tab EXCEPT ![t] = tab'[t]] /\ tab'[t] = tab[t]
  BY <1>3 DEF IInv, TypeOK
<1>5. Fits(tab[t])'
  BY <1>3 DEF IInv, AttemptsFit, Fits
<1>6. \A k \in Notes : MayLand(k)' =>
        k \in ack' \/ (MayLand(k) /\ store'[k] = store[k])
  BY <1>2, <1>3, Cleared DEF MayLand
<1>7. QED
  BY <1>1, <1>2, <1>3, <1>4, <1>5, <1>6, Cleared, StepKeeps

LEMMA BannerStep ==
    ASSUME IInv, NEW t \in Tabs, Banner(t)
    PROVE  IInv'
BY ReconcileStep, NextEntryStep, LeafFoundStep, LeafNotFoundStep, DiscardStep
DEF Banner

-----------------------------------------------------------------------------
(* The environment.                                                        *)

LEMMA ClosedFits ==
    ASSUME NEW page \in {Closed, [Closed EXCEPT !.open = TRUE]}
    PROVE  /\ page \in PageStates /\ page.op = NoOp
           /\ page.screen = "confirm" /\ page.pc = "idle" /\ page.note = {}
<1>1. Closed \in PageStates
  <2>1. Closed.rec \in Passes
    BY DEF Closed, Passes
  <2>2. QED
    BY <2>1 DEF Closed, PageStates
<1>2. page \in PageStates
  BY <1>1 DEF PageStates
<1>3. CASE page = Closed
  BY <1>2, <1>3 DEF Closed
<1>4. CASE page = [Closed EXCEPT !.open = TRUE]
  BY <1>2, <1>4 DEF Closed
<1>5. QED
  BY <1>3, <1>4

LEMMA OpenStep ==
    ASSUME IInv, NEW t \in Tabs, Open(t) \/ Close(t)
    PROVE  IInv'
<1>1. /\ tab' = [tab EXCEPT ![t] = tab'[t]]
      /\ tab'[t] \in {Closed, [Closed EXCEPT !.open = TRUE]}
      /\ UNCHANGED <<store, array, tx, ack, now>>
  BY DEF Open, Close, world, IInv, TypeOK
<1>2. opens' \in 0 .. MaxOpens
  BY VaultAssumption DEF Open, Close, world, IInv, TypeOK
<1>3. /\ tab'[t] \in PageStates /\ tab'[t].op = NoOp /\ NoOp.at = "none"
      /\ tab'[t].screen = "confirm" /\ tab'[t].pc = "idle" /\ tab'[t].note = {}
  BY <1>1, ClosedFits DEF NoOp
<1>4. Fits(tab[t])'
  BY <1>3 DEF Fits
<1>5. QED
  BY <1>1, <1>2, <1>3, <1>4, PageKeeps

LEMMA ClusterStep ==
    ASSUME IInv, NEW n \in Notes, Cluster(n)
    PROVE  IInv'
<1>1. UNCHANGED <<store, array, tab, ack, now, opens>>
  BY DEF Cluster
<1>2. /\ tx' \in [Notes -> TxStates]
      /\ \A k \in Notes : tx[k] = "refused" => tx'[k] = "refused"
      /\ \A k \in Notes : MayLand(k)' => MayLand(k)
  BY DEF Cluster, Broadcast, Execute, IInv, TypeOK, TxStates, MayLand
<1>3. TypeOK'
  BY <1>1, <1>2 DEF IInv, TypeOK, Stored, Timed, Op
<1>4. ArrayIsCopied'
  BY <1>1, <1>2, VaultAssumption DEF IInv, TypeOK, ArrayIsCopied, Stored, Op
<1>5. NoteNeverLost'
  BY <1>1, <1>2 DEF IInv, NoteNeverLost, Stored
<1>6. AttemptsFit'
  <2>1. \A t \in Tabs : tab[t].note \in {{}} \cup {{k} : k \in Notes}
    BY DEF IInv, TypeOK, PageStates
  <2>2. QED
    BY <1>1, <1>2, <2>1 DEF IInv, AttemptsFit, Fits
<1>7. QED
  BY <1>3, <1>4, <1>5, <1>6 DEF IInv

LEMMA TickStep ==
    ASSUME IInv, Tick
    PROVE  IInv'
<1>1. UNCHANGED <<store, array, tx, tab, ack, opens>>
  BY DEF Tick
<1>2. TypeOK'
  <2>1. now' \in 0 .. MaxTime /\ now \in 0 .. MaxTime /\ now' = now + 1
    BY VaultAssumption DEF Tick, IInv, TypeOK
  <2>2. \A entry : Timed(entry) => Timed(entry)'
    BY <2>1 DEF Timed, Never
  <2>3. QED
    BY <1>1, <2>1, <2>2 DEF IInv, TypeOK, Stored, Op
<1>3. ArrayIsCopied' /\ NoteNeverLost' /\ AttemptsFit'
  BY <1>1 DEF IInv, ArrayIsCopied, NoteNeverLost, AttemptsFit, Fits, MayLand,
              Stored, Op
<1>4. QED
  BY <1>2, <1>3 DEF IInv

LEMMA InitIInv == Init => IInv
<1>1. SUFFICES ASSUME Init
               PROVE  IInv
  OBVIOUS
<1>2. \A t \in Tabs : /\ tab[t] \in PageStates /\ tab[t].op = NoOp
                      /\ tab[t].screen = "confirm" /\ tab[t].pc = "idle"
                      /\ tab[t].note = {}
  BY <1>1, ClosedFits DEF Init
<1>3. TypeOK
  <2>1. \A n \in Notes : ~Stored(n)
    BY <1>1 DEF Init, Stored
  <2>2. \A t \in Tabs : Op(t).at # "set"
    <3>1. NoOp.at = "none"
      BY DEF NoOp
    <3>2. QED
      BY <1>2, <3>1 DEF Op
  <2>3. tab \in [Tabs -> PageStates]
    BY <1>1, <1>2 DEF Init
  <2>4. store \in [Notes -> {Absent} \cup Entries] /\ tx \in [Notes -> TxStates]
    BY <1>1 DEF Init
  <2>5. QED
    BY <1>1, <2>1, <2>2, <2>3, <2>4, VaultAssumption DEF Init, TypeOK
<1>4. ArrayIsCopied
  BY <1>2 DEF ArrayIsCopied, Op, NoOp
<1>5. NoteNeverLost
  BY <1>1 DEF Init, NoteNeverLost, MayLand
<1>6. AttemptsFit
  BY <1>2 DEF AttemptsFit, Fits
<1>7. QED
  BY <1>3, <1>4, <1>5, <1>6 DEF IInv

LEMMA NextIInv == IInv /\ [Next]_vars => IInv'
<1>1. SUFFICES ASSUME IInv, [Next]_vars
               PROVE  IInv'
  OBVIOUS
<1>2. ASSUME NEW t \in Tabs, Page(t) \/ Open(t) \/ Close(t)
      PROVE  IInv'
  BY <1>1, <1>2, VaultStep, DepositStep, BannerStep, OpenStep DEF Page
<1>3. ASSUME NEW n \in Notes, Cluster(n)
      PROVE  IInv'
  BY <1>1, <1>3, ClusterStep
<1>4. CASE Tick
  BY <1>1, <1>4, TickStep
<1>5. CASE UNCHANGED vars
  BY <1>1, <1>5
  DEF vars, IInv, TypeOK, ArrayIsCopied, NoteNeverLost, AttemptsFit, Fits,
      MayLand, Stored, Timed, Op
<1>6. QED
  BY <1>1, <1>2, <1>3, <1>4, <1>5 DEF Next

-----------------------------------------------------------------------------
(* The theorems.                                                           *)

\* Every entry of the storage, every page and every function of the vault is
\* as TypeOK says, and a note said to be sent has the time reconciliation waits
\* from.
THEOREM TypeCorrect == Spec => []TypeOK
<1>1. IInv => TypeOK
  BY DEF IInv
<1>2. QED
  BY <1>1, InitIInv, NextIInv, PTL DEF Spec

\* However many tabs write, migrate, reconcile and discard at the same time,
\* and wherever each is closed, the key to a deposit that landed or may land
\* stays in the storage or the array, unless the user said to have it
\* (stageNote, migrateArrays, clearNote).
THEOREM NotesAreKept == Spec => []NoteNeverLost
<1>1. IInv => NoteNeverLost
  BY DEF IInv
<1>2. QED
  BY <1>1, InitIInv, NextIInv, PTL DEF Spec

\* A page that offers to try again has sent nothing for the note it made, and
\* never will, whatever error it was shown (isWalletRejection,
\* provesNotBroadcast).
THEOREM RetryPaysOnce == Spec => []FailedAttemptSentNothing
<1>1. IInv => FailedAttemptSentNothing
  BY DEF IInv, AttemptsFit, Fits, FailedAttemptSentNothing
<1>2. QED
  BY <1>1, InitIInv, NextIInv, PTL DEF Spec

-----------------------------------------------------------------------------
(* The inductive invariant, of one note.                                   *)

NewNotes == Notes \ OldNotes

\* What a page is doing with a note: marking it, holding a copy of it, about to
\* judge it, and having it sent, or marking it so for the first time.
Marks(page, n) == page.op # NoOp /\ page.op.fn = "mark" /\ page.op.note = n
Copies(page, n) == Marks(page, n) /\ page.op.at = "set"
Listed(page, n) ==
    page.rec.at = n \/ \E entry \in page.rec.todo : entry.note = n
Fresh(page, n) ==
    \/ n \in page.note /\ page.pc = "wallet"
    \/ Marks(page, n) /\ page.op.status = "sent"

\* Nobody has stored yet that the note is sent.
Unmarked(n) ==
    \/ store[n].status = "unsent"
    \/ \E t \in Tabs : \/ Fresh(tab[t], n)
                       \/ Copies(tab[t], n) /\ tab[t].op.copy.status = "unsent"

OneOwner(n) ==
    \A t, u \in Tabs : n \in tab[t].note /\ n \in tab[u].note => t = u

NotYetMade(n) ==
    tx[n] = "none" =>
        /\ ~Stored(n)
        /\ \A t \in Tabs :
             n \notin tab[t].note /\ ~Marks(tab[t], n) /\ ~Listed(tab[t], n)

\* Only the page that made such a note marks it, and no reconciliation has it.
OwnersOnly(n) ==
    Unmarked(n) =>
        \A t \in Tabs : /\ ~Listed(tab[t], n)
                        /\ Marks(tab[t], n) => n \in tab[t].note

FreshIsUnsent(n) ==
    (\E t \in Tabs : Fresh(tab[t], n)) => store[n].status \in {"absent", "unsent"}

\* The copies of a note and what is stored of it have the same time.
CopiesAgree(n) ==
    \A t \in Tabs : Copies(tab[t], n) =>
        /\ Stored(n) => store[n].sentAt = tab[t].op.copy.sentAt
        /\ \A u \in Tabs :
             Copies(tab[u], n) => tab[u].op.copy.sentAt = tab[t].op.copy.sentAt

\* The page that waits for the wallet marks nothing of that note.
SentBeforeMarked(n) ==
    \A t \in Tabs : n \in tab[t].note /\ tab[t].pc = "wallet" => ~Marks(tab[t], n)

NoteInv(n) ==
    /\ OneOwner(n) /\ NotYetMade(n) /\ OwnersOnly(n)
    /\ FreshIsUnsent(n) /\ CopiesAgree(n) /\ SentBeforeMarked(n)

-----------------------------------------------------------------------------
(* Steps that tell a page nothing new of a note.                           *)

Quiet(t, n) ==
    /\ store'[n] \in {store[n], Absent}
    /\ tx'[n] = "none" => tx[n] = "none"
    /\ \A u \in Tabs \ {t} : tab'[u] = tab[u]
    /\ n \in tab'[t].note => n \in tab[t].note
    /\ Marks(tab'[t], n) =>
         n \in tab'[t].note \/ (Marks(tab[t], n) /\ tab'[t].note = tab[t].note)
    /\ tab'[t].pc = "wallet" => tab[t].pc = "wallet"
    /\ tab'[t].pc = "wallet" => (Marks(tab'[t], n) => Marks(tab[t], n))
    /\ Listed(tab'[t], n) => Listed(tab[t], n)
    /\ Fresh(tab'[t], n) => Fresh(tab[t], n)
    /\ Copies(tab'[t], n) =>
         Copies(tab[t], n) /\ tab'[t].op.copy = tab[t].op.copy

LEMMA QuietKeeps ==
    ASSUME NEW n \in NewNotes, NoteInv(n), NEW t \in Tabs, Quiet(t, n)
    PROVE  NoteInv(n)'
<1>1. OneOwner(n)'
  BY DEF Quiet, NoteInv, OneOwner
<1>2. NotYetMade(n)'
  BY DEF Quiet, NoteInv, NotYetMade, Stored
<1>3. Unmarked(n)' => Unmarked(n)
  BY DEF Quiet, Unmarked, Absent
<1>4. OwnersOnly(n)'
  BY <1>3 DEF Quiet, NoteInv, OwnersOnly
<1>5. FreshIsUnsent(n)'
  BY DEF Quiet, NoteInv, FreshIsUnsent, Absent
<1>6. CopiesAgree(n)'
  BY DEF Quiet, NoteInv, CopiesAgree, Stored
<1>7. SentBeforeMarked(n)'
  BY DEF Quiet, NoteInv, SentBeforeMarked
<1>8. QED
  BY <1>1, <1>2, <1>4, <1>5, <1>6, <1>7 DEF NoteInv

LEMMA CallsAreNot ==
    ASSUME NEW call \in Calls
    PROVE  call # NoOp
<1>1. call.at # "none"
  BY DEF Calls, Migrating
<1>2. QED
  BY <1>1 DEF NoOp

\* A function of the vault goes on, without a copy of a note, or ends.
LEMMA VaultQuiet ==
    ASSUME IInv, NEW n \in NewNotes, NEW t \in Tabs,
           store'[n] = store[n], tx' = tx,
           tab' = [tab EXCEPT ![t].op = tab'[t].op],
           \/ tab'[t].op = NoOp
           \/ /\ Op(t) \in Calls /\ tab'[t].op \in Calls /\ tab'[t].op.at # "set"
              /\ tab'[t].op.fn = Op(t).fn /\ tab'[t].op.note = Op(t).note
              /\ tab'[t].op.status = Op(t).status
    PROVE  Quiet(t, n)
<1>1. /\ \A u \in Tabs \ {t} : tab'[u] = tab[u]
      /\ tab'[t].note = tab[t].note /\ tab'[t].pc = tab[t].pc
      /\ tab'[t].rec = tab[t].rec
  BY DEF IInv, TypeOK, PageStates
<1>2. CASE tab'[t].op = NoOp
  BY <1>1, <1>2 DEF Quiet, Marks, Copies, Listed, Fresh
<1>3. CASE tab'[t].op # NoOp
  <2>1. Op(t) # NoOp /\ Op(t) = tab[t].op
    BY <1>3, CallsAreNot DEF Op
  <2>2. QED
    BY <1>1, <1>3, <2>1 DEF Quiet, Marks, Copies, Listed, Fresh
<1>4. QED
  BY <1>2, <1>3

\* A handler of a page goes on, and may mark the note of the page.
LEMMA PageQuiet ==
    ASSUME IInv, NEW n \in NewNotes, NEW t \in Tabs,
           store'[n] \in {store[n], Absent}, tx'[n] = "none" => tx[n] = "none",
           tab' = [tab EXCEPT ![t] = tab'[t]],
           tab'[t].note \subseteq tab[t].note,
           Listed(tab'[t], n) => Listed(tab[t], n),
           tab'[t].pc = "wallet" => tab[t].pc = "wallet",
           \/ tab'[t].op = NoOp
           \/ tab'[t].op.fn # "mark"
           \/ /\ tab'[t].op.at # "set" /\ tab'[t].op.note \in tab'[t].note
              /\ tab'[t].pc # "wallet"
              /\ tab'[t].op.status = "sent" => tab[t].pc = "wallet"
    PROVE  Quiet(t, n)
<1>1. \A u \in Tabs \ {t} : tab'[u] = tab[u]
  BY DEF IInv, TypeOK
<1>2. QED
  BY <1>1 DEF Quiet, Marks, Copies, Fresh

LEMMA ReadingIsQuiet ==
    ASSUME IInv, NEW n \in NewNotes, NEW t \in Tabs,
           \/ ReadArray(t) \/ CheckKey(t) \/ PutKey(t) \/ RemoveArray(t)
    PROVE  Quiet(t, n)
<1>1. Op(t) \in Calls /\ Op(t).at # "set" /\ Op(t).todo \subseteq OldNotes
  <2>1. Op(t) \in Calls
    BY CallTypes DEF ReadArray, CheckKey, PutKey, RemoveArray
  <2>2. QED
    BY <2>1 DEF ReadArray, CheckKey, PutKey, RemoveArray, Calls
<1>2. \E todo \in SUBSET OldNotes, at \in Migrating :
        tab' = [tab EXCEPT ![t].op = [Op(t) EXCEPT !.at = at, !.todo = todo]]
  <2>1. Op(t) = [Op(t) EXCEPT !.at = Op(t).at, !.todo = Op(t).todo]
    BY <1>1 DEF Calls
  <2>2. CASE ReadArray(t)
    <3>1. array \in SUBSET OldNotes
      BY DEF IInv, TypeOK
    <3>2. CASE array = {}
      <4>1. tab' = [tab EXCEPT ![t].op =
                      [Op(t) EXCEPT !.at = "get", !.todo = Op(t).todo]]
        BY <1>1, <2>2, <3>2 DEF ReadArray, SetOp, Calls
      <4>2. QED
        BY <1>1, <4>1 DEF Migrating
    <3>3. CASE array # {}
      BY <2>2, <3>1, <3>3 DEF ReadArray, SetOp, Migrating
    <3>4. QED
      BY <3>2, <3>3
  <2>3. CASE CheckKey(t)
    <3>1. PICK k \in Op(t).todo :
            SetOp(t, IF Stored(k) THEN [Op(t) EXCEPT !.todo = @ \ {k}]
                     ELSE [Op(t) EXCEPT !.at = "put"])
      BY <2>3 DEF CheckKey
    <3>2. CASE Stored(k)
      <4>1. Op(t).at = "keys"
        BY <2>3 DEF CheckKey
      <4>2. [Op(t) EXCEPT !.todo = @ \ {k}]
              = [Op(t) EXCEPT !.at = "keys", !.todo = Op(t).todo \ {k}]
        <5>1. Op(t) = [Op(t) EXCEPT !.at = Op(t).at]
          BY <1>1 DEF Calls
        <5>2. Op(t) = [Op(t) EXCEPT !.at = "keys"]
          BY <4>1, <5>1
        <5>3. [Op(t) EXCEPT !.todo = @ \ {k}]
                = [[Op(t) EXCEPT !.at = "keys"] EXCEPT !.todo = Op(t).todo \ {k}]
          BY <5>2
        <5>4. QED
          BY <5>3
      <4>3. tab' = [tab EXCEPT ![t].op =
                      [Op(t) EXCEPT !.at = "keys", !.todo = Op(t).todo \ {k}]]
        BY <3>1, <3>2, <4>2 DEF SetOp
      <4>4. QED
        BY <1>1, <4>3 DEF Migrating
    <3>3. CASE ~Stored(k)
      <4>1. tab' = [tab EXCEPT ![t].op =
                      [Op(t) EXCEPT !.at = "put", !.todo = Op(t).todo]]
        BY <1>1, <3>1, <3>3 DEF SetOp, Calls
      <4>2. QED
        BY <1>1, <4>1 DEF Migrating
    <3>4. QED
      BY <3>2, <3>3
  <2>4. CASE PutKey(t)
    <3>1. ASSUME NEW k \in Op(t).todo,
                 SetOp(t, [Op(t) EXCEPT !.at = "keys", !.todo = @ \ {k}])
          PROVE  \E todo \in SUBSET OldNotes, at \in Migrating :
                   tab' = [tab EXCEPT ![t].op =
                             [Op(t) EXCEPT !.at = at, !.todo = todo]]
      <4>1. tab' = [tab EXCEPT ![t].op =
                      [Op(t) EXCEPT !.at = "keys", !.todo = Op(t).todo \ {k}]]
        BY <3>1 DEF SetOp
      <4>2. QED
        BY <1>1, <4>1 DEF Migrating
    <3>2. CASE SetOp(t, [Op(t) EXCEPT !.at = "get"])
      <4>1. tab' = [tab EXCEPT ![t].op =
                      [Op(t) EXCEPT !.at = "get", !.todo = Op(t).todo]]
        BY <1>1, <3>2 DEF SetOp, Calls
      <4>2. QED
        BY <1>1, <4>1 DEF Migrating
    <3>3. QED
      BY <2>4, <3>1, <3>2 DEF PutKey
  <2>5. CASE RemoveArray(t)
    <3>1. tab' = [tab EXCEPT ![t].op =
                    [Op(t) EXCEPT !.at = "get", !.todo = Op(t).todo]]
      BY <1>1, <2>5 DEF RemoveArray, SetOp, Calls
    <3>2. QED
      BY <1>1, <3>1 DEF Migrating
  <2>6. QED
    BY <2>2, <2>3, <2>4, <2>5
<1>3. PICK todo \in SUBSET OldNotes, at \in Migrating :
        tab' = [tab EXCEPT ![t].op = [Op(t) EXCEPT !.at = at, !.todo = todo]]
  BY <1>2
<1>4. /\ tab' = [tab EXCEPT ![t].op = tab'[t].op]
      /\ tab'[t].op = [Op(t) EXCEPT !.at = at, !.todo = todo]
  BY <1>3 DEF IInv, TypeOK, PageStates
<1>5. /\ tab'[t].op \in Calls /\ tab'[t].op.at # "set"
      /\ tab'[t].op.fn = Op(t).fn /\ tab'[t].op.note = Op(t).note
      /\ tab'[t].op.status = Op(t).status
  BY <1>1, <1>4 DEF Calls, Migrating
<1>6. store'[n] = store[n]
  <2>1. n \notin Op(t).todo
    BY <1>1 DEF NewNotes
  <2>2. QED
    <3>1. ASSUME NEW k \in Op(t).todo, store' = [store EXCEPT ![k] = OldEntry]
          PROVE  store'[n] = store[n]
      BY <2>1, <3>1 DEF IInv, TypeOK, NewNotes
    <3>2. CASE PutKey(t)
      BY <3>1, <3>2 DEF PutKey
    <3>3. CASE ~PutKey(t)
      BY <3>3 DEF ReadArray, CheckKey, RemoveArray
    <3>4. QED
      BY <3>2, <3>3
<1>7. tx' = tx
  BY DEF ReadArray, CheckKey, PutKey, RemoveArray, world
<1>8. QED
  BY <1>1, <1>4, <1>5, <1>6, <1>7, VaultQuiet

-----------------------------------------------------------------------------
(* The handlers of the page that are quiet.                                *)

LEMMA HandleDepositIsQuiet ==
    ASSUME IInv, NEW n \in NewNotes, NEW t \in Tabs, HandleDeposit(t)
    PROVE  Quiet(t, n)
<1>1. tab[t] \in PageStates /\ tab[t].op = NoOp
  BY AwakeTypes DEF HandleDeposit
<1>2. /\ tab' = [tab EXCEPT ![t] = tab'[t]]
      /\ tab'[t].note = tab[t].note /\ tab'[t].pc = "build"
      /\ tab'[t].rec = tab[t].rec /\ tab'[t].op = NoOp
  BY <1>1 DEF HandleDeposit, IInv, TypeOK, PageStates
<1>3. store'[n] \in {store[n], Absent} /\ (tx'[n] = "none" => tx[n] = "none")
  BY DEF HandleDeposit, ClearNote, Thrown, world, IInv, TypeOK, NewNotes
<1>4. QED
  BY <1>2, <1>3, PageQuiet DEF Listed

LEMMA BuildFailsIsQuiet ==
    ASSUME IInv, NEW n \in NewNotes, NEW t \in Tabs, BuildFails(t)
    PROVE  Quiet(t, n)
<1>1. tab[t] \in PageStates /\ tab[t].op = NoOp
  BY AwakeTypes DEF BuildFails
<1>2. /\ tab' = [tab EXCEPT ![t] = tab'[t]]
      /\ tab'[t].note = tab[t].note /\ tab'[t].pc = "idle"
      /\ tab'[t].rec = tab[t].rec /\ tab'[t].op = NoOp
  BY <1>1 DEF BuildFails, IInv, TypeOK, PageStates
<1>3. store'[n] \in {store[n], Absent} /\ (tx'[n] = "none" => tx[n] = "none")
  BY DEF BuildFails, ClearNote, Thrown, world, IInv, TypeOK, NewNotes
<1>4. QED
  BY <1>2, <1>3, PageQuiet DEF Listed

LEMMA WalletRejectsIsQuiet ==
    ASSUME IInv, NEW n \in NewNotes, NEW t \in Tabs, WalletRejects(t)
    PROVE  Quiet(t, n)
<1>1. tab[t] \in PageStates /\ tab[t].op = NoOp
  BY AwakeTypes DEF WalletRejects
<1>2. /\ tab' = [tab EXCEPT ![t] = tab'[t]]
      /\ tab'[t].note = tab[t].note /\ tab'[t].pc = "idle"
      /\ tab'[t].rec = tab[t].rec /\ tab'[t].op = NoOp
  BY <1>1 DEF WalletRejects, IInv, TypeOK, PageStates
<1>3. store'[n] \in {store[n], Absent} /\ (tx'[n] = "none" => tx[n] = "none")
  BY DEF WalletRejects, ClearNote, Thrown, world, IInv, TypeOK, NewNotes
<1>4. QED
  BY <1>2, <1>3, PageQuiet DEF Listed

LEMMA PreflightFailsIsQuiet ==
    ASSUME IInv, NEW n \in NewNotes, NEW t \in Tabs, PreflightFails(t)
    PROVE  Quiet(t, n)
<1>1. tab[t] \in PageStates /\ tab[t].op = NoOp
  BY AwakeTypes DEF PreflightFails
<1>2. /\ tab' = [tab EXCEPT ![t] = tab'[t]]
      /\ tab'[t].note = tab[t].note /\ tab'[t].pc = "idle"
      /\ tab'[t].rec = tab[t].rec /\ tab'[t].op = NoOp
  BY <1>1 DEF PreflightFails, IInv, TypeOK, PageStates
<1>3. store'[n] \in {store[n], Absent} /\ (tx'[n] = "none" => tx[n] = "none")
  BY DEF PreflightFails, ClearNote, Thrown, world, IInv, TypeOK, NewNotes
<1>4. QED
  BY <1>2, <1>3, PageQuiet DEF Listed

LEMMA ConfirmationUnknownIsQuiet ==
    ASSUME IInv, NEW n \in NewNotes, NEW t \in Tabs, ConfirmationUnknown(t)
    PROVE  Quiet(t, n)
<1>1. tab[t] \in PageStates /\ tab[t].op = NoOp
  BY AwakeTypes DEF ConfirmationUnknown
<1>2. /\ tab' = [tab EXCEPT ![t] = tab'[t]]
      /\ tab'[t].note = tab[t].note /\ tab'[t].pc = "show"
      /\ tab'[t].rec = tab[t].rec /\ tab'[t].op = NoOp
  BY <1>1 DEF ConfirmationUnknown, IInv, TypeOK, PageStates
<1>3. store'[n] \in {store[n], Absent} /\ (tx'[n] = "none" => tx[n] = "none")
  BY DEF ConfirmationUnknown, ClearNote, Thrown, world, IInv, TypeOK, NewNotes
<1>4. QED
  BY <1>2, <1>3, PageQuiet DEF Listed

LEMMA ShowNoteIsQuiet ==
    ASSUME IInv, NEW n \in NewNotes, NEW t \in Tabs, ShowNote(t)
    PROVE  Quiet(t, n)
<1>1. tab[t] \in PageStates /\ tab[t].op = NoOp
  BY AwakeTypes DEF ShowNote
<1>2. /\ tab' = [tab EXCEPT ![t] = tab'[t]]
      /\ tab'[t].note = tab[t].note /\ tab'[t].pc = "idle"
      /\ tab'[t].rec = tab[t].rec /\ tab'[t].op = NoOp
  BY <1>1 DEF ShowNote, IInv, TypeOK, PageStates
<1>3. store'[n] \in {store[n], Absent} /\ (tx'[n] = "none" => tx[n] = "none")
  BY DEF ShowNote, ClearNote, Thrown, world, IInv, TypeOK, NewNotes
<1>4. QED
  BY <1>2, <1>3, PageQuiet DEF Listed

LEMMA NoteDoneIsQuiet ==
    ASSUME IInv, NEW n \in NewNotes, NEW t \in Tabs, NoteDone(t)
    PROVE  Quiet(t, n)
<1>1. tab[t] \in PageStates /\ tab[t].op = NoOp
  BY AwakeTypes DEF NoteDone
<1>2. /\ tab' = [tab EXCEPT ![t] = tab'[t]]
      /\ tab'[t].note = tab[t].note /\ tab'[t].pc = tab[t].pc
      /\ tab'[t].rec = tab[t].rec /\ tab'[t].op = NoOp
  BY <1>1 DEF NoteDone, IInv, TypeOK, PageStates
<1>3. store'[n] \in {store[n], Absent} /\ (tx'[n] = "none" => tx[n] = "none")
  BY DEF NoteDone, ClearNote, Thrown, world, IInv, TypeOK, NewNotes
<1>4. QED
  BY <1>2, <1>3, PageQuiet DEF Listed

LEMMA AnotherDepositIsQuiet ==
    ASSUME IInv, NEW n \in NewNotes, NEW t \in Tabs, AnotherDeposit(t)
    PROVE  Quiet(t, n)
<1>1. tab[t] \in PageStates /\ tab[t].op = NoOp
  BY AwakeTypes DEF AnotherDeposit
<1>2. /\ tab' = [tab EXCEPT ![t] = tab'[t]]
      /\ tab'[t].note = {} /\ tab'[t].pc = tab[t].pc
      /\ tab'[t].rec = tab[t].rec /\ tab'[t].op = NoOp
  BY <1>1 DEF AnotherDeposit, IInv, TypeOK, PageStates
<1>3. store'[n] \in {store[n], Absent} /\ (tx'[n] = "none" => tx[n] = "none")
  BY DEF AnotherDeposit, ClearNote, Thrown, world, IInv, TypeOK, NewNotes
<1>4. QED
  BY <1>2, <1>3, PageQuiet DEF Listed

LEMMA SendReturnsIsQuiet ==
    ASSUME IInv, NEW n \in NewNotes, NEW t \in Tabs, SendReturns(t)
    PROVE  Quiet(t, n)
<1>1. tab[t] \in PageStates /\ tab[t].op = NoOp
  BY AwakeTypes DEF SendReturns
<1> DEFINE call == Call("mark", NoteOf(t), "sent")
<1>2. NoteOf(t) \in tab[t].note
  BY TheNote DEF SendReturns, IInv, AttemptsFit, Fits
<1>3. /\ call.at = "array" /\ call.note = NoteOf(t) /\ call.status = "sent"
  BY DEF Call
<1>4. /\ tab' = [tab EXCEPT ![t] = tab'[t]]
      /\ tab'[t].note = tab[t].note /\ tab'[t].pc = "confirm"
      /\ tab'[t].rec = tab[t].rec /\ tab'[t].op = call
  BY <1>1 DEF SendReturns, IInv, TypeOK, PageStates
<1> HIDE DEF call
<1>5. tab[t].pc = "wallet"
  BY DEF SendReturns
<1>6. store' = store /\ (tx'[n] = "none" => tx[n] = "none")
  BY DEF SendReturns, Thrown, world, IInv, TypeOK, NewNotes
<1>7. QED
  BY <1>2, <1>3, <1>4, <1>5, <1>6, PageQuiet DEF Listed

LEMMA SendIsAmbiguousIsQuiet ==
    ASSUME IInv, NEW n \in NewNotes, NEW t \in Tabs, SendIsAmbiguous(t)
    PROVE  Quiet(t, n)
<1>1. tab[t] \in PageStates /\ tab[t].op = NoOp
  BY AwakeTypes DEF SendIsAmbiguous
<1> DEFINE call == Call("mark", NoteOf(t), "sent")
<1>2. NoteOf(t) \in tab[t].note
  BY TheNote DEF SendIsAmbiguous, IInv, AttemptsFit, Fits
<1>3. /\ call.at = "array" /\ call.note = NoteOf(t) /\ call.status = "sent"
  BY DEF Call
<1>4. /\ tab' = [tab EXCEPT ![t] = tab'[t]]
      /\ tab'[t].note = tab[t].note /\ tab'[t].pc = "show"
      /\ tab'[t].rec = tab[t].rec /\ tab'[t].op = call
  BY <1>1 DEF SendIsAmbiguous, IInv, TypeOK, PageStates
<1> HIDE DEF call
<1>5. tab[t].pc = "wallet"
  BY DEF SendIsAmbiguous
<1>6. store' = store /\ (tx'[n] = "none" => tx[n] = "none")
  BY DEF SendIsAmbiguous, Thrown, world, IInv, TypeOK, NewNotes
<1>7. QED
  BY <1>2, <1>3, <1>4, <1>5, <1>6, PageQuiet DEF Listed

LEMMA ConfirmedIsQuiet ==
    ASSUME IInv, NEW n \in NewNotes, NEW t \in Tabs, Confirmed(t)
    PROVE  Quiet(t, n)
<1>1. tab[t] \in PageStates /\ tab[t].op = NoOp
  BY AwakeTypes DEF Confirmed
<1> DEFINE call == Call("mark", NoteOf(t), "confirmed")
<1>2. NoteOf(t) \in tab[t].note
  BY TheNote DEF Confirmed, IInv, AttemptsFit, Fits
<1>3. /\ call.at = "array" /\ call.note = NoteOf(t) /\ call.status = "confirmed"
  BY DEF Call
<1>4. /\ tab' = [tab EXCEPT ![t] = tab'[t]]
      /\ tab'[t].note = tab[t].note /\ tab'[t].pc = "show"
      /\ tab'[t].rec = tab[t].rec /\ tab'[t].op = call
  BY <1>1 DEF Confirmed, IInv, TypeOK, PageStates
<1> HIDE DEF call
<1>6. store' = store /\ (tx'[n] = "none" => tx[n] = "none")
  BY DEF Confirmed, Thrown, world, IInv, TypeOK, NewNotes
<1>7. QED
  BY <1>2, <1>3, <1>4, <1>6, PageQuiet DEF Listed

-----------------------------------------------------------------------------
(* The banner and the environment.                                         *)

LEMMA ReconcileIsQuiet ==
    ASSUME IInv, NEW n \in NewNotes, NEW t \in Tabs, Reconcile(t)
    PROVE  Quiet(t, n)
<1>1. tab[t] \in PageStates /\ tab[t].rec \in Passes /\ tab[t].op = NoOp
  BY AwakeTypes DEF Reconcile, PageStates
<1> DEFINE call == Call("list", CHOOSE k \in Notes : TRUE, "")
<1>2. call.fn = "list"
  BY DEF Call
<1>3. tab' = [tab EXCEPT ![t].rec.at = "work", ![t].op = call]
  BY DEF Reconcile
<1> HIDE DEF call
<1>4. /\ tab' = [tab EXCEPT ![t] = tab'[t]]
      /\ tab'[t].note = tab[t].note /\ tab'[t].pc = tab[t].pc
      /\ tab'[t].rec = [tab[t].rec EXCEPT !.at = "work"] /\ tab'[t].op = call
  BY <1>1, <1>3 DEF IInv, TypeOK, PageStates
<1>5. tab'[t].rec.at = "work" /\ tab'[t].rec.todo = tab[t].rec.todo
  BY <1>1, <1>4 DEF Passes
<1>6. Listed(tab'[t], n) => Listed(tab[t], n)
  BY <1>5, VaultAssumption DEF Listed, NewNotes
<1>7. store' = store /\ tx' = tx
  BY DEF Reconcile, world
<1>8. QED
  BY <1>2, <1>4, <1>6, <1>7, PageQuiet

LEMMA NextEntryIsQuiet ==
    ASSUME IInv, NEW n \in NewNotes, NEW t \in Tabs, NextEntry(t)
    PROVE  Quiet(t, n)
<1>1. tab[t] \in PageStates /\ tab[t].rec \in Passes /\ tab[t].op = NoOp
  BY AwakeTypes DEF NextEntry, PageStates
<1>2. PICK entry \in tab[t].rec.todo :
        tab' = [tab EXCEPT ![t].rec.todo = @ \ {entry},
                  ![t].rec.at = IF Judged(entry) THEN entry.note ELSE "work"]
  BY DEF NextEntry
<1> DEFINE at == IF Judged(entry) THEN entry.note ELSE "work"
           pass == [tab[t].rec EXCEPT !.todo = @ \ {entry}, !.at = at]
<1>3. pass.at \in {entry.note, "work"} /\ pass.todo = tab[t].rec.todo \ {entry}
  BY <1>1 DEF Passes
<1>4. /\ tab' = [tab EXCEPT ![t] = tab'[t]]
      /\ tab'[t].note = tab[t].note /\ tab'[t].pc = tab[t].pc
      /\ tab'[t].rec = pass /\ tab'[t].op = NoOp
  BY <1>1, <1>2 DEF IInv, TypeOK, PageStates, Passes
<1> HIDE DEF pass
<1>5. Listed(tab'[t], n) => Listed(tab[t], n)
  BY <1>2, <1>3, <1>4, VaultAssumption DEF Listed, NewNotes
<1>6. store' = store /\ tx' = tx
  BY DEF NextEntry, world
<1>7. QED
  BY <1>4, <1>5, <1>6, PageQuiet

LEMMA LeafNotFoundIsQuiet ==
    ASSUME IInv, NEW n \in NewNotes, NEW t \in Tabs, LeafNotFound(t)
    PROVE  Quiet(t, n)
<1>1. tab[t] \in PageStates /\ tab[t].rec \in Passes /\ tab[t].op = NoOp
  BY AwakeTypes DEF LeafNotFound, PageStates
<1>2. /\ tab' = [tab EXCEPT ![t] = tab'[t]]
      /\ tab'[t].note = tab[t].note /\ tab'[t].pc = tab[t].pc
      /\ tab'[t].rec = [tab[t].rec EXCEPT !.at = "work"] /\ tab'[t].op = NoOp
  BY <1>1 DEF LeafNotFound, IInv, TypeOK, PageStates
<1>3. tab'[t].rec.at = "work" /\ tab'[t].rec.todo = tab[t].rec.todo
  BY <1>1, <1>2 DEF Passes
<1>4. Listed(tab'[t], n) => Listed(tab[t], n)
  BY <1>3, VaultAssumption DEF Listed, NewNotes
<1>5. store' = store /\ tx' = tx
  BY DEF LeafNotFound, world
<1>6. QED
  BY <1>2, <1>4, <1>5, PageQuiet

LEMMA DiscardIsQuiet ==
    ASSUME IInv, NEW n \in NewNotes, NEW t \in Tabs, Discard(t)
    PROVE  Quiet(t, n)
<1>1. tab[t].op = NoOp
  BY AwakeTypes DEF Discard
<1>2. tab' = tab /\ tx' = tx /\ store'[n] \in {store[n], Absent}
  BY DEF Discard, ClearNote, IInv, TypeOK, NewNotes
<1>3. tab' = [tab EXCEPT ![t] = tab'[t]]
  BY <1>2 DEF IInv, TypeOK
<1>4. QED
  BY <1>1, <1>2, <1>3, PageQuiet

LEMMA OpenIsQuiet ==
    ASSUME IInv, NEW n \in NewNotes, NEW t \in Tabs, Open(t) \/ Close(t)
    PROVE  Quiet(t, n)
<1>1. /\ tab' = [tab EXCEPT ![t] = tab'[t]]
      /\ tab'[t] \in {Closed, [Closed EXCEPT !.open = TRUE]}
      /\ store' = store /\ tx' = tx
  BY DEF Open, Close, world, IInv, TypeOK
<1>2. /\ tab'[t].note = {} /\ tab'[t].pc = "idle" /\ tab'[t].op = NoOp
  BY <1>1, ClosedFits
<1>3. tab'[t].rec.at = "mount" /\ tab'[t].rec.todo = {}
  BY <1>1 DEF Closed
<1>4. ~Listed(tab'[t], n)
  BY <1>3, VaultAssumption DEF Listed, NewNotes
<1>5. QED
  BY <1>1, <1>2, <1>4, PageQuiet

LEMMA ElsewhereIsQuiet ==
    ASSUME NEW n \in NewNotes, NoteInv(n), UNCHANGED <<store, tab>>,
           tx'[n] = "none" => tx[n] = "none"
    PROVE  NoteInv(n)'
<1>1. NotYetMade(n)'
  BY DEF NoteInv, NotYetMade, Stored
<1>2. OneOwner(n)' /\ OwnersOnly(n)' /\ FreshIsUnsent(n)' /\ CopiesAgree(n)'
      /\ SentBeforeMarked(n)'
  BY DEF NoteInv, OneOwner, OwnersOnly, Unmarked, FreshIsUnsent, CopiesAgree,
         SentBeforeMarked, Stored
<1>3. QED
  BY <1>1, <1>2 DEF NoteInv

-----------------------------------------------------------------------------
(* The steps that tell a page something of a note, or write it.            *)

\* What is known of a note said to be sent.
LEMMA SentIsMarked ==
    ASSUME IInv, NEW n \in NewNotes, NoteInv(n), Broadcasted(store[n])
    PROVE  ~Unmarked(n) /\ Stored(n)
<1>1. Stored(n) /\ store[n].status = "sent" /\ store[n].sentAt # Never
  BY DEF Broadcasted, Stored, Absent
<1>2. ASSUME NEW t \in Tabs, Copies(tab[t], n), tab[t].op.copy.status = "unsent"
      PROVE  FALSE
  <2>1. tab[t].op.copy.sentAt = Never
    BY <1>2 DEF Copies, IInv, TypeOK, Timed, Op
  <2>2. QED
    BY <1>1, <1>2, <2>1 DEF NoteInv, CopiesAgree
<1>3. QED
  BY <1>1, <1>2 DEF Unmarked, NoteInv, FreshIsUnsent

LEMMA ListStatus ==
    ASSUME IInv, NEW n \in NewNotes, NoteInv(n), NEW t \in Tabs, List(t)
    PROVE  NoteInv(n)'
<1>1. tab[t] \in PageStates /\ tab[t].rec \in Passes
  BY DEF IInv, TypeOK, PageStates
<1> DEFINE snapshot == {[note |-> k, sentAt |-> store[k].sentAt] :
                          k \in {m \in Notes : Broadcasted(store[m])}}
<1>2. n \in {entry.note : entry \in snapshot} => Broadcasted(store[n])
  OBVIOUS
<1>3. tab' = [tab EXCEPT ![t].op = NoOp, ![t].rec.todo = snapshot]
  BY DEF List
<1> HIDE DEF snapshot
<1>4. /\ tab' = [tab EXCEPT ![t] = tab'[t]]
      /\ tab'[t].note = tab[t].note /\ tab'[t].pc = tab[t].pc
      /\ tab'[t].rec = [tab[t].rec EXCEPT !.todo = snapshot] /\ tab'[t].op = NoOp
  BY <1>1, <1>3 DEF IInv, TypeOK, PageStates
<1>5. tab'[t].rec.at = tab[t].rec.at /\ tab'[t].rec.todo = snapshot
  BY <1>1, <1>4 DEF Passes
<1>6. store' = store /\ tx' = tx
  BY DEF List, world
<1>7. CASE Listed(tab'[t], n) => Listed(tab[t], n)
  BY <1>4, <1>6, <1>7, PageQuiet, QuietKeeps
<1>8. CASE Listed(tab'[t], n) /\ ~Listed(tab[t], n)
  <2>1. ~Unmarked(n) /\ Stored(n)
    BY <1>2, <1>5, <1>8, SentIsMarked DEF Listed
  <2>2. \A u \in Tabs : /\ u # t => tab'[u] = tab[u]
                        /\ tab'[u].note = tab[u].note /\ tab'[u].pc = tab[u].pc
                        /\ Marks(tab'[u], n) => Marks(tab[u], n) /\ tab'[u] = tab[u]
    BY <1>4 DEF Marks, IInv, TypeOK
  <2>3. OneOwner(n)' /\ SentBeforeMarked(n)'
    BY <2>2 DEF NoteInv, OneOwner, SentBeforeMarked
  <2>4. tx[n] # "none"
    BY <2>1 DEF NoteInv, NotYetMade
  <2>5. \A u \in Tabs : /\ Fresh(tab'[u], n) => Fresh(tab[u], n)
                        /\ Copies(tab'[u], n) => Copies(tab[u], n) /\ tab'[u] = tab[u]
    BY <2>2 DEF Fresh, Copies
  <2>6. ~Unmarked(n)'
    BY <1>6, <2>1, <2>5 DEF Unmarked
  <2>7. FreshIsUnsent(n)' /\ CopiesAgree(n)'
    BY <1>6, <2>5 DEF NoteInv, FreshIsUnsent, CopiesAgree, Stored
  <2>8. QED
    BY <1>6, <2>3, <2>4, <2>6, <2>7 DEF NoteInv, NotYetMade, OwnersOnly
<1>9. QED
  BY <1>7, <1>8

LEMMA LeafFoundStatus ==
    ASSUME IInv, NEW n \in NewNotes, NoteInv(n), NEW t \in Tabs, LeafFound(t)
    PROVE  NoteInv(n)'
<1>1. tab[t] \in PageStates /\ tab[t].rec \in Passes /\ tab[t].op = NoOp
  BY AwakeTypes DEF LeafFound, PageStates
<1> DEFINE call == Call("mark", tab[t].rec.at, "confirmed")
<1>2. /\ call.at = "array" /\ call.note = tab[t].rec.at
      /\ call.status = "confirmed"
  BY DEF Call
<1>3. tab' = [tab EXCEPT ![t].rec.at = "work", ![t].op = call]
  BY DEF LeafFound
<1> HIDE DEF call
<1>4. /\ tab' = [tab EXCEPT ![t] = tab'[t]]
      /\ tab'[t].note = tab[t].note /\ tab'[t].pc = tab[t].pc
      /\ tab'[t].rec = [tab[t].rec EXCEPT !.at = "work"] /\ tab'[t].op = call
  BY <1>1, <1>3 DEF IInv, TypeOK, PageStates
<1>5. tab'[t].rec.at = "work" /\ tab'[t].rec.todo = tab[t].rec.todo
  BY <1>1, <1>4 DEF Passes
<1>6. Listed(tab'[t], n) => Listed(tab[t], n)
  BY <1>5, VaultAssumption DEF Listed, NewNotes
<1>7. store' = store /\ tx' = tx
  BY DEF LeafFound, world
<1>8. /\ \A u \in Tabs \ {t} : tab'[u] = tab[u]
      /\ Fresh(tab'[t], n) => Fresh(tab[t], n)
      /\ ~Copies(tab'[t], n)
  BY <1>2, <1>4 DEF Fresh, Marks, Copies, IInv, TypeOK
<1>9. CASE n # tab[t].rec.at
  <2>1. ~Marks(tab'[t], n)
    BY <1>2, <1>4, <1>9 DEF Marks
  <2>2. Quiet(t, n)
    BY <1>4, <1>6, <1>7, <1>8, <2>1 DEF Quiet
  <2>3. QED
    BY <2>2, QuietKeeps
<1>10. CASE n = tab[t].rec.at
  <2>1. Listed(tab[t], n)
    BY <1>10 DEF Listed
  <2>2. ~Unmarked(n) /\ tx[n] # "none"
    BY <2>1 DEF NoteInv, OwnersOnly, NotYetMade
  <2>3. ~Unmarked(n)'
    BY <1>7, <1>8, <2>2 DEF Unmarked
  <2>4. \A u \in Tabs : ~Fresh(tab[u], n) /\ ~Fresh(tab'[u], n)
    BY <1>8, <2>2 DEF Unmarked
  <2>5. OneOwner(n)' /\ SentBeforeMarked(n)'
    BY <1>4, <1>8, <2>4 DEF NoteInv, OneOwner, SentBeforeMarked, Fresh
  <2>6. FreshIsUnsent(n)' /\ CopiesAgree(n)'
    BY <1>7, <1>8, <2>4 DEF NoteInv, FreshIsUnsent, CopiesAgree, Stored
  <2>7. QED
    BY <1>7, <2>2, <2>3, <2>5, <2>6 DEF NoteInv, NotYetMade, OwnersOnly
<1>11. QED
  BY <1>9, <1>10

LEMMA ReadOneStatus ==
    ASSUME IInv, NEW n \in NewNotes, NoteInv(n), NEW t \in Tabs, ReadOne(t)
    PROVE  NoteInv(n)'
<1>1. Op(t) \in Calls /\ Op(t) = tab[t].op /\ Op(t).fn = "mark"
  BY CallTypes DEF ReadOne
<1>2. store' = store /\ tx' = tx
  BY DEF ReadOne, world
<1>3. CASE ~Stored(Op(t).note)
  <2>1. tab' = [tab EXCEPT ![t].op = tab'[t].op] /\ tab'[t].op = NoOp
    BY <1>3 DEF ReadOne, SetOp, IInv, TypeOK, PageStates
  <2>2. QED
    BY <1>2, <2>1, VaultQuiet, QuietKeeps
<1>4. CASE Stored(Op(t).note)
  <2>1. /\ tab' = [tab EXCEPT ![t].op = tab'[t].op]
        /\ tab'[t].op = [Op(t) EXCEPT !.at = "set", !.copy = store[Op(t).note]]
    BY <1>4 DEF ReadOne, SetOp, IInv, TypeOK, PageStates
  <2>2. /\ \A u \in Tabs \ {t} : tab'[u] = tab[u]
        /\ tab'[t].note = tab[t].note /\ tab'[t].pc = tab[t].pc
        /\ tab'[t].rec = tab[t].rec
    BY <2>1 DEF IInv, TypeOK, PageStates
  <2>3. /\ tab'[t].op.fn = "mark" /\ tab'[t].op.note = Op(t).note
        /\ tab'[t].op.status = Op(t).status
        /\ tab'[t].op.copy = store[Op(t).note]
    BY <1>1, <2>1 DEF Calls
  <2>4. Op(t) # NoOp
    BY <1>1, CallsAreNot
  <2>5. /\ Marks(tab'[t], n) => Marks(tab[t], n)
        /\ Fresh(tab'[t], n) => Fresh(tab[t], n)
        /\ Listed(tab'[t], n) => Listed(tab[t], n)
    BY <1>1, <2>2, <2>3, <2>4 DEF Marks, Fresh, Listed
  <2>6. CASE n # Op(t).note
    <3>1. ~Copies(tab'[t], n)
      BY <2>3, <2>6 DEF Copies, Marks
    <3>2. Quiet(t, n)
      BY <1>2, <2>2, <2>5, <3>1 DEF Quiet
    <3>3. QED
      BY <3>2, QuietKeeps
  <2>7. CASE n = Op(t).note
    <3>1. tab'[t].op.copy = store[n] /\ Stored(n)
      BY <1>4, <2>3, <2>7
    <3>2. Unmarked(n)' => Unmarked(n)
      BY <1>2, <2>2, <2>5, <3>1 DEF Unmarked
    <3>3. OneOwner(n)' /\ NotYetMade(n)' /\ OwnersOnly(n)'
      BY <1>2, <2>2, <2>5, <3>2
      DEF NoteInv, OneOwner, NotYetMade, OwnersOnly, Stored
    <3>4. FreshIsUnsent(n)' /\ SentBeforeMarked(n)'
      BY <1>2, <2>2, <2>5 DEF NoteInv, FreshIsUnsent, SentBeforeMarked
    <3>5. CopiesAgree(n)'
      <4>1. \A u \in Tabs : Copies(tab'[u], n) =>
              tab'[u].op.copy.sentAt = store[n].sentAt
        BY <2>2, <3>1 DEF NoteInv, CopiesAgree
      <4>2. QED
        BY <1>2, <4>1 DEF CopiesAgree
    <3>6. QED
      BY <3>3, <3>4, <3>5 DEF NoteInv
  <2>8. QED
    BY <2>6, <2>7
<1>5. QED
  BY <1>3, <1>4

\* What the status of a note may do in a step.
Advances(n) ==
    Stored(n) /\ Stored(n)' =>
        /\ Rank[store'[n].status] >= Rank[store[n].status]
        /\ store[n].sentAt # Never => store'[n].sentAt = store[n].sentAt

LEMMA KeptAdvances ==
    ASSUME IInv, NEW n \in NewNotes, store'[n] \in {store[n], Absent}
    PROVE  Advances(n)
<1>1. Stored(n) => Rank[store[n].status] \in Nat
  BY DEF IInv, TypeOK, Stored, NewNotes, Entries, Rank
<1>2. QED
  BY <1>1 DEF Advances, Stored

LEMMA WriteOneStatus ==
    ASSUME IInv, NEW n \in NewNotes, NoteInv(n), NEW t \in Tabs, WriteOne(t)
    PROVE  NoteInv(n)' /\ Advances(n)
<1>1. Op(t) \in Calls /\ Op(t).at = "set" /\ Op(t) = tab[t].op
  BY CallTypes DEF WriteOne
<1>2. tab' = [tab EXCEPT ![t].op = tab'[t].op] /\ tab'[t].op = NoOp /\ tx' = tx
  BY DEF WriteOne, SetOp, world, IInv, TypeOK, PageStates
<1>3. /\ Op(t).note \in Notes /\ Op(t).copy \in Entries /\ Op(t).fn = "mark"
      /\ Op(t).status \in {"sent", "confirmed"} /\ Op(t) # NoOp
  BY <1>1, CallsAreNot DEF Calls, Migrating
<1>4. CASE store'[n] = store[n]
  BY <1>2, <1>4, VaultQuiet, QuietKeeps, KeptAdvances
<1>5. CASE store'[n] # store[n]
  <2> DEFINE copy == tab[t].op.copy
             status == tab[t].op.status
  <2>1. /\ n = Op(t).note /\ store'[n] = Marked(copy, status)
    BY <1>1, <1>5 DEF WriteOne, IInv, TypeOK, NewNotes
  <2>2. Marks(tab[t], n) /\ Copies(tab[t], n)
    BY <1>1, <1>3, <2>1 DEF Marks, Copies
  <2>3. /\ store'[n].status = status
        /\ copy.sentAt # Never => store'[n].sentAt = copy.sentAt
    BY <2>1 DEF Marked
  <2>4. /\ \A u \in Tabs \ {t} : tab'[u] = tab[u]
        /\ tab'[t].note = tab[t].note /\ tab'[t].pc = tab[t].pc
        /\ tab'[t].rec = tab[t].rec
        /\ ~Marks(tab'[t], n) /\ ~Copies(tab'[t], n)
        /\ Listed(tab'[t], n) => Listed(tab[t], n)
    BY <1>2 DEF IInv, TypeOK, PageStates, Marks, Copies, Listed
  <2>5. status \in {"sent", "confirmed"} /\ copy \in Entries /\ Timed(copy)
    BY <1>1, <1>3 DEF IInv, TypeOK
  <2>6. \A u \in Tabs : Unmarked(n) /\ Marks(tab[u], n) => u = t
    BY <2>2 DEF NoteInv, OwnersOnly, OneOwner
  <2>7. \A u \in Tabs : ~Fresh(tab'[u], n)
    <3>1. SUFFICES ASSUME NEW u \in Tabs, Fresh(tab'[u], n)
                   PROVE  FALSE
      OBVIOUS
    <3>2. CASE u = t
      BY <2>2, <2>4, <3>1, <3>2 DEF Fresh, NoteInv, SentBeforeMarked
    <3>3. CASE u # t
      <4>1. Fresh(tab[u], n)
        BY <2>4, <3>1, <3>3
      <4>2. Unmarked(n)
        BY <4>1 DEF Unmarked
      <4>3. n \in tab[t].note
        BY <2>2, <4>2 DEF NoteInv, OwnersOnly
      <4>4. CASE n \in tab[u].note
        BY <3>3, <4>3, <4>4 DEF NoteInv, OneOwner
      <4>5. CASE Marks(tab[u], n)
        BY <2>6, <3>3, <4>2, <4>5
      <4>6. QED
        BY <4>1, <4>4, <4>5 DEF Fresh
    <3>4. QED
      BY <3>2, <3>3
  <2>8. ~Fresh(tab[t], n) => status # "sent"
    BY <2>2 DEF Fresh
  <2>9. OneOwner(n)' /\ SentBeforeMarked(n)' /\ FreshIsUnsent(n)'
    BY <2>4, <2>7 DEF NoteInv, OneOwner, SentBeforeMarked, FreshIsUnsent
  <2>10. NotYetMade(n)'
    BY <1>2, <2>2 DEF NoteInv, NotYetMade
  <2>11. OwnersOnly(n)'
    <3>1. Unmarked(n)' => Unmarked(n)
      BY <2>3, <2>4, <2>5, <2>7 DEF Unmarked
    <3>2. QED
      BY <2>4, <3>1 DEF NoteInv, OwnersOnly
  <2>12. CopiesAgree(n)'
    <3>1. CASE copy.sentAt # Never
      <4>1. \A u \in Tabs : Copies(tab'[u], n) =>
              tab'[u].op.copy.sentAt = copy.sentAt
        BY <2>2, <2>4 DEF NoteInv, CopiesAgree
      <4>2. QED
        BY <2>3, <3>1, <4>1 DEF CopiesAgree
    <3>2. CASE copy.sentAt = Never
      <4>1. now < Never /\ now \in Nat
        BY VaultAssumption DEF IInv, TypeOK, Never
      <4>2. copy.status = "unsent"
        BY <2>5, <3>2, <4>1 DEF Timed
      <4>3. Unmarked(n)
        BY <2>2, <4>2 DEF Unmarked
      <4>4. \A u \in Tabs : ~Copies(tab'[u], n)
        BY <2>4, <2>6, <4>3 DEF Copies
      <4>5. QED
        BY <4>4 DEF CopiesAgree
    <3>3. QED
      BY <3>1, <3>2
  <2>13. Advances(n)
    <3>1. SUFFICES ASSUME Stored(n)
                   PROVE  /\ Rank[store'[n].status] >= Rank[store[n].status]
                          /\ store[n].sentAt # Never =>
                               store'[n].sentAt = store[n].sentAt
      BY DEF Advances
    <3>2. store[n].sentAt = copy.sentAt
      BY <2>2, <3>1 DEF NoteInv, CopiesAgree
    <3>3. store[n].status \in {"unsent", "sent", "confirmed"}
      BY <3>1 DEF IInv, TypeOK, Stored, NewNotes, Entries
    <3>4. status = "sent" => store[n].status = "unsent"
      <4>1. status = "sent" => Fresh(tab[t], n)
        BY <2>2 DEF Fresh
      <4>2. QED
        BY <3>3, <4>1 DEF NoteInv, FreshIsUnsent
    <3>5. Rank[store'[n].status] >= Rank[store[n].status]
      BY <2>3, <2>5, <3>3, <3>4 DEF Rank
    <3>6. QED
      BY <2>3, <3>2, <3>5
  <2>14. QED
    BY <2>9, <2>10, <2>11, <2>12, <2>13 DEF NoteInv
<1>6. QED
  BY <1>4, <1>5

LEMMA StageAndSendStatus ==
    ASSUME IInv, NEW n \in NewNotes, NoteInv(n), NEW t \in Tabs, StageAndSend(t)
    PROVE  NoteInv(n)' /\ Advances(n)
<1>1. tab[t] \in PageStates /\ tab[t].op = NoOp
  BY AwakeTypes DEF StageAndSend
<1>2. PICK k \in Notes :
        /\ tx[k] = "none"
        /\ store' = [store EXCEPT ![k] = [status |-> "unsent", sentAt |-> Never]]
        /\ tx' = [tx EXCEPT ![k] = "asked"]
        /\ tab' = [tab EXCEPT ![t].pc = "wallet", ![t].note = {k}]
  BY DEF StageAndSend
<1>3. /\ \A u \in Tabs \ {t} : tab'[u] = tab[u]
      /\ tab'[t].note = {k} /\ tab'[t].op = NoOp /\ tab'[t].rec = tab[t].rec
  BY <1>1, <1>2 DEF IInv, TypeOK, PageStates
<1>4. /\ ~Marks(tab'[t], n) /\ ~Copies(tab'[t], n)
      /\ Listed(tab'[t], n) => Listed(tab[t], n)
  BY <1>3 DEF Marks, Copies, Listed
<1>5. CASE n # k
  <2>1. store'[n] = store[n] /\ tx'[n] = tx[n]
    BY <1>2, <1>5 DEF IInv, TypeOK, NewNotes
  <2>2. \A u \in Tabs :
          /\ n \in tab'[u].note => n \in tab[u].note /\ tab'[u] = tab[u]
          /\ Marks(tab'[u], n) => Marks(tab[u], n) /\ tab'[u] = tab[u]
          /\ Listed(tab'[u], n) => Listed(tab[u], n)
    BY <1>3, <1>4, <1>5
  <2>3. \A u \in Tabs :
          /\ Fresh(tab'[u], n) => Fresh(tab[u], n)
          /\ Copies(tab'[u], n) => Copies(tab[u], n) /\ tab'[u] = tab[u]
    BY <2>2 DEF Fresh, Copies
  <2>4. Unmarked(n)' => Unmarked(n)
    BY <2>1, <2>3 DEF Unmarked
  <2>5. OneOwner(n)' /\ NotYetMade(n)' /\ SentBeforeMarked(n)'
    BY <2>1, <2>2 DEF NoteInv, OneOwner, NotYetMade, SentBeforeMarked, Stored
  <2>6. OwnersOnly(n)'
    BY <2>2, <2>4 DEF NoteInv, OwnersOnly
  <2>7. FreshIsUnsent(n)' /\ CopiesAgree(n)'
    BY <2>1, <2>3 DEF NoteInv, FreshIsUnsent, CopiesAgree, Stored
  <2>8. QED
    BY <2>1, <2>5, <2>6, <2>7, KeptAdvances DEF NoteInv
<1>6. CASE n = k
  <2>1. /\ ~Stored(n) /\ store'[n].status = "unsent" /\ tx'[n] = "asked"
        /\ \A u \in Tabs : /\ n \notin tab[u].note
                            /\ ~Marks(tab[u], n) /\ ~Listed(tab[u], n)
    BY <1>2, <1>6 DEF NoteInv, NotYetMade, IInv, TypeOK
  <2>2. \A u \in Tabs : /\ n \in tab'[u].note => u = t
                        /\ ~Marks(tab'[u], n) /\ ~Listed(tab'[u], n)
                        /\ ~Copies(tab'[u], n)
    BY <1>3, <1>4, <2>1 DEF Copies
  <2>3. OneOwner(n)' /\ NotYetMade(n)' /\ OwnersOnly(n)' /\ FreshIsUnsent(n)'
        /\ CopiesAgree(n)' /\ SentBeforeMarked(n)'
    BY <2>1, <2>2 DEF OneOwner, NotYetMade, OwnersOnly, FreshIsUnsent, CopiesAgree,
                      SentBeforeMarked
  <2>4. QED
    BY <2>1, <2>3 DEF NoteInv, Advances
<1>7. QED
  BY <1>5, <1>6

-----------------------------------------------------------------------------
(* The theorem.                                                            *)

StatusInv == IInv /\ \A n \in NewNotes : NoteInv(n)

\* One note, through any step of a page.
LEMMA PageStatus ==
    ASSUME IInv, NEW n \in NewNotes, NoteInv(n), NEW t \in Tabs,
           Page(t) \/ Open(t) \/ Close(t)
    PROVE  NoteInv(n)' /\ Advances(n)
<1>1. ASSUME Quiet(t, n)
      PROVE  NoteInv(n)' /\ Advances(n)
  BY <1>1, QuietKeeps, KeptAdvances DEF Quiet
<1>2. ASSUME UNCHANGED store, NoteInv(n)'
      PROVE  NoteInv(n)' /\ Advances(n)
  BY <1>2, KeptAdvances
<1>3. CASE Vault(t)
  BY <1>1, <1>2, <1>3, ReadingIsQuiet, ListStatus, ReadOneStatus, WriteOneStatus
  DEF Vault, List, ReadOne
<1>4. CASE Deposit(t)
  BY <1>1, <1>4, HandleDepositIsQuiet, BuildFailsIsQuiet, StageAndSendStatus,
     SendReturnsIsQuiet, WalletRejectsIsQuiet, PreflightFailsIsQuiet,
     SendIsAmbiguousIsQuiet, ConfirmedIsQuiet, ConfirmationUnknownIsQuiet,
     ShowNoteIsQuiet, NoteDoneIsQuiet, AnotherDepositIsQuiet
  DEF Deposit
<1>5. CASE Banner(t)
  BY <1>1, <1>2, <1>5, ReconcileIsQuiet, NextEntryIsQuiet, LeafFoundStatus,
     LeafNotFoundIsQuiet, DiscardIsQuiet
  DEF Banner, LeafFound
<1>6. CASE Open(t) \/ Close(t)
  BY <1>1, <1>6, OpenIsQuiet
<1>7. QED
  BY <1>3, <1>4, <1>5, <1>6 DEF Page

LEMMA InitStatus == Init => StatusInv
<1>1. SUFFICES ASSUME Init, NEW n \in NewNotes
               PROVE  NoteInv(n)
  BY InitIInv DEF StatusInv
<1>2. \A t \in Tabs : /\ tab[t].note = {} /\ tab[t].op = NoOp
                      /\ tab[t].rec.at = "mount" /\ tab[t].rec.todo = {}
  BY <1>1 DEF Init, Closed
<1>3. \A t \in Tabs : /\ n \notin tab[t].note /\ ~Marks(tab[t], n)
                      /\ ~Listed(tab[t], n)
  BY <1>2, VaultAssumption DEF Marks, Listed, NewNotes
<1>4. store[n] = Absent
  BY <1>1 DEF Init, NewNotes
<1>5. QED
  BY <1>3, <1>4
  DEF NoteInv, OneOwner, NotYetMade, OwnersOnly, FreshIsUnsent, CopiesAgree,
      SentBeforeMarked, Unmarked, Fresh, Copies, Stored, Absent

LEMMA NextStatus ==
    StatusInv /\ [Next]_vars => StatusInv' /\ \A n \in NewNotes : Advances(n)
<1>1. SUFFICES ASSUME StatusInv, [Next]_vars
               PROVE  StatusInv' /\ \A n \in NewNotes : Advances(n)
  OBVIOUS
<1>2. SUFFICES ASSUME NEW n \in NewNotes
               PROVE  NoteInv(n)' /\ Advances(n)
  BY <1>1, NextIInv DEF StatusInv
<1>3. IInv /\ NoteInv(n)
  BY <1>1 DEF StatusInv
<1>4. ASSUME NEW t \in Tabs, Page(t) \/ Open(t) \/ Close(t)
      PROVE  NoteInv(n)' /\ Advances(n)
  BY <1>3, <1>4, PageStatus
<1>5. ASSUME NEW k \in Notes, Cluster(k)
      PROVE  NoteInv(n)' /\ Advances(n)
  <2>1. UNCHANGED <<store, tab>>
    BY <1>5 DEF Cluster
  <2>2. tx'[n] = "none" => tx[n] = "none"
    BY <1>3, <1>5 DEF Cluster, Broadcast, Execute, IInv, TypeOK, NewNotes
  <2>3. QED
    BY <1>3, <2>1, <2>2, ElsewhereIsQuiet, KeptAdvances
<1>6. CASE Tick \/ UNCHANGED vars
  BY <1>3, <1>6, ElsewhereIsQuiet, KeptAdvances DEF Tick, vars
<1>7. QED
  BY <1>1, <1>4, <1>5, <1>6 DEF Next

\* Of a note made by this build no tab undoes what another has learnt: the
\* status goes from unsent to sent to confirmed only, and the time from which
\* reconciliation waits is that of the first of these moves (markNoteStatus,
\* which reads the note, and then writes it with another status).
THEOREM StatusAdvances == Spec => StatusOnlyAdvances
<1>1. StatusInv /\ [Next]_vars =>
        [\A n \in Notes \ OldNotes :
           (Stored(n) /\ Stored(n)')
             => /\ Rank[store'[n].status] >= Rank[store[n].status]
                /\ store[n].sentAt # Never => store'[n].sentAt = store[n].sentAt]_vars
  BY NextStatus DEF NewNotes, Advances
<1>2. StatusInv /\ [Next]_vars => StatusInv'
  BY NextStatus
<1>3. QED
  BY <1>1, <1>2, InitStatus, PTL DEF Spec, StatusOnlyAdvances
=============================================================================
