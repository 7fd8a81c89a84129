-------------------------------- MODULE Pool --------------------------------
(***************************************************************************)
(* One SolnadoCash pool: the on-chain program (programs/solnadocash/src)   *)
(* with the lamports of every account it touches, and around it what the   *)
(* program does not control: clients that prove notes, wallets that send   *)
(* lamports anywhere, and the cluster's rent parameter.                    *)
(*                                                                         *)
(* A transaction is atomic, so each instruction is one action; a failing   *)
(* one changes nothing and is simply not enabled. Abstractions:            *)
(*   - Poseidon is collision free: a note stands for its commitment, and a *)
(*     root is the tree's non-zero leaves by position (RootOf). Module     *)
(*     MerkleTree shows that the incremental insertion computes that root. *)
(*   - Groth16 is sound and complete: a proof record is accepted exactly   *)
(*     for a statement the circuit can satisfy.                            *)
(***************************************************************************)
EXTENDS Fees, Sequences, FiniteSets, Functions

CONSTANTS
    Wallets,              \* keys that sign: system accounts without data
    Admin,                \* the wallet that creates the pool
    VaultPda, PoolPda,    \* the two program-owned addresses of the pool
    Notes, Nullifiers,    \* notes, and the nullifiers they hash
    NullifierOf,          \* two notes may share a nullifier
    ZeroLeaf,             \* the commitment of 32 zero bytes
    NonCanonicalLeaf,     \* a commitment that is not below the field prime
    NoRoot,               \* an unused slot of the root history
    Denomination,
    RootHistorySize,      \* 256 in the code
    SaturationThreshold,  \* 950000 in the code
    TreeCapacity,         \* 2^20 in the code
    RentRates,            \* rent rates the cluster may set
    InitialBalance,       \* lamports of each wallet at the start
    Treasuries, Relayers, Recipients,           \* accounts to try
    FeeCeilings, FeesTaken,                     \* relayer fees to try
    Senders, TransferTargets, TransferAmounts,  \* plain transfers to try
    MaxProofs             \* bound on the proofs ever made

VARIABLES
    initialized,  \* the pool and vault accounts exist
    paused,       \* is_paused
    treasury,     \* pool.treasury
    leaves,       \* commitments in insertion order; next_index = Len(leaves)
    rootHistory,  \* root_history, a ring
    rootIndex,    \* current_root_index
    lamports,     \* lamports of every account
    spent,        \* nullifier PDAs that hold a NullifierAccount
    proofs,       \* proofs clients have made
    rentRate,     \* the Rent sysvar
    vaultBase     \* history: lamports of the vault when it was created

vars == <<initialized, paused, treasury, leaves, rootHistory, rootIndex,
          lamports, spent, proofs, rentRate, vaultBase>>

-----------------------------------------------------------------------------
(* A nullifier hash is 32 bytes, and the proof only fixes it modulo the     *)
(* field prime: <<f, 0>> is the canonical encoding of nullifier f, <<f, 1>> *)
(* the same field element plus the prime. Each encoding has a PDA of its    *)
(* own, and stands here for that address.                                   *)
HashBytes == Nullifiers \X {0, 1}

\* Mutant of IsCanonicalFr: any 32 bytes pass (C-1).
AnyEncoding(hash) == TRUE

IsCanonicalFr(hash) == hash[2] = 0

Accounts == Wallets \cup {VaultPda, PoolPda} \cup HashBytes

\* Addresses that are still plain system accounts when a pool is created.
SystemAccounts == Accounts \ {VaultPda, PoolPda}

VaultSpace     == 8         \* VaultAccount {}: the discriminator alone
PoolSpace      == 8 + 8968
NullifierSpace == 8 + 72

\* Data length of an account, given which accounts exist.
Space(a, exists, nullified) ==
    CASE a = VaultPda /\ exists -> VaultSpace
      [] a = PoolPda /\ exists  -> PoolSpace
      [] a \in nullified        -> NullifierSpace
      [] OTHER                  -> 0

Commitments == Notes \cup {ZeroLeaf, NonCanonicalLeaf}

\* The root of the tree holding these leaves, every other leaf being zero.
RootOf(ls) == [i \in {j \in DOMAIN ls : ls[j] # ZeroLeaf} |-> ls[i]]

EmptyRoot == RootOf(<<>>)

CurrentRoot == rootHistory[rootIndex]

IsKnownRoot(root) ==
    root # NoRoot /\ \E k \in 0 .. RootHistorySize - 1 : rootHistory[k] = root

\* A root no pool ever had: the tree that holds only the given note.
ForgedRoot(n) == RootOf(<<n>>)

-----------------------------------------------------------------------------
(* Assumptions on the constants *)

ASSUME AccountsAssumption ==
    /\ IsFiniteSet(Wallets)
    /\ Admin \in Wallets
    /\ VaultPda # PoolPda
    /\ {VaultPda, PoolPda} \cap (Wallets \cup HashBytes) = {}
    /\ Wallets \cap HashBytes = {}

ASSUME NotesAssumption ==
    /\ IsFiniteSet(Nullifiers)
    /\ NullifierOf \in [Notes -> Nullifiers]
    /\ ZeroLeaf \notin Notes /\ NonCanonicalLeaf \notin Notes
    /\ ZeroLeaf # NonCanonicalLeaf

ASSUME SizesAssumption ==
    /\ Denomination \in Nat /\ Denomination >= TreasuryFeeDivisor
    /\ RootHistorySize \in Nat \ {0}
    /\ SaturationThreshold \in Nat /\ TreeCapacity \in Nat
    /\ SaturationThreshold < TreeCapacity
    /\ RentRates \subseteq Nat
    /\ InitialBalance \in [Wallets -> Nat]
    /\ FeeCeilings \subseteq Nat /\ FeesTaken \subseteq Nat
    /\ MaxProofs \in Nat

ASSUME ChoicesAssumption ==
    /\ Treasuries \subseteq SystemAccounts
    /\ Relayers \subseteq Wallets
    /\ Recipients \subseteq Accounts
    /\ Senders \subseteq Wallets
    /\ TransferTargets \subseteq Accounts
    /\ TransferAmounts \subseteq Nat

\* The mark of an unused slot is no tree.
ASSUME RootsAssumption ==
    \A S \in SUBSET (1 .. SaturationThreshold) : NoRoot \notin [S -> Notes]

-----------------------------------------------------------------------------
(* Ledger *)

Move(ledger, from, to, amount) ==
    [ledger EXCEPT ![from] = @ - amount, ![to] = @ + amount]

Credit(ledger, a, amount) == [ledger EXCEPT ![a] = @ + amount]

\* The runtime's rent check on every account the transaction may write.
LedgerRentOk(post, existsPost, spentPost) ==
    \A a \in Accounts :
        post[a] # lamports[a] =>
            RentStateOk(rentRate,
                        lamports[a], Space(a, initialized, spent),
                        post[a], Space(a, existsPost, spentPost))

\* What a payer adds to bring account a to the rent minimum of its new size.
\* Both Anchor's init and process_withdraw accept an address that somebody
\* funded before it was created.
Shortfall(a, space) ==
    LET minimum == MinimumBalance(rentRate, space)
    IN IF lamports[a] < minimum THEN minimum - lamports[a] ELSE 0

-----------------------------------------------------------------------------
(* initialize_pool *)

InitializePool(tre) ==
    LET forPool  == Shortfall(PoolPda, PoolSpace)
        forVault == Shortfall(VaultPda, VaultSpace)
        post     == Move(Move(lamports, Admin, PoolPda, forPool),
                         Admin, VaultPda, forVault)
    IN /\ ~initialized
       /\ tre \in SystemAccounts
       /\ Denomination >= 500
       /\ WorstCaseUserAmount(Denomination) >= MinimumBalance(rentRate, 0)
       /\ lamports[Admin] >= forPool + forVault
       /\ LedgerRentOk(post, TRUE, spent)
       /\ initialized' = TRUE
       /\ paused' = FALSE
       /\ treasury' = tre
       /\ leaves' = <<>>
       /\ rootHistory' = [k \in 0 .. RootHistorySize - 1 |->
                             IF k = 0 THEN EmptyRoot ELSE NoRoot]
       /\ rootIndex' = 0
       /\ lamports' = post
       /\ vaultBase' = post[VaultPda]
       /\ UNCHANGED <<spent, proofs, rentRate>>

-----------------------------------------------------------------------------
(* deposit *)

\* Pool::insert. Poseidon rejects a leaf that is not below the field prime.
InsertAccepted(leaf) ==
    /\ ~paused
    /\ Len(leaves) < SaturationThreshold
    /\ Len(leaves) < TreeCapacity
    /\ leaf # NonCanonicalLeaf

\* Mutants of NextRootIndex: the ring is not wrapped; slot 0 is never reused.
NextRootIndexUnwrapped == rootIndex + 1

NextRootIndexSkipsZero == (rootIndex % (RootHistorySize - 1)) + 1

NextRootIndex == (rootIndex + 1) % RootHistorySize

Insert(leaf) ==
    /\ InsertAccepted(leaf)
    /\ leaves' = Append(leaves, leaf)
    /\ rootHistory' = [rootHistory EXCEPT ![NextRootIndex] = RootOf(leaves')]
    /\ rootIndex' = NextRootIndex

Deposit(depositor, commitment) ==
    /\ initialized
    /\ Insert(commitment)
    /\ lamports[depositor] >= Denomination
    /\ lamports' = Move(lamports, depositor, VaultPda, Denomination)
    /\ LedgerRentOk(lamports', initialized, spent)
    /\ UNCHANGED <<initialized, paused, treasury, spent, proofs, rentRate,
                   vaultBase>>

-----------------------------------------------------------------------------
(* withdraw: process_withdraw, in the order of its checks. "p" is the proof  *)
(* with the public inputs it was made for; "hash" is the nullifier hash the  *)
(* instruction carries, "relayer" and "recipient" the accounts it passes,    *)
(* "feeMax" and "taken" its fee arguments.                                   *)

\* No payee may be the vault or the nullifier account, nor the recipient the
\* pool account.
AccountsDistinct(hash, relayer, recipient) ==
    /\ VaultPda \notin {recipient, treasury, relayer}
    /\ hash \notin {recipient, treasury, relayer}
    /\ recipient # PoolPda

\* Mutant of RootAccepted: only the newest root is accepted.
OnlyCurrentRoot(root) == root # EmptyRoot /\ root = CurrentRoot

RootAccepted(root) == root # EmptyRoot /\ IsKnownRoot(root)

\* Mutant of NotSpent: the double-spend check is missing.
SpentUnchecked(hash) == TRUE

NotSpent(hash) == hash \notin spent

\* The circuit: the note is a leaf under the root, the public nullifier hash
\* is its nullifier modulo the field prime.
Groth16Verifies(p, hash) ==
    /\ \E i \in DOMAIN p.root : p.root[i] = p.note
    /\ hash[1] = NullifierOf[p.note]

\* The recomputed Poseidon(relayer, feeMax, recipient) is the one proved.
\* Mutant of CommitmentMatches: the recipient is not bound by the proof.
RecipientUnbound(p, relayer, feeMax, recipient) ==
    p.relayer = relayer /\ p.feeMax = feeMax

CommitmentMatches(p, relayer, feeMax, recipient) ==
    /\ p.relayer = relayer
    /\ p.feeMax = feeMax
    /\ p.recipient = recipient

\* The nullifier account after the relayer has funded it.
NullifierFunded(hash, relayer) ==
    Move(lamports, relayer, hash, Shortfall(hash, NullifierSpace))

VaultGuard(ledger) ==
    ledger[VaultPda] >= Denomination + MinimumBalance(rentRate, VaultSpace)

TreasuryIsPayee(relayer, recipient) == treasury \in {relayer, recipient}

FeePaid(ledger, relayer, recipient) ==
    RoutedFee(TreasuryFee(Denomination), ledger[treasury],
              Space(treasury, initialized, spent),
              TreasuryIsPayee(relayer, recipient), rentRate)

\* A fee that is not paid to the treasury goes to the recipient.
\* Mutant of AmountPaid: a redirected fee is paid to nobody.
FeeLost(ledger, relayer, recipient, taken) == UserAmount(Denomination, taken)

AmountPaid(ledger, relayer, recipient, taken) ==
    Denomination - taken - FeePaid(ledger, relayer, recipient)

PaidOut(ledger, relayer, recipient, taken) ==
    LET debited == [ledger EXCEPT ![VaultPda] = @ - Denomination]
        fee     == FeePaid(ledger, relayer, recipient)
        amount  == AmountPaid(ledger, relayer, recipient, taken)
    IN Credit(Credit(Credit(debited, treasury, fee), relayer, taken),
              recipient, amount)

\* The ledger after the withdrawal: nullifier account funded, vault paid out.
WithdrawLedger(hash, relayer, recipient, taken) ==
    PaidOut(NullifierFunded(hash, relayer), relayer, recipient, taken)

WithdrawAccepted(p, hash, relayer, feeMax, taken, recipient) ==
    LET funded == NullifierFunded(hash, relayer)
    IN /\ initialized
       /\ IsCanonicalFr(hash)
       /\ FeeSplitAccepted(Denomination, taken, feeMax)
       /\ AccountsDistinct(hash, relayer, recipient)
       /\ RootAccepted(p.root)
       /\ NotSpent(hash)
       /\ Groth16Verifies(p, hash)
       /\ CommitmentMatches(p, relayer, feeMax, recipient)
       /\ lamports[relayer] >= Shortfall(hash, NullifierSpace)
       /\ VaultGuard(funded)
       /\ LedgerRentOk(WithdrawLedger(hash, relayer, recipient, taken),
                       initialized, spent \cup {hash})

Withdraw(p, hash, relayer, feeMax, taken, recipient) ==
    /\ WithdrawAccepted(p, hash, relayer, feeMax, taken, recipient)
    /\ lamports' = WithdrawLedger(hash, relayer, recipient, taken)
    /\ spent' = spent \cup {hash}
    /\ UNCHANGED <<initialized, paused, treasury, leaves, rootHistory,
                   rootIndex, proofs, rentRate, vaultBase>>

-----------------------------------------------------------------------------
(* pause_pool, unpause_pool *)

PausePool(signer) ==
    /\ initialized
    /\ signer = Admin
    /\ paused' = TRUE
    /\ UNCHANGED <<initialized, treasury, leaves, rootHistory, rootIndex,
                   lamports, spent, proofs, rentRate, vaultBase>>

UnpausePool(signer) ==
    /\ initialized
    /\ signer = Admin
    /\ paused' = FALSE
    /\ UNCHANGED <<initialized, treasury, leaves, rootHistory, rootIndex,
                   lamports, spent, proofs, rentRate, vaultBase>>

-----------------------------------------------------------------------------
(* The environment (external) *)

\* The owner of note n proves it for the accounts of its choice: against the
\* current root, or against a tree of its own that the pool never had.
Prove(n, relayer, feeMax, recipient) ==
    /\ Cardinality(proofs) < MaxProofs
    /\ \/ /\ initialized
          /\ \E i \in DOMAIN leaves : leaves[i] = n
          /\ proofs' = proofs \cup
                {[note |-> n, root |-> CurrentRoot, relayer |-> relayer,
                  feeMax |-> feeMax, recipient |-> recipient,
                  at |-> Len(leaves)]}
       \/ proofs' = proofs \cup
                {[note |-> n, root |-> ForgedRoot(n), relayer |-> relayer,
                  feeMax |-> feeMax, recipient |-> recipient, at |-> 0]}
    /\ UNCHANGED <<initialized, paused, treasury, leaves, rootHistory,
                   rootIndex, lamports, spent, rentRate, vaultBase>>

\* A plain transfer, to any address: a donation to the vault, lamports left at
\* a PDA before it is created, a treasury that is swept.
Transfer(from, to, amount) ==
    /\ from # to
    /\ amount > 0 /\ lamports[from] >= amount
    /\ lamports' = Move(lamports, from, to, amount)
    /\ LedgerRentOk(lamports', initialized, spent)
    /\ UNCHANGED <<initialized, paused, treasury, leaves, rootHistory,
                   rootIndex, spent, proofs, rentRate, vaultBase>>

SetRentRate(rate) ==
    /\ rate # rentRate
    /\ rentRate' = rate
    /\ UNCHANGED <<initialized, paused, treasury, leaves, rootHistory,
                   rootIndex, lamports, spent, proofs, vaultBase>>

-----------------------------------------------------------------------------
Init ==
    /\ initialized = FALSE
    /\ paused = FALSE
    /\ treasury = Admin
    /\ leaves = <<>>
    /\ rootHistory = [k \in 0 .. RootHistorySize - 1 |-> NoRoot]
    /\ rootIndex = 0
    /\ lamports = [a \in Accounts |->
                      IF a \in Wallets THEN InitialBalance[a] ELSE 0]
    /\ spent = {}
    /\ proofs = {}
    /\ rentRate \in RentRates
    /\ vaultBase = 0

SomeInitialize == \E tre \in Treasuries : InitializePool(tre)

SomeDeposit == \E d \in Wallets, c \in Commitments : Deposit(d, c)

SomeWithdraw ==
    \E p \in proofs, hash \in HashBytes, relayer \in Relayers,
       recipient \in Recipients, feeMax \in FeeCeilings, taken \in FeesTaken :
        Withdraw(p, hash, relayer, feeMax, taken, recipient)

SomePause == \E w \in Wallets : PausePool(w) \/ UnpausePool(w)

SomeProve ==
    \E n \in Notes, relayer \in Relayers, feeMax \in FeeCeilings,
       recipient \in Recipients : Prove(n, relayer, feeMax, recipient)

SomeTransfer ==
    \E from \in Senders, to \in TransferTargets :
        \E amount \in TransferAmounts \cup {lamports[from]} :
            Transfer(from, to, amount)

SomeRentChange == \E rate \in RentRates : SetRentRate(rate)

Next == \/ SomeInitialize
        \/ SomeDeposit
        \/ SomeWithdraw
        \/ SomePause
        \/ SomeProve
        \/ SomeTransfer
        \/ SomeRentChange

Spec == Init /\ [][Next]_vars

-----------------------------------------------------------------------------
(* Properties *)

Hashes(n) == <<NullifierOf[n], 0>>

\* Nullifiers of the notes that were deposited.
DepositedNullifiers == {NullifierOf[n] : n \in Notes \cap
                                             {leaves[i] : i \in DOMAIN leaves}}

\* The pool as an escrow: the vault's lamports beyond what it was created with
\* are the escrow's balance.
EscrowOf == INSTANCE Escrow WITH
    deposits <- Len(leaves),
    claims   <- DepositedNullifiers,
    redeemed <- {h[1] : h \in spent},
    balance  <- IF initialized THEN lamports[VaultPda] - vaultBase ELSE 0

IsRoot(r) ==
    \/ r = NoRoot
    \/ /\ DOMAIN r \subseteq 1 .. Len(leaves)
       /\ \A i \in DOMAIN r : r[i] \in Notes

\* Every variable has its type; the ring index and the tree size stay in
\* their ranges (state.rs, struct Pool).
TypeOK ==
    /\ initialized \in BOOLEAN /\ paused \in BOOLEAN
    /\ treasury \in SystemAccounts
    /\ leaves \in Seq(Commitments \ {NonCanonicalLeaf})
    /\ Len(leaves) <= SaturationThreshold
    /\ DOMAIN rootHistory = 0 .. RootHistorySize - 1
    /\ \A k \in DOMAIN rootHistory : IsRoot(rootHistory[k])
    /\ rootIndex \in 0 .. RootHistorySize - 1
    /\ lamports \in [Accounts -> Nat]
    /\ spent \subseteq HashBytes
    /\ \A p \in proofs : p.note \in Notes /\ p.at \in Nat
    /\ rentRate \in RentRates
    /\ vaultBase \in Nat

\* Solvency. The vault always holds what it was created with plus one
\* denomination for every deposit not yet withdrawn: no sequence of deposits,
\* withdrawals, aliased accounts or donations makes it owe more than it has
\* (the guard and the conservation check of process_withdraw).
VaultSolvent ==
    initialized =>
        lamports[VaultPda] >=
            vaultBase + Denomination * (Len(leaves) - Cardinality(spent))

\* Lamports are neither created nor destroyed: what the program debits, plus
\* what it makes the relayer pay, is what the other accounts receive, whichever
\* of them coincide and wherever the protocol fee is routed.
LedgerConserved == SumFunction(lamports) = SumFunction(InitialBalance)

\* Every nullifier account belongs to the canonical encoding of a deposited
\* note's nullifier.
SpentAreDeposited ==
    \A h \in spent : h[2] = 0 /\ h[1] \in DepositedNullifiers

\* No double spend and no spend from nothing: every nullifier account belongs
\* to the canonical encoding of the nullifier of a note that was deposited, so
\* there are never more withdrawals than distinct nullifiers deposited, even
\* when one nullifier hides behind several notes or several encodings (C-1,
\* L-4 in process_withdraw).
EverySpendIsBacked ==
    /\ SpentAreDeposited
    /\ Cardinality(spent) <= Len(leaves)

\* The ring holds, newest first from current_root_index backwards, the roots
\* after the last insertions, then the empty root of initialize_pool, then
\* unused slots: wrapping loses only the oldest root (Pool::insert).
RingHoldsLatestRoots ==
    initialized =>
        \A age \in 0 .. RootHistorySize - 1 :
            rootHistory[(rootIndex + RootHistorySize - age) % RootHistorySize] =
                IF age <= Len(leaves)
                THEN RootOf(SubSeq(leaves, 1, Len(leaves) - age))
                ELSE NoRoot

\* A proof made against the current root stays acceptable to the root check
\* until RootHistorySize further deposits have landed: what lets a client prove
\* for a minute while others deposit.
ProofOutlivesDeposits ==
    \A p \in proofs :
        p.at > 0 /\ Len(leaves) - p.at < RootHistorySize => RootAccepted(p.root)

\* Until it is created the pool has no leaves and no spent nullifiers.
EmptyUntilCreated == ~initialized => leaves = <<>> /\ spent = {}

\* A root in the ring is the root of leaves the pool has: what ties a proof
\* against a known root to a deposit.
RootsComeFromLeaves ==
    \A k \in 0 .. RootHistorySize - 1 :
        rootHistory[k] # NoRoot =>
            \A i \in DOMAIN rootHistory[k] :
                i \in DOMAIN leaves /\ rootHistory[k][i] = leaves[i]

\* The inductive invariant.
IInv ==
    /\ TypeOK
    /\ EmptyUntilCreated
    /\ RootsComeFromLeaves
    /\ SpentAreDeposited
    /\ VaultSolvent

\* Rent is no higher than what the pool was created to bear.
RentWithinCreation ==
    /\ WorstCaseUserAmount(Denomination) >= MinimumBalance(rentRate, 0)
    /\ vaultBase >= MinimumBalance(rentRate, VaultSpace)

\* Funds are always recoverable: a deposited note whose nullifier is unspent
\* can be withdrawn now, against the current root, to any ordinary recipient
\* and with any admissible fee, by any relayer that can pay the nullifier's
\* rent - paused or not, treasury swept or not, PDA pre-funded or not - as long
\* as rent has not risen beyond what the pool was created with. The one
\* exception is a pool whose treasury is the note's own nullifier PDA (F-5). A
\* recipient that is a nullifier account itself is no ordinary one if rent has
\* risen past what it holds: the runtime lets nobody pay it too little.
NoteRecoverable ==
    initialized /\ RentWithinCreation =>
        \A n \in Notes \cap {leaves[i] : i \in DOMAIN leaves},
           relayer \in Relayers, feeMax \in FeeCeilings, taken \in FeesTaken :
            LET h == Hashes(n) IN
            \A recipient \in Recipients \ {VaultPda, PoolPda, h} :
                /\ h \notin spent /\ treasury # h
                /\ FeeSplitAccepted(Denomination, taken, feeMax)
                /\ lamports[relayer] >= Shortfall(h, NullifierSpace)
                                         + MinimumBalance(rentRate, 0)
                /\ recipient \in spent =>
                      lamports[recipient] >= MinimumBalance(rentRate, NullifierSpace)
                => WithdrawAccepted(
                       [note |-> n, root |-> CurrentRoot, relayer |-> relayer,
                        feeMax |-> feeMax, recipient |-> recipient,
                        at |-> Len(leaves)],
                       h, relayer, feeMax, taken, recipient)

\* The vault is debited only by a withdrawal: exactly one denomination, for one
\* nullifier not spent before, under a proof its owner made; the recipient the
\* owner bound gains the denomination less the protocol fee and at most the
\* ceiling bound with it, and a relayer that is nothing else never gains more
\* than that ceiling.
VaultDebitIsBound ==
    [][lamports'[VaultPda] < lamports[VaultPda] =>
         \E p \in proofs :
            LET gain(a) == lamports'[a] - lamports[a] IN
            /\ gain(VaultPda) = -Denomination
            /\ Hashes(p.note) \notin spent
            /\ spent' = spent \cup {Hashes(p.note)}
            /\ p.recipient # p.relayer =>
                  gain(p.recipient) >= Denomination - TreasuryFee(Denomination)
                                         - p.feeMax
            /\ p.relayer \notin {p.recipient, treasury} =>
                  gain(p.relayer) <= p.feeMax]_vars

\* The pool implements the escrow: every instruction, donation, pre-funded
\* address or rent change is a deposit, a redemption, a donation or nothing.
ImplementsEscrow == EscrowOf!Spec

-----------------------------------------------------------------------------
(* Claims of the repository that the program does not meet *)

\* "Any actual insertion must move the root away from the empty value" (the
\* test of EMPTY_TREE_ROOT in state.rs): a pool with a leaf is not at the empty
\* root. Pool::insert takes the zero leaf, which leaves the root where it was.
InsertionLeavesEmptyRoot ==
    initialized /\ Len(leaves) > 0 => CurrentRoot # EmptyRoot

\* "with at least one live deposit the stronger form is already satisfied ... I
\* could not construct a state where the two differ" (F-8, withdraw.rs): while a
\* deposit is not withdrawn, the guard on denomination plus vault rent passes.
\* The vault keeps the rent of the day it was created.
VaultGuardAlreadyHolds ==
    initialized /\ Len(leaves) > Cardinality(spent) => VaultGuard(lamports)
=============================================================================
