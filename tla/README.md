# SolnadoCash in TLA+

SolnadoCash is a fixed-denomination mixer on Solana. A user deposits one
denomination against a commitment to a secret note; later, with a Groth16 proof
of knowledge of a note behind one of the commitments, a relayer pays the
denomination to an address the user bound into the proof. This directory holds
TLA+ modules that model the system, the TLC configurations that check them on
small instances, and proofs of the main results for every instance, checked by
the TLA+ proof system. `PROJECT.json` maps every definition to the lines it
models and lists runs, mutants, hazards, findings and theorems.

1. [The system](#1-the-system) - components, state, interactions, hard parts
2. [Plan](#2-plan) - modules and their order
3. [Modules](#3-modules) - how state and actions correspond to the code
4. [Runs](#4-runs) - what is checked, within which bounds
5. [Proofs](#5-proofs) - what is proved, and along which argument
6. [Findings](#6-findings) - comments of the code that do not hold
7. [Not modelled](#7-not-modelled)

## 1. The system

    browser application (app/, sdk/) --- quote, proof ---> relayer (relayer/)
         |   deposit                                           |  withdraw
         v                                                     v
    on-chain program (programs/solnadocash)  <--- reads --- monitor (monitor/)

### On-chain program (`programs/solnadocash/src`)

- State: per pool a `Pool` account (denomination, treasury, admin, pause flag,
  `next_index`, the frontier of the tree, a ring of 256 roots), a vault that
  holds the lamports, and one account per spent nullifier.
- Operations: `initialize_pool`, `deposit`, `withdraw`, `pause_pool`,
  `unpause_pool`.
- Hard: what protects the money is the existence of data at derived addresses
  anybody can send lamports to; payees may coincide; a public input of the proof
  is a field element but the address is derived from bytes; the rent rule of the
  runtime applies to every account touched, and the rent can change; the ring
  overwrites the roots proofs were made against.
- Correct when: the vault holds a denomination per deposit not withdrawn; a
  nullifier is spent once, and only if a note with it was deposited; a proof
  outlives the deposits the ring is sized for; whoever holds a note can withdraw
  it; lamports are conserved, and go where the proof says.

### Commitment tree (`state.rs`, `sdk/src/proof.ts`, `circuits/merkle`)

- State: the frontier and the roots on chain; a layered tree in the client.
- Operations: `Pool::insert`; `MerkleTree.insert`, `root`, `getProof`; the
  circuit's recomputation of a root from a path.
- Hard: three implementations in three languages must agree for every number of
  leaves, one of them with one node per level.
- Correct when: they do, and a path proves no leaf but its own.

### Relayer (`relayer/src`)

- State: the set `pendingNullifiers`, the rent cache per connection, the wallet;
  per request the local variables of an asynchronous handler.
- Operations: `GET /fee_quote`, `POST /submit_proof`, read-only routes, start-up
  and health checks, rate limits.
- Interactions: clients by HTTP, the cluster by RPC. Every await lets other
  requests, the chain and failures in.
- Hard: two submissions of one note at once; a nullifier held by a handler that
  fails; rent, congestion, root and nullifier that change between the check and
  the execution; a reply of `sendTransaction` that is lost; a transaction that
  is confirmed and has failed; one that is never executed; a restart.
- Correct when: one handler at a time works on a note and lets go of it; what it
  answers is true; it pays for nothing the fee does not cover, except what it
  cannot know; every request is answered.

### Browser application and SDK (`app/src`, `sdk/src`)

- State: notes in `localStorage`, one key per note (`noteVault.ts`), shared by
  tabs; a cache of leaves and the last signature scanned (`leafCache.ts`); the
  genesis hash of the connection (`clusterGate.ts`); per page the state of its
  component, which a new mount does not inherit, and its asynchronous handlers,
  which a new mount does not stop.
- Operations: choosing pool and wallet, with reads of the pool, of the balance
  and of the cluster; deposit (stage the note, send, mark it sent, confirm);
  recovery and reconciliation of notes at start; rebuilding the tree from the
  pool's history; withdrawal (quote, rebuild, prove, submit, retry on a stale
  root, check the relayer's claim on chain).
- Interactions: the wallet's extension, an RPC node that may lag, forget or not
  answer, a relayer that is not trusted, other tabs through `localStorage`.
- Hard: a page closed between any two steps; a send that fails although the
  transaction was broadcast; two tabs on one note; the migration of an older
  storage format; a pool read before its history; verdicts about what was
  selected before; a relayer that says what is not so.
- Correct when: a note whose deposit may land is never dropped; the rebuilt tree
  is one the pool knows; nothing is sent on the wrong cluster, or for a fee the
  user did not see; a withdrawal is reported done only when it is.

### Circuits (`circuits/`)

`withdraw.circom` establishes that the prover knows a note under the root with
the public nullifier hash, and binds relayer, ceiling and recipient. The program
recomputes the binding. `deposit.circom` and `prototype/` are not used by it.

### Monitor (`monitor/src`)

- State: in memory and in a file, per pool the last vault and pause flag, the
  immutable fields as first seen, and the alerts lately announced.
- Operations: each pass reads every pool and vault, the upgrade authority and
  the relayer's balance, checks them, announces findings and saves.
- Hard: pool and vault are read by separate calls; a read fails in the middle of
  a pass; the file is written at the end of one, and the process can die before.
- Correct when: a healthy pool raises no CRITICAL alert; a vault that is out of
  step is announced by the next whole pass; the watcher outlives every failure.

### Scripts, migrations, deployment, tests

One-shot tools and tests; read for the claims they make, not modelled.

## 2. Plan

In the order of what would hurt most. All modules of the plan are written.

| # | module | models | abstract view |
|---|--------|--------|---------------|
| 1 | `Fees`, `Pool`, `Escrow`, `PoolProofs` | the program, ledger and rent included | `Escrow`, a refinement checked and proved |
| 2 | `MerkleTree`, `MerkleTreeProofs` | frontier, SDK tree, circuit path | complete binary tree (`ReferenceNode`) |
| 3 | `RelayerFees`, `Relayer`, `RelayerProofs` | `GET /fee_quote`, `POST /submit_proof` | - |
| 4 | `TreeRebuild`, `TreeRebuildProofs` | history scan, leaf cache, the check against the pool's roots | a prefix of the pool's leaves with a known root |
| 5 | `DepositGate`, `DepositGateProofs` | the deposit page up to the staged note, the cluster gate | - |
| 6 | `NoteVault`, `NoteVaultProofs` | staging, sending, confirming, reconciling, migrating notes over tabs and reloads | "a note whose deposit may land is kept" |
| 7 | `WithdrawFlow`, `WithdrawProofs` | the withdrawal page, an untrusted relayer, the chain | a withdrawal reported done only of a note that is spent |
| 8 | `Monitor`, `MonitorProofs` | the watcher against a chain that moves | - |

The modules compose by what one takes from another as given:

- `Pool` takes from `MerkleTree` that a root stands for its leaves
  (`RootIdentifiesLeaves`); `TreeRebuild` takes the same, and from `Pool` that
  an account's ring holds the latest roots.
- `DepositGate` ends where `NoteVault` begins, at the staged note.
- `NoteVault`'s reconciliation believes a leaf it finds because of
  `TreeRebuild`'s `LeavesAreTheChains`.
- `WithdrawFlow` has the relayer as an adversary, so it needs nothing of
  `Relayer`; what an honest one quotes passes its check
  (`QuotedAmountIsAFloor`). A proof lands there at most once because of `Pool`'s
  `EverySpendIsBacked` and as bound because of `VaultDebitIsBound`.
- `Monitor`'s healthy chain is `VaultSolvent`: deposits and withdrawals move
  whole denominations.

Every safety invariant and action property that a passing run checks is also
proved; liveness stays with TLC, as the end of section 5 says.

## 3. Modules

### `Fees`: `withdraw.rs` 18-93

`compute_fee_split`, `worst_case_user_amount` and `route_treasury_fee`, plus the
runtime's rent rule. Sums are bounded by the supply of lamports, far below 2^64,
so they are plain integers; each subtraction that could go below zero is a guard.

### `Pool`: the program, one action per instruction

| variable | code |
|---|---|
| `initialized`, `paused`, `treasury` | the pool account exists, `is_paused`, `treasury` |
| `leaves` | commitments in order; `next_index` is its length |
| `rootHistory`, `rootIndex` | `root_history`, `current_root_index` |
| `lamports` | every account the program may touch |
| `spent` | the nullifier accounts that exist |
| `rentRate` | the Rent sysvar, changed by the cluster |
| `proofs` | proofs made by owners: note, root, bound relayer, ceiling, recipient |
| `vaultBase` | history: the vault's lamports at creation |

`InitializePool`, `Deposit` (with `Insert`), `Withdraw` (`WithdrawAccepted` in
the order of `process_withdraw`, then `WithdrawLedger`), `PausePool` and
`UnpausePool` are the instructions; `Prove`, `Transfer` and `SetRentRate` are
the environment. A transaction is atomic: an instruction that fails changes
nothing and is not enabled. The transaction fee is left out, so lamports are
conserved exactly. Poseidon is collision free: a note stands for its commitment
and a root for the non-zero leaves by position (`RootIdentifiesLeaves` of
`MerkleTree` is what allows that). Groth16 is sound and complete. A nullifier
hash is a pair of a nullifier and an encoding, canonical or not, because the
proof system fixes it only modulo the field prime; each pair is an address too,
which plain transfers can fund before the program creates it. Owners may prove
against roots the pool never had.

### `Escrow`: what a pool promises

Deposits, claims, redemptions and a balance. `Pool!EscrowOf` maps the vault's
lamports beyond those it was created with to the balance, the nullifiers of
deposited notes to the claims, and nullifier accounts to redemptions.

### `MerkleTree`: three trees

`Insert` is the loop of `Pool::insert` over the frontier; `Replay` feeds the
next leaf of the history to the SDK's layered tree (`TreeInsert`, one
`UpdateParent` per level, as in `MerkleTree.insert`); `GetProof` and `PathRoot`
are the client's path and the circuit's use of it. The hash of two nodes is
their pair. Each loop over the levels is a recursive function of the level:
`Climb` the program's, `Update` and `Ancestors` the SDK's, `LevelHashes` the
circuit's; `Insert`, `TreeInsert` and `PathRoot` take what it ends with.

### `RelayerFees`, `Relayer`: `GET /fee_quote`, `POST /submit_proof`

`RelayerFees` is `fees.js` with what `/fee_quote` refuses or answers
(`QuoteRefused`, `FeeQuote`) and the client's `validateFeeQuote`
(`QuoteAccepted`). `Relayer` is the submit route.

| variable | code |
|---|---|
| `pending` | `pendingNullifiers` |
| `rentCache` | `_nullifierRentByConnection`, with whether it is within its TTL |
| `req` | per submission, the locals of `handleSubmit` and where it waits (`pc`) |
| `balance` | the relayer's wallet |
| `tx` | per submission the transaction sent, and what became of it |
| `deposits`, `spent`, `rentNow` | the chain as far as the relayer depends on it |

`Submit` is the arrival with the guard; `LoadPool`, `ReadRent`, `PlanFee`,
`CheckBalance`, `Preflight`, `Send` and `Confirm` are what runs from one await
to the next; `RpcFails` is a call that throws; every answer goes through
`Answer`, whose `Release` is the `finally`. `Execute`, `Expire`, `LandDeposit`,
`SpendElsewhere`, `ChangeRent`, `AgeRentCache` and `Restart` are the world.
`Send` either hands the transaction over, or is refused by the node's
simulation, or loses the reply after the node has it (`orphan`). A root is the
number of deposits it was made at, known while fewer than `RootHistorySize` more
have landed, and the pool may be read from a node that lags. There is one
relayer process, as the code assumes; a submission with a nullifier that is no
field element skips the guard, but its proof is refused, so it is left out.

### `TreeRebuild`: `merkle.ts`, `leafCache.ts`, `verifyTreeMatchesPool`

| variable | code |
|---|---|
| `tip`, `landed` | the chain: how many transactions mention the pool, the deposits they executed |
| `cache` | the entry of `localStorage`: leaves and `lastSignature` |
| `tampered` | history: the entry is not one a rebuild wrote |
| `tab` | the rebuild in progress: the count read, the cached leaves, the tree |

`ReadPool`, `CheckCached`, `Scan`, `FullScan` and `RetryWithoutCache` are
`rebuildMerkleTree` from one call of the node to the next, `Assemble` is how
deposits are placed whose event was lost with the log, and `TreeMatchesPool` is
the check of the SDK. The pages of a scan are one action: a node's answer is any
set of signatures it lists with any part of their transactions. A signature is a
position in the chain, a root its leaves without the empty ones at the end.
Deposits without an index are put in order by `Ascending`, the numbers of a set
by their places, and take the place of the hole of the same `Rank`.

### `DepositGate`: `Deposit.tsx` up to `stageNote`

| variable | code |
|---|---|
| `cluster`, `answers` | the node: which cluster it serves, whether it answers `getGenesisHash` |
| `identified` | the cache of `clusterGate.ts` |
| `banner`, `page.gate` | the two uses of `useClusterGate`, which know nothing of each other |
| `page` | the component's state, with `reads`, what `usePoolInfo` waits for |
| `checks` | the calls of `runWalletCheck` under way, none of which can be cancelled |
| `run` | `handleDeposit` of each mount, on the wallet and pool of its click |

`could` in a check and in a run is history: the balance was enough at some time
since it was asked for, which is what an answer can be about. An effect runs in
the step that changes what it depends on (`RunWalletCheck`, `ReadPool`). Pools
that are not deployed have disabled buttons and are left out. The modal is an
overlay that the code does not make inert, so screens below it stay usable.

### `NoteVault`: the note, from staging on

| variable | code |
|---|---|
| `store`, `array` | the keys of `localStorage`, and the array an earlier build left |
| `tx` | what became of the deposit of each note |
| `tab` | each page: its screen, where `handleDeposit` is (`pc`), the vault function on its stack (`op`), the reconciliation (`rec`) |
| `ack` | the notes the user said to have saved, or chose to discard |
| `now`, `opens` | the clock that `Grace` is measured by, and the page loads |

Each `localStorage` call is an action, since another tab can run between any two;
within a tab a vault function runs to its end. `WalletRejects`,
`PreflightFails` and `SendIsAmbiguous` are what `handleDeposit` makes of an
error, by `IsWalletRejection` and `ProvesNotBroadcast`; a node may claim anything
in its own error.

### `WithdrawFlow`: `Withdraw.tsx` and its checks

| variable | code |
|---|---|
| `page` | the mounted component, with the handler of its quote |
| `run` | `executeWithdraw` of each mount, on what the page held at the click |
| `cluster`, `identified` | as in `DepositGate` |
| `proofs` | what the relayer holds; `shown` is history, the ceiling on screen at the click |
| `landed` | the proof each note was spent by |

`Submit` is the second quote, the tree, the proof and its submission: only what
the relayer gets is visible outside. The relayer's answer to either request may
be anything: `Answered`, an error (`GoesWrong`, and `StaleRoot` when its text
speaks of one, which starts another attempt), or none in time. `fetchWithTimeout`
clears its timer once the headers are in, and `parseJson` then awaits the body
without one: `BodyStalls` is a body that never ends, and no action of the handler
follows it. A tree that cannot be rebuilt is a `GoesWrong` too.

`ConfirmOnChain` is `confirmWithdrawalOnChain`. It compares a signature only with
the nullifier account: the transaction must have landed and list it, whatever it
did. A signature is therefore the set of notes whose nullifier accounts its
transaction lists (`Signatures`): besides a withdrawal, any transaction that names
the address passes, a transfer to it for instance, and whoever was handed a proof
of the note knows the address. That the account exists and is the program's
(`RecordedAsSpent`) is what ties the page to the withdrawal. `Land` is the relayer
submitting a proof it holds, at any time or never.

### `Monitor`: `checks.js`, `index.js`

| variable | code |
|---|---|
| `chain`, `authority`, `tampered` | pools and vaults, the upgrade authority, what was altered from outside |
| `mon` | the process and where its pass is |
| `memory`, `file` | its state object and `STATE_PATH` |
| `kept`, `wrong` | history: the baseline first saved, vaults out of step since the pass began |

`ReadFirst` and `ReadSecond` are the two calls of `readPool`, in either order,
then the checks; `ReadFails`, `ReadAuthority`, `ReadRelayer`, `Emit` and `Save`
are the rest of a pass. Times are left out: `Tick` ends every cooldown.

## 4. Runs

| run | asks |
|---|---|
| `pool` | does the program keep the money, over the whole life of a pool? |
| `pool_zero_leaf`, `pool_vault_guard` | two claims of comments that do not hold |
| `merkle` | do the three trees agree, for every sequence of leaves? |
| `relayer` | is the submit route safe, true to its client, and live? |
| `relayer_subsidy` | a claim of a comment that does not hold |
| `tree_rebuild` | is a rebuilt tree the pool's, whatever node and cache say? |
| `deposit_gate` | does anything get staged on a stale or wrong verdict? |
| `note_vault` | can a note be lost, by tabs, closed pages, errors or the migration? |
| `note_vault_success` | a claim of comments that does not hold |
| `withdraw_flow` | can a relayer make the page say or accept what is not so? |
| `monitor` | are alerts neither false nor missed? |

### `pool` (`MCPool.cfg`)

Three notes, two with one nullifier; a zero leaf and a non-canonical one; a ring
of two roots and a threshold of three, so that the ring wraps and the tree
saturates; two rent rates; a treasury that is the admin, the relayer or a
nullifier's address; a recipient that is empty before, and the vault itself; transfers of all
a wallet has to the vault or to a nullifier's address. One unit is 1740
lamports, so that the real ratios of fee, rent and denomination hold. At most
two proofs are made (`MaxProofs`). Admin and depositor have what three deposits
and the pool's rents take.

- `VaultSolvent`, `EverySpendIsBacked`: no order of deposits, withdrawals,
  aliased payees, donations and rent changes makes the vault owe more than it
  holds or pays a nullifier twice.
- `RingHoldsLatestRoots`, `ProofOutlivesDeposits`: the ring loses only the
  oldest root; a proof stays good for as many deposits as the ring has slots
  less one.
- `NoteRecoverable`: whoever holds an unspent deposited note can prove it and
  withdraw, paused or not, whatever lies at the nullifier's address and however
  poor the treasury is. Its premises name the real exceptions: a rent that rose
  above what the vault was given, a relayer that cannot pay, a treasury that is
  the nullifier's own address, and a recipient that is a nullifier account short
  of its own rent.
- `LedgerConserved`, `VaultDebitIsBound`: no lamport appears or vanishes, and a
  debit of the vault is one denomination under one new nullifier, paid as the
  proof's owner bound it.
- `ImplementsEscrow`: every step is a step of `Escrow`.

### `merkle` (`MCMerkleTree.cfg`)

Depth three, three leaf values with the zero leaf among them, up to seven
leaves: every index is a left and a right child at every level, the tree is
partly filled and nearly full, and the client is any number of leaves behind.

### `relayer` (`MCRelayer.cfg`)

Two submissions of one note interleave at every await; a root ring of one, so
that a single deposit evicts; rents below and above the constant the relayer
falls back to; ceilings below a floor, above all floors, and above the pool's
cap; a wallet that one reverted transaction brings below its threshold. A third
submission, a second note or a larger ring adds no case: requests interact only
through one note's guard, the shared cache and the wallet.

- `GuardMatchesHandlers`: one handler per note, and the guard holds exactly the
  notes being worked on, through failures and restarts.
- `DoubleSendNeedsLostReply`: two transactions of a note are in flight together
  only if the relayer lost sight of one.
- `AnswersAreTrue`: "ok" is said of a withdrawal that happened, "NullifierSpent"
  of a note that is spent, a refusal of a request for which nothing was sent.
- `NoLossButRentDrift`: the wallet loses only the fees of a reverted transaction
  or what the rent rose since it was read.
- `EveryRequestAnswered`, under `WF(Handle(r))`, `WF(Settle(r))`: Node's event
  loop runs a handler whose promise is settled; an RPC call is answered or
  fails; a transaction is executed or its blockhash expires, after which
  `confirmTransaction` rejects. No fairness is assumed of clients, other users,
  the rent, or crashes.

### `tree_rebuild` (`MCTreeRebuild.cfg`)

Three transactions of five kinds: a deposit with its event, without it, of an
empty leaf, behind a deposit into another pool, and a failed one. A ring of two,
so that a root can be too old; six entries a corrupted cache may hold, shorter
and longer than the chain. Three leaves are the least with a hole between two
known ones.

- `TreeOpensToTheChain`: what is returned has a root of the pool's ring.
- `LeavesAreTheChains`: and the chain's leaves at their places, unless an empty
  leaf is involved, which a root cannot tell from none.
- `CompleteHistoryRebuilds`: whatever the cache held, a rebuild succeeds if the
  node gave it everything and nothing it cannot place landed meanwhile.
- `CacheIsAPrefix`: so a saved cache never has to be thrown away for being wrong.
- `RebuildEnds`, under `WF(Rebuild)`: calls to the node return or throw.

### `deposit_gate` (`MCDepositGate.cfg`)

Two wallets, one or two units in each at any time, and two pools that cost one
and two: each verdict can be right for one pair and wrong for the other three.
Two balance reads under way, so that one can overtake the other, and two mounts,
so that a handler outlives its page.

- `StagedDepositIsPayable`, `ContinueMeansRead`: the screens may show a verdict
  about an earlier choice, the handler acts on none but its own.
- `GateDecides`, under `WF(GateShown)`, `WF(BannerShown)`, `WF(RunCluster(m))`:
  `verifyCluster` races its request with a timer of ten seconds. `getBalance`
  and the wallet have no timer, and no fairness is assumed of them; leaving the
  page can restart the wait, and `MaxMounts` bounds how often.

### `note_vault` (`MCNoteVault.cfg`)

Two tabs, a note in the old array whose deposit landed or expired, a new one, and
two page loads: both tabs migrate at once, or one while the other deposits, or
one page is closed and opened again. `Grace` is one tick of one, so that a note
is judged both too early and not.

- `NoteNeverLost`: the key to a deposit that landed or still may is stored, or
  the user said to have it.
- `StatusOnlyAdvances`: no tab undoes what another has learnt.
- `FailedAttemptSentNothing`: back on the confirm screen, a retry pays once.

Nothing is assumed fair: a wallet, a click or a page load may never come.

### `withdraw_flow` (`MCWithdrawFlow.cfg`)

Two pools with different caps and a note of each, so that a quote for one can be
over the cap of the other; one stale-root retry; two mounts; two proofs in the
relayer's hands, which it can submit in either order and long after the page is
left. A second recipient is left out of the instance: it multiplies the states
and no guard looks at which one it is.

- `DoneMeansWithdrawn`: "Withdrawal complete" is said of a note that is spent, by
  a proof the user had made of it, at a fee within the ceiling on screen at that
  click; the link is to a transaction on the note's nullifier account, not always
  to the one that spent it. Its mutant leaves out the look at the account.
- `FeeWithinTheCeilingShown`: the second quote is bounded by what was on screen
  at the click.
- `NothingOffCluster`: no handler gets past its gate on another cluster.
- `WithdrawalsEnd`: every handler ends, done or with an error, unless the relayer
  stalls the body of an answer, the one await that nothing limits. Under
  `WF(Execute(m))` for each mount: the gate and the headers of an answer have
  timeouts, polls of the transaction a deadline, the proof is computed, and the
  reads of the tree and of the nullifier account end because calls to the node
  return or throw. `BodyStalls` is among the steps of `Execute`, so fairness does
  not keep it from happening, and a handler has no step after it. The relayer's
  `Land` is not fair.

### `monitor` (`MCMonitor.cfg`)

One pool with a denomination of two lamports, so that a single one puts the vault
out of step; two deposits and three events (what happens to the chain, and
crashes), which allows an alteration, a crash and a deposit between two reads. A
pool's checks look at no other pool. `RELAYER_PUBKEY` is unset.

- `CriticalHasACause`: the two reads of a pool may fall on either side of any
  deposit or withdrawal, and no critical finding is made of it.
- `OutOfStepIsNoticed`: a vault wrong before a pass and until its end is
  announced, in spite of cooldowns, unless it holds more than it should
  (a surplus, which anybody can cause) or the RPC failed.
- `BaselineSurvives`: over restarts, saves that fail and passes cut short.
- `PassesComplete`, under `WF(Pass)`: every call returns or throws, and the
  service manager restarts the process.

Deadlock is not checked in `merkle` (the tree is full and replayed), in
`relayer` (all submissions are over) and in the runs of the application and the
monitor (nobody has to click, and bounds end the events); a pool can always be
donated to, paused or proved against, so the pool runs check it.

## 5. Proofs

### `PoolProofs`: for every set of notes, wallets, amounts, rates, ring size

- `TypeCorrect`: `Spec => []TypeOK`. The point that is not obvious is that no
  balance goes negative: the debit of the vault is covered by the guard of
  `withdraw`, and no payee is the vault.
- `Solvency`: `Spec => []VaultSolvent`, and `NoDoubleSpend`:
  `Spec => []EverySpendIsBacked`. `VaultSolvent` is not inductive by itself. A
  withdrawal adds one to `spent` only because its nullifier is new, and is
  backed only because its root came from the pool. The strengthening is
  `IInv == TypeOK /\ EmptyUntilCreated /\ RootsComeFromLeaves /\
  SpentAreDeposited /\ VaultSolvent`: before the pool exists there is nothing;
  every root in the ring holds only leaves that were inserted; every nullifier
  account is the canonical encoding of a deposited note's nullifier. One lemma
  per action shows that it is preserved; `SpentCount` then bounds the number of
  withdrawals by an injection of nullifiers into leaves.
- `RingIsComplete`: `Spec => []RingHoldsLatestRoots`, and `ProofsHaveTime`:
  `Spec => []ProofOutlivesDeposits`. The invariant is `RingInv == TypeOK /\
  EmptyUntilCreated /\ RingHoldsLatestRoots /\ ProofsAreOfPrefixes`. A deposit
  makes every root of the ring one deposit older and overwrites the oldest
  (`DepositRing`); `Around` turns the index arithmetic into one subtraction, which
  is what makes it hold for every ring size, and `PrefixStays` says that an older
  tree stays a prefix of the tree. `ProofsAreOfPrefixes`: a proof that was made is
  against the root of some prefix, so it is found at its age.
  `RootsAssumption` says that the mark of an unused slot is no tree.
- `DebitsAreBound`: `Spec => VaultDebitIsBound`. `WithdrawGains` computes what each
  account gains whichever of recipient, relayer and treasury coincide, and the
  type lemmas of the other actions say that none of them lowers the vault.

- `LamportsAreConserved`: `Spec => []LedgerConserved`. The balance of every
  account, of wallets, vault and nullifiers, is one function, and its sum is the
  library's fold over a set in any order. That the order does not matter is proved
  by induction over the size of the set (`SumsAgree`), from which follow what one
  changed balance does to the sum (`SumDiffer`), a move (`TotalOfMove`) and a
  withdrawal, whichever of its up to five cells coincide (`TotalOfWithdrawal`).
  It needs the set of wallets to be finite, which `AccountsAssumption` says: an
  address is 32 bytes.
- `PoolIsAnEscrow`: `Spec => ImplementsEscrow`. Each step maps to a deposit, a
  redemption, a donation or a stutter (`NextIsEscrow`, one lemma per kind). Two
  guards of `Escrow` are not guards of the code, and that is the substance: the
  escrow pays only a claim that was not redeemed, which `withdraw` gets from
  the absence of the nullifier account alone because all of them are canonical
  encodings of deposited nullifiers; and it pays only out of what deposits brought
  (`BalanceCovers`), which follows from `VaultSolvent` and `SpentCount` rather
  than from the rent guard of the code. Creation is a stutter wherever the
  vault's address had been funded, and a change of rent or of pause always is.
- `FundsAreRecoverable`: `Spec => []NoteRecoverable`, from `IInv /\ RingInv`. One
  lemma per obstacle: `RoomForOneMore` (with its nullifier the spent ones still
  come from distinct leaves, so fewer are spent than deposited) and `VaultHasIt`
  for the vault guard; `CurrentRootOpens` for the root check and the proof;
  `AmountIsEnough` and `RentHolds` for the runtime's rent rule on every account,
  whichever payees coincide and wherever the protocol fee goes. The proof needs a
  premise the small instance never meets: a recipient that is itself a nullifier
  account must already hold its own rent minimum, since after a rise of rent the
  runtime refuses to leave it short.

### `MerkleTreeProofs`: for every depth, every set of leaf values

The invariant is `IInv == TypeOK /\ RootsInv /\ FrontierInv /\ LayersInv`, stated
against the complete tree over all `2 ^ Depth` leaves (`CompleteTree`).

- `ChainRootIsTheTreeRoot`: `Spec => []ChainRootIsTreeRoot`. `FrontierInv` is what
  one node per level is enough for: at a level where the next leaf's way to the
  root is a right child, the stored node is the complete left one; elsewhere
  nothing is promised of it, and the loop stores there before it reads. A new leaf
  changes the nodes on its own way only (`OtherNodesKept`) and all to the right of
  it are zeros (`EmptyRight`), so the loop's node at each level is the tree's
  (`ClimbNodes`), and `AncestorsOfNext` says where the next way turns right.
- `SdkFollowsTheChain`: `Spec => []SdkFollowsChain`. `RootsInv` keeps every root the
  pool had, `LayersInv` says that each layer holds the nodes of the tree over the
  replayed leaves up to the last leaf's ancestor and no further, which is when
  `insert` overwrites a parent and when it pushes one (`UpdateHolds`).
- `PathsProveTheirLeavesOnly`: `Spec => []PathProvesItsLeafOnly`, by induction over
  the levels of the circuit; that no other leaf passes is the injectivity of the
  hash, level by level.
- `RootsIdentifyLeaves`: `Spec => []RootIdentifiesLeaves`. Equal roots have equal
  leaves because the hash has no collisions (`RootDeterminesLeaves`); padding makes
  a zero leaf and no leaf the same.

The recursive functions are unfolded, and what is said of all levels is proved,
by `SetInduction`: a set that holds zero and with each number the next holds
all of them. It follows from the well-foundedness of the subsets of a finite set,
which the library states without an operator parameter.

### `RelayerProofs`: for every set of requests, notes, ceilings, prices, rents

- `PlanIsReimbursed`: at or above the floor, what `planFee` spends it charges in
  full, within the ceiling. It rests on `PriceRoundTrip`: rounding a budget down
  to a price and the price up to lamports does not exceed the budget.
- `QuoteIsHonoured`: a quote that is not refused is within the on-chain cap and
  at or above the submit route's floor, while the rent stays.
- `QuotedAmountIsAFloor`: such a quote passes the client's check, and whatever
  rent and price the submit route finds later, what it charges leaves the
  recipient at least the amount quoted.
- `TypeCorrect`, `GuardExcludes`, `WithdrawalsPayForThemselves`:
  `Spec => []TypeOK`, `Spec => []GuardMatchesHandlers` and
  `Spec => NoLossButRentDrift`. The invariant is
  `IInv == TypeOK /\ GuardMatchesHandlers /\ Priced`, where `Priced` says that the
  fee of a request past its plan, and of a transaction in flight, is exactly the
  signature fee, the rent read and the priority attached. `Execute` is the only
  step that moves the wallet, and then the loss is the difference of two rents.
- `DoubleSendsWereLost`: `Spec => []DoubleSendNeedsLostReply`, and
  `AnswersTellTheTruth`: `Spec => AnswersAreTrue`. Both need what a handler knows
  of its transaction: `TruthInv` adds to `IInv` that nothing is sent before the
  handler waits for it, that what is in flight is waited for by its own handler or
  was lost sight of (`Followed`), and that a transaction that failed on a spent
  note failed on one that stays spent (`Truthful`). `StaysTrue` is what one step
  comes to; `Quiet` covers the steps before sending in one lemma.

- `SubmissionsAreShort`: `Spec => SubmissionsAreBounded`, the safety half of
  `EveryRequestAnswered`. `StepsLeft` numbers the awaits of `handleSubmit` and
  `FatesLeft` what can still become of the transaction; no step of anybody raises
  either, a handler's step lowers the first and a settlement the second. That a
  handler sends nothing where it has sent before (`SendsOnce`) is `Followed`.

### `TreeRebuildProofs`: for every history, node, corruption of the cache

The invariant is `IInv == TypeOK /\ Dated /\ ReadBehind /\ CheckedLength`
with the four properties: deposits land with a transaction that landed, the
account that was read was one of this chain, and a cache is checked without a
scan only if it is as long as the account counts.

- `VerifiedTreesOpen`: `Spec => []TreeOpensToTheChain`. The check gives it when the
  tree is returned (`MatchingRoot`), and a longer chain has the same prefixes.
- `ReturnedLeavesAreTheChains`: `Spec => []LeavesAreTheChains`, and
  `CacheStaysAPrefix`: `Spec => []CacheIsAPrefix`. Without an empty leaf a sequence
  is all of its root (`RootOfNonZero`), so a tree that matches the pool has its
  leaves (`MatchingLeaves`). That the placement adds no empty leaf of its own is
  `AssembleAddsNoZero`: a hole it fills has a place among the deposits it fills
  holes with.
- `WholeHistoryRebuilds`: `Spec => []CompleteHistoryRebuilds`. `WholeHistoryIsDense`:
  with the whole history and nothing unplaceable landed since the account was
  read, the deposits without an index are as many as the holes.
  `DenseIsTheChain`: then each is at a hole, so the two sets are one, and since
  both are in ascending order each leaf goes to its own hole. It asks for no
  whole history, only for as many leaves as the account counts: that is why an
  incremental scan without a cache that finds them all may conclude without a
  rescan. `CheckCachedKeeps`: an empty cache is checked only against an empty
  pool, which it matches.

- `RebuildsAreShort`: `Spec => RebuildIsBounded`, the safety half of
  `RebuildEnds`. `RebuildMoves` is the control of a rebuild, whatever it
  concludes; `StepsLeft` falls with each of its steps and nothing else moves it
  but the page being left.

`TransactionsAssumption` and `TamperedAssumption` say that what a transaction
lists, and what an entry that `loadCache` parses holds, are lists.

### `WithdrawProofs`: for every set of pools, notes, recipients, caps, quotes

- `TypeCorrect`: `Spec => []TypeOK`, with the page and its handlers in the
  states `PageStates` and `RunStates` allow, and the amounts of a quote that was
  accepted within the cap of the pool they are of.
- `WithdrawalIsBelieved`: `Spec => []DoneMeansWithdrawn`. Not inductive by
  itself: a page may go on to "done" for another note than its handler works on
  unless the two are tied. The invariant is `IInv == TypeOK /\ ScreensInOrder /\
  RunIsShown /\ DoneMeansSpent`. `RunIsShown`: a handler at work belongs to
  a page that was opened, and the mounted page shows the progress of its own,
  about the same note, so no control that changes the note is there.
  `ScreensInOrder`: no quote is under way from the confirmation screen on, so
  none moves the page under a handler, and a note and its amounts are there where
  they are used. Then only `ConfirmOnChain` of the page's own handler reaches
  "done", when it has found the page's note spent, and no step takes that back
  (`DoneMeansSpent`). What spent it is a proof the relayer was handed of that note
  (`SpentByProofs`, an invariant of its own), and `FeeIsAgreed` bounds its fee.
- `FeeIsAgreed`: `Spec => []FeeWithinTheCeilingShown`, and `GatesHold`:
  `Spec => []NothingOffCluster`. The first is inductive as it stands (every
  attempt validates its quote against the ceiling it carries from the click),
  the second given `TypeOK`.

- `WithdrawalsAreShort`: `Spec => WithdrawalIsBounded`, the safety half of
  `WithdrawalsEnd`. Its invariant is `AttemptsBounded`: no handler is at a later
  attempt than `MAX_STALE_ROOT_RETRIES`. Three steps for each attempt left and one
  for the look at the chain then fall with every step of a handler, to none when
  it has ended or its answer is stalled; only the button puts them up again.

### `DepositGateProofs`: for every set of wallets and pools, every denomination

- `DepositsArePayable`: `Spec => []StagedDepositIsPayable`, and
  `ContinueIsInformed`: `Spec => []ContinueMeansRead`. The invariant is
  `IInv == TypeOK /\ GateIsTrue /\ ReadsAreOfThePool /\ ChecksArePassed`.
  `ChecksArePassed` makes the first inductive: a handler that has gone past the
  cluster's check is on the cluster allowed, one past the wallet's had a wallet
  that could pay; the connection's cluster does not change, and neither `Pay` nor
  anything on the screens takes back that it could. The second needs the other
  two. `GateIsTrue`: the page's verdict comes from `Verify` only.
  `ReadsAreOfThePool`: whatever read is under way is of the pool selected, and
  what was found before counts only once that read has ended without an error. It
  is where the cancellation in `usePoolInfo` is used.

### `NoteVaultProofs`: for every set of tabs and notes, every clock

- `TypeCorrect`: `Spec => []TypeOK`. `TypeOK` says what a vault function has read
  before each of its steps, and that what is stored of a sent note has a time.
- `NotesAreKept`: `Spec => []NoteNeverLost`. Not inductive: `RemoveArray` deletes
  whatever the array holds at that moment, which is safe only because of what the
  same call did before. `ArrayIsCopied` says so: whoever is about to remove the
  array has a key, or is still to look at one, for each note of the array whose
  deposit may land, or the user has disposed of it. No tab can break it for
  another, since nobody adds to the array and a key goes only with a note that
  cannot land or that the user has let go.
- `RetryPaysOnce`: `Spec => []FailedAttemptSentNothing`. `AttemptsFit` ties the
  screen to the handler: an attempt under way is shown as such, a page on the
  confirm screen has no note but refused ones, and so has one about to make a
  note. Then each way back to that screen has to refuse the note, which the
  wallet's rejection and the failed preflight do.

  The invariant of the three is `IInv == TypeOK /\ ArrayIsCopied /\
  NoteNeverLost /\ AttemptsFit`, with a lemma for each step of a vault function
  and of a page.

- `StatusAdvances`: `Spec => StatusOnlyAdvances`. `markNote` reads an entry in one
  step and writes its copy, changed, in another, so a write may be of a copy that
  is out of date. `NoteInv`, one note at a time, is why it does no harm. As long
  as nothing stored or held says that a note was sent (`Unmarked`), only the page
  that made it touches it (`OneOwner`, `OwnersOnly`, `NotYetMade`): no
  reconciliation has it on its list, so no other tab can be ahead of that page
  (`FreshIsUnsent`, `SentBeforeMarked`). From then on all copies have the time
  that is stored (`CopiesAgree`), and the only marks left are confirmations,
  which write the highest status. `Quiet` is what most steps are to a note: one
  lemma, `QuietKeeps`, keeps the invariant for all of them, and only the making of
  the note, `List`, `LeafFound` and the two halves of a mark need more.

### `MonitorProofs`: for every set of pools, every denomination and rent

- `BaselinesLast`: `Spec => []BaselineSurvives`. What was first written has to be
  in the file as well as in the memory of a process that runs, since a restart
  reads the file (`BaselineKept`).
- `AlarmsHaveCauses`: `Spec => []CriticalHasACause`. The two reads of a pool may be
  of two moments, so the vault and the number of deposits need not belong
  together. `Honest` and `ReadHonestly` keep only what survives that: a vault the
  program alone wrote to has its rent and a whole number of denominations,
  whenever it was read. `BackedIsFine` then shows that no number of deposits read
  with it makes `VaultIntegrity` more than a warning.
- `LeaksAreTold`: `Spec => []OutOfStepIsNoticed`. `WrongIsSeen`: a vault out of step
  since the pass began is still to be read, or is read as out of step, or a
  finding signs for it; `OutOfStepIsSigned` is the arithmetic (`ShortOfWhole`: one
  vault cannot be both whole and short of whole by a fraction).

- `PassesAreShort`: `Spec => PassIsBounded`, the safety half of `PassesComplete`.
  Two steps for each pool left, which `TodoShrinks` counts, and those after the
  pools. That the pools are finitely many is the environment variable they are
  listed in.

The assumptions are those on the constants, named in each module, with no bound
on their size. The checked instances satisfy them.

### Only model-checked

Liveness (`EveryRequestAnswered`, `RebuildEnds`, `GateDecides`,
`WithdrawalsEnd`, `PassesComplete`) is beyond the prover, as is anything with
`ENABLED`. What is proved of all but `GateDecides` is the half that needs no
fairness, that the work left falls with each step and only a new start raises it
(`SubmissionsAreShort`, `RebuildsAreShort`, `WithdrawalsAreShort`,
`PassesAreShort`); that a step is always possible and taken is what TLC checks.
The four claims that section 6 lists first are refuted by TLC on an
instance, which is all a refutation needs.

## 6. Findings

Four claims go further than the code. None lets anybody take funds.

- `state.rs:320`: "Any actual insertion must move the root away from the empty
  value." A deposit of the zero commitment is accepted and does not
  (`pool_zero_leaf`).
- `withdraw.rs:538-540`: the vault guard "rejects nothing that used to pass - I
  could not construct a state where the two differ". After a rent increase it
  rejects while a deposit is live (`pool_vault_guard`).
- `api.js:320-321`: "a ceiling at or above them is never subsidised". The rent is
  read from a cache or a constant and may be higher when the transaction
  executes (`relayer_subsidy`). `NoLossButRentDrift` is what does hold.
- `noteVault.ts:123`, "confirmed" is "once seen on-chain": the deposit page never
  reads `value.err` of `confirmTransaction` (`Deposit.tsx:442`), which resolves
  for a reverted transaction too, as `tx.js:191` says of the same call. The page
  shows "Deposit successful!" for a deposit that reverted
  (`note_vault_success`).

Smaller ones, which follow from the modules but have no run:

- `merkle.ts:385-388`: the cache cannot only affect speed, as an incremental scan
  can miss a deposit that landed between the read of the account and the scan
  before: the full scan that then repairs it is what `CompleteHistoryRebuilds`
  relies on. A cache padded with an empty leaf passes the check of the root.
- `Withdraw.tsx:113-116`: the amounts shown are the pool's, but the handler of a
  quote asked for before the note was changed can set those of the other pool
  (`QuoteArrives`). The fee stays bounded by what was shown.
- `withdrawalCheck.ts:13-14`: "that transaction touched THIS note's nullifier
  account, so it is this withdrawal". Any landed transaction that lists the
  account passes (line 104): once the note is spent the page can say "done" and
  link to another transaction than the one that spent it. It says so of no note
  that is unspent (`DoneMeansWithdrawn`).
- `withdrawalCheck.ts:18-19`: "the funds went where the user asked" fails when an
  older proof of the same note, to another recipient, lands instead: any proof of
  the note creates the account the page looks at.
- `useRelayer.ts:14-19` has timeouts so that an unresponsive relayer does not leave
  the user "spinning forever with no way back". The timer is cleared when the
  headers arrive (line 47) and `res.text()` (line 53) has none, so a relayer that
  stalls the body still does: `WithdrawalsEnd` makes that exception.
- `WrongNetworkModal.tsx`: the modal can show a verdict about an earlier wallet
  or pool, as nothing cancels `runWalletCheck`; `NetworkGuard.tsx:55` says all is
  disabled while the page's own verdict allows. `DepositGate` has both.
- `checks.js:5-9`: a read of the upgrade authority that fails yields a CRITICAL
  finding beside the `RPC_ERROR`; `CriticalHasACause` names the exception.

## 7. Not modelled

- Note encoding, encryption, stealth addresses, Groth16 and Poseidon: cryptography
  over single values. A proof is a record of what it binds.
- Health, start-up and rate limits of the relayer: they read, or refuse a request
  before any state changes. The stealth and stats routes and the monitor's
  statistics read only.
- Events, compute units, account layout; how a transaction's log is decoded.
- What only shows: the FAQ, onboarding, the anonymity set, warnings about
  amounts, own wallets and high fees, the reminder of `NetworkGuard`.
- In `Monitor`: rent that changes (a constant there; `pool_vault_guard` shows the
  same on chain), thresholds of the relayer's balance, delivery by Telegram, and
  a zero denomination. Its node is assumed to show an account that exists: one
  that answers null without an error for the program's data or for a pool
  (`index.js:137`, `155`) would make an `UPGRADE_AUTHORITY_CHANGED` or `POOL_UNREADABLE`
  finding with nothing wrong. `CriticalHasACause` and `AlarmsHaveCauses` hold
  under these two assumptions.
- Operator scripts, deployment, tests; `deposit.circom`, the prototype circuit and
  the benchmark instruction, which the deployed program does not use.
