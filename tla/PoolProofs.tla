----------------------------- MODULE PoolProofs -----------------------------
(***************************************************************************)
(* Theorems about Pool, for every value of its constants.                  *)
(***************************************************************************)
EXTENDS Pool, FiniteSetTheorems, SequenceTheorems, TLAPS

-----------------------------------------------------------------------------
(* Lemmas about the operators of the model *)

\* A rent minimum is a natural number (the runtime's minimum_balance).
LEMMA MinimumBalanceType ==
    ASSUME NEW rate \in Nat, NEW space \in Nat
    PROVE  MinimumBalance(rate, space) \in Nat
BY DEF MinimumBalance, AccountOverhead

\* Moving an amount the payer has keeps every balance a natural number, takes
\* it from the payer only, and touches nobody else.
LEMMA MoveLemma ==
    ASSUME NEW ledger \in [Accounts -> Nat],
           NEW from \in Accounts, NEW to \in Accounts, NEW amount \in Nat,
           ledger[from] >= amount
    PROVE  /\ Move(ledger, from, to, amount) \in [Accounts -> Nat]
           /\ \A a \in Accounts :
                 a # from /\ a # to =>
                     Move(ledger, from, to, amount)[a] = ledger[a]
           /\ from # to =>
                 /\ Move(ledger, from, to, amount)[from] = ledger[from] - amount
                 /\ Move(ledger, from, to, amount)[to] = ledger[to] + amount
BY DEF Move

\* Crediting an account keeps the ledger well typed and the others unchanged.
LEMMA CreditLemma ==
    ASSUME NEW ledger \in [Accounts -> Nat], NEW a \in Accounts, NEW amount \in Nat
    PROVE  /\ Credit(ledger, a, amount) \in [Accounts -> Nat]
           /\ \A b \in Accounts :
                 b # a => Credit(ledger, a, amount)[b] = ledger[b]
BY DEF Credit

\* What is missing to the rent minimum is a natural number.
LEMMA ShortfallType ==
    ASSUME TypeOK, NEW a \in Accounts, NEW space \in Nat
    PROVE  Shortfall(a, space) \in Nat
<1>1. rentRate \in Nat /\ lamports[a] \in Nat
  BY SizesAssumption DEF TypeOK
<1>2. MinimumBalance(rentRate, space) \in Nat
  BY <1>1, MinimumBalanceType
<1>3. QED
  BY <1>1, <1>2 DEF Shortfall

\* An accepted fee split leaves the recipient a positive amount, whether the
\* protocol fee goes to the treasury or to the recipient (route_treasury_fee).
LEMMA AmountPaidType ==
    ASSUME NEW ledger, NEW relayer, NEW recipient,
           NEW taken \in Nat, NEW feeMax \in Nat,
           FeeSplitAccepted(Denomination, taken, feeMax)
    PROVE  /\ FeePaid(ledger, relayer, recipient) \in Nat
           /\ AmountPaid(ledger, relayer, recipient, taken) \in Nat
<1>1. TreasuryFee(Denomination) \in Nat
  BY SizesAssumption DEF TreasuryFee, TreasuryFeeDivisor
<1>2. FeePaid(ledger, relayer, recipient) \in {0, TreasuryFee(Denomination)}
  BY DEF FeePaid, RoutedFee
<1>3. Denomination - TreasuryFee(Denomination) - taken > 0
  BY DEF FeeSplitAccepted, UserAmount
<1>4. QED
  BY <1>1, <1>2, <1>3, SizesAssumption DEF AmountPaid

-----------------------------------------------------------------------------
(* The ledger a withdrawal leaves *)

\* An accepted withdrawal leaves a well-typed ledger, from which the vault has
\* lost exactly one denomination: no payee aliases it, and the funding of the
\* nullifier account does not touch it.
LEMMA WithdrawLedgerLemma ==
    ASSUME TypeOK,
           NEW p, NEW hash \in HashBytes, NEW relayer \in Wallets,
           NEW feeMax \in Nat, NEW taken \in Nat, NEW recipient \in Accounts,
           WithdrawAccepted(p, hash, relayer, feeMax, taken, recipient)
    PROVE  LET post == WithdrawLedger(hash, relayer, recipient, taken)
           IN /\ post \in [Accounts -> Nat]
              /\ post[VaultPda] = lamports[VaultPda] - Denomination
<1> DEFINE short == Shortfall(hash, NullifierSpace)
           funded == NullifierFunded(hash, relayer)
           debited == [funded EXCEPT ![VaultPda] = @ - Denomination]
           fee == FeePaid(funded, relayer, recipient)
           amount == AmountPaid(funded, relayer, recipient, taken)
           c1 == Credit(debited, treasury, fee)
           c2 == Credit(c1, relayer, taken)
           c3 == Credit(c2, recipient, amount)
<1>1. /\ hash \in Accounts /\ relayer \in Accounts /\ treasury \in Accounts
      /\ VaultPda \in Accounts /\ hash # VaultPda
      /\ relayer # VaultPda /\ treasury # VaultPda /\ recipient # VaultPda
  BY AccountsAssumption
     DEF TypeOK, Accounts, SystemAccounts, WithdrawAccepted, AccountsDistinct
<1>2. short \in Nat /\ lamports[relayer] >= short /\ lamports \in [Accounts -> Nat]
  BY <1>1, ShortfallType DEF WithdrawAccepted, NullifierSpace, TypeOK
<1>3. funded \in [Accounts -> Nat] /\ funded[VaultPda] = lamports[VaultPda]
  <2>1. funded = Move(lamports, relayer, hash, short)
    BY DEF NullifierFunded
  <2> HIDE DEF funded, short
  <2>2. QED
    BY <2>1, <1>1, <1>2, MoveLemma
<1>4. fee \in Nat /\ amount \in Nat
  <2>1. FeeSplitAccepted(Denomination, taken, feeMax)
    BY DEF WithdrawAccepted
  <2>2. QED
    BY <2>1, AmountPaidType
<1>5. funded[VaultPda] >= Denomination
  <2>1. MinimumBalance(rentRate, VaultSpace) \in Nat
    BY MinimumBalanceType, SizesAssumption DEF TypeOK, VaultSpace
  <2>2. funded[VaultPda] >= Denomination + MinimumBalance(rentRate, VaultSpace)
    BY DEF WithdrawAccepted, VaultGuard
  <2> HIDE DEF funded
  <2>3. funded[VaultPda] \in Nat
    BY <1>1, <1>3
  <2>4. QED
    BY <2>1, <2>2, <2>3, SizesAssumption
<1>6. /\ debited \in [Accounts -> Nat]
      /\ debited[VaultPda] = lamports[VaultPda] - Denomination
  <2> HIDE DEF funded
  <2>1. QED
    BY <1>1, <1>3, <1>5, SizesAssumption
<1> HIDE DEF debited, fee, amount
<1>7. c1 \in [Accounts -> Nat] /\ c1[VaultPda] = debited[VaultPda]
  BY <1>1, <1>4, <1>6, CreditLemma
<1> HIDE DEF c1
<1>8. c2 \in [Accounts -> Nat] /\ c2[VaultPda] = c1[VaultPda]
  BY <1>1, <1>7, CreditLemma
<1> HIDE DEF c2
<1>9. c3 \in [Accounts -> Nat] /\ c3[VaultPda] = c2[VaultPda]
  BY <1>1, <1>4, <1>8, CreditLemma
<1>10. WithdrawLedger(hash, relayer, recipient, taken) = c3
  BY DEF WithdrawLedger, PaidOut, c1, c2, debited, fee, amount
<1> HIDE DEF c3
<1>11. QED
  BY <1>6, <1>7, <1>8, <1>9, <1>10

-----------------------------------------------------------------------------
(* Type correctness *)

\* The ring index stays in the ring.
LEMMA NextRootIndexType ==
    ASSUME TypeOK
    PROVE  NextRootIndex \in 0 .. RootHistorySize - 1
<1>1. RootHistorySize \in Nat /\ RootHistorySize > 0 /\ rootIndex + 1 \in Nat
  BY SizesAssumption DEF TypeOK
<1>2. \A a, n \in Nat : n > 0 => a % n \in 0 .. n - 1
  OBVIOUS
<1>3. QED
  BY <1>1, <1>2 DEF NextRootIndex

\* The root of the empty tree is a root, and has no leaf.
LEMMA EmptyRootDomain == DOMAIN EmptyRoot = {}
BY DEF EmptyRoot, RootOf

\* The initial state is well typed.
LEMMA InitType == Init => TypeOK
<1> SUFFICES ASSUME Init PROVE TypeOK
  OBVIOUS
<1>1. treasury \in SystemAccounts
  BY AccountsAssumption DEF Init, SystemAccounts, Accounts
<1>2. leaves \in Seq(Commitments \ {NonCanonicalLeaf}) /\ Len(leaves) = 0
  BY DEF Init
<1>3. lamports \in [Accounts -> Nat]
  BY SizesAssumption DEF Init
<1>4. \A k \in DOMAIN rootHistory : IsRoot(rootHistory[k])
  BY DEF Init, IsRoot
<1>5. /\ initialized \in BOOLEAN /\ paused \in BOOLEAN /\ spent \subseteq HashBytes
      /\ proofs = {} /\ rentRate \in RentRates /\ vaultBase \in Nat
  BY DEF Init
<1>6. DOMAIN rootHistory = 0 .. RootHistorySize - 1
  BY DEF Init
<1>7. rootIndex \in 0 .. RootHistorySize - 1 /\ Len(leaves) <= SaturationThreshold
  BY <1>2, SizesAssumption DEF Init
<1>8. QED
  BY <1>1, <1>2, <1>3, <1>4, <1>5, <1>6, <1>7 DEF TypeOK

\* initialize_pool keeps the types: both accounts are topped up from the
\* admin's balance.
LEMMA InitializeType ==
    ASSUME TypeOK, NEW tre \in Treasuries, InitializePool(tre)
    PROVE  TypeOK'
<1> DEFINE forPool  == Shortfall(PoolPda, PoolSpace)
           forVault == Shortfall(VaultPda, VaultSpace)
           l1 == Move(lamports, Admin, PoolPda, forPool)
           l2 == Move(l1, Admin, VaultPda, forVault)
<1>1. /\ Admin \in Accounts /\ PoolPda \in Accounts /\ VaultPda \in Accounts
      /\ Admin # PoolPda /\ Admin # VaultPda
  BY AccountsAssumption DEF Accounts
<1>2. forPool \in Nat /\ forVault \in Nat /\ lamports \in [Accounts -> Nat]
  <2>1. PoolSpace \in Nat /\ VaultSpace \in Nat
    BY DEF PoolSpace, VaultSpace
  <2>2. forPool \in Nat /\ forVault \in Nat
    BY <1>1, <2>1, ShortfallType
  <2>3. QED
    BY <2>2 DEF TypeOK
<1>3. lamports[Admin] >= forPool + forVault /\ lamports' = l2
  BY DEF InitializePool
<1> HIDE DEF forPool, forVault
<1>4. l1 \in [Accounts -> Nat] /\ l1[Admin] = lamports[Admin] - forPool
  <2>1. lamports[Admin] \in Nat /\ lamports[Admin] >= forPool
    BY <1>1, <1>2, <1>3
  <2>2. QED
    BY <1>1, <1>2, <2>1, MoveLemma
<1> HIDE DEF l1
<1>5. l2 \in [Accounts -> Nat]
  <2>1. l1[Admin] >= forVault
    BY <1>1, <1>2, <1>3, <1>4
  <2>2. QED
    BY <1>1, <1>2, <1>4, <2>1, MoveLemma
<1> HIDE DEF l2
<1>6. lamports' \in [Accounts -> Nat] /\ vaultBase' \in Nat
  BY <1>1, <1>3, <1>5 DEF InitializePool, l1, l2, forPool, forVault
<1>7. \A k \in DOMAIN rootHistory' : IsRoot(rootHistory[k])'
  BY EmptyRootDomain DEF InitializePool, IsRoot
<1>8. leaves' \in Seq(Commitments \ {NonCanonicalLeaf}) /\ Len(leaves') = 0
  BY DEF InitializePool
<1>9. /\ initialized' \in BOOLEAN /\ paused' \in BOOLEAN
      /\ treasury' \in SystemAccounts
      /\ spent' = spent /\ proofs' = proofs /\ rentRate' = rentRate
      /\ DOMAIN rootHistory' = 0 .. RootHistorySize - 1
      /\ rootIndex' = 0
  BY DEF InitializePool
<1>10. rootIndex' \in 0 .. RootHistorySize - 1 /\ Len(leaves') <= SaturationThreshold
  BY <1>8, <1>9, SizesAssumption
<1>11. QED
  BY <1>6, <1>7, <1>8, <1>9, <1>10 DEF TypeOK

\* An insertion keeps the tree and the ring well typed.
LEMMA InsertType ==
    ASSUME TypeOK, NEW leaf \in Commitments, Insert(leaf)
    PROVE  /\ leaves' \in Seq(Commitments \ {NonCanonicalLeaf})
           /\ Len(leaves') = Len(leaves) + 1
           /\ Len(leaves') <= SaturationThreshold
           /\ DOMAIN leaves' = 1 .. Len(leaves')
           /\ DOMAIN leaves = 1 .. Len(leaves)
           /\ \A i \in DOMAIN leaves : leaves'[i] = leaves[i]
           /\ DOMAIN rootHistory' = 0 .. RootHistorySize - 1
           /\ \A k \in DOMAIN rootHistory' : IsRoot(rootHistory[k])'
           /\ rootIndex' \in 0 .. RootHistorySize - 1
<1> DEFINE Leaf == Commitments \ {NonCanonicalLeaf}
<1>1. leaves \in Seq(Leaf) /\ leaf \in Leaf /\ leaves' = Append(leaves, leaf)
  BY DEF TypeOK, Insert, InsertAccepted
<1>2. /\ leaves' \in Seq(Leaf) /\ Len(leaves') = Len(leaves) + 1
      /\ DOMAIN leaves' = 1 .. Len(leaves') /\ DOMAIN leaves = 1 .. Len(leaves)
      /\ \A i \in DOMAIN leaves : leaves'[i] = leaves[i]
  BY <1>1
<1>3. Len(leaves') <= SaturationThreshold
  BY <1>1, <1>2, SizesAssumption DEF Insert, InsertAccepted
<1>4. IsRoot(RootOf(leaves))'
  <2>1. \A i \in DOMAIN leaves' : leaves'[i] \in Leaf
    BY <1>2
  <2>2. QED
    BY <1>2, <2>1 DEF IsRoot, RootOf, Commitments
<1>5. \A k \in 0 .. RootHistorySize - 1 :
          IsRoot(rootHistory[k]) => IsRoot(rootHistory[k])'
               \/ rootHistory'[k] # rootHistory[k]
  <2>1. 1 .. Len(leaves) \subseteq 1 .. Len(leaves')
    BY <1>1, <1>2
  <2>2. QED
    BY <2>1 DEF IsRoot
<1>6. NextRootIndex \in 0 .. RootHistorySize - 1
  BY NextRootIndexType
<1>7. rootHistory' = [rootHistory EXCEPT ![NextRootIndex] = RootOf(leaves')]
  BY DEF Insert
<1>8. DOMAIN rootHistory' = 0 .. RootHistorySize - 1
  BY <1>7 DEF TypeOK
<1>9. \A k \in DOMAIN rootHistory' : IsRoot(rootHistory[k])'
  <2> SUFFICES ASSUME NEW k \in 0 .. RootHistorySize - 1
               PROVE  IsRoot(rootHistory[k])'
    BY <1>8
  <2>1. CASE k = NextRootIndex
    BY <2>1, <1>4, <1>6, <1>7 DEF TypeOK, IsRoot
  <2>2. CASE k # NextRootIndex
    BY <2>2, <1>5, <1>6, <1>7 DEF TypeOK
  <2>3. QED
    BY <2>1, <2>2
<1>10. QED
  BY <1>2, <1>3, <1>6, <1>8, <1>9 DEF Insert

\* deposit keeps the types: the depositor has the denomination.
LEMMA DepositType ==
    ASSUME TypeOK, NEW d \in Wallets, NEW c \in Commitments, Deposit(d, c)
    PROVE  /\ TypeOK'
           /\ lamports'[VaultPda] = lamports[VaultPda] + Denomination
<1>1. Insert(c)
  BY DEF Deposit
<1>2. /\ d \in Accounts /\ VaultPda \in Accounts /\ d # VaultPda
      /\ lamports \in [Accounts -> Nat] /\ lamports[d] >= Denomination
      /\ lamports' = Move(lamports, d, VaultPda, Denomination)
  BY AccountsAssumption DEF Deposit, Accounts, TypeOK
<1>3. /\ lamports' \in [Accounts -> Nat]
      /\ lamports'[VaultPda] = lamports[VaultPda] + Denomination
  BY <1>2, MoveLemma, SizesAssumption
<1>4. /\ initialized' = initialized /\ paused' = paused /\ treasury' = treasury
      /\ spent' = spent /\ proofs' = proofs /\ rentRate' = rentRate
      /\ vaultBase' = vaultBase
  BY DEF Deposit
<1>5. /\ leaves' \in Seq(Commitments \ {NonCanonicalLeaf})
      /\ Len(leaves') <= SaturationThreshold
      /\ DOMAIN rootHistory' = 0 .. RootHistorySize - 1
      /\ \A k \in DOMAIN rootHistory' : IsRoot(rootHistory[k])'
      /\ rootIndex' \in 0 .. RootHistorySize - 1
  BY <1>1, InsertType
<1>6. QED
  BY <1>3, <1>4, <1>5 DEF TypeOK

\* An account's type conditions other than the ledger and the nullifiers carry
\* over a step that changes nothing else.
LEMMA RestUnchangedType ==
    ASSUME TypeOK,
           UNCHANGED <<initialized, paused, treasury, leaves, rootHistory,
                       rootIndex, vaultBase>>,
           lamports' \in [Accounts -> Nat],
           spent' \subseteq HashBytes,
           \A p \in proofs' : p.note \in Notes /\ p.at \in Nat,
           rentRate' \in RentRates
    PROVE  TypeOK'
<1>1. \A k \in DOMAIN rootHistory' : IsRoot(rootHistory[k])'
  BY DEF TypeOK, IsRoot
<1>2. QED
  BY <1>1 DEF TypeOK

\* withdraw keeps the types, takes one denomination from the vault and marks
\* one hash that was not marked.
LEMMA WithdrawType ==
    ASSUME TypeOK, NEW p, NEW hash \in HashBytes, NEW relayer \in Wallets,
           NEW feeMax \in Nat, NEW taken \in Nat, NEW recipient \in Accounts,
           Withdraw(p, hash, relayer, feeMax, taken, recipient)
    PROVE  /\ TypeOK'
           /\ lamports'[VaultPda] = lamports[VaultPda] - Denomination
           /\ hash \notin spent /\ spent' = spent \cup {hash}
<1>1. /\ WithdrawAccepted(p, hash, relayer, feeMax, taken, recipient)
      /\ lamports' = WithdrawLedger(hash, relayer, recipient, taken)
      /\ spent' = spent \cup {hash}
      /\ UNCHANGED <<initialized, paused, treasury, leaves, rootHistory,
                     rootIndex, proofs, rentRate, vaultBase>>
  BY DEF Withdraw
<1>2. /\ lamports' \in [Accounts -> Nat]
      /\ lamports'[VaultPda] = lamports[VaultPda] - Denomination
  BY <1>1, WithdrawLedgerLemma
<1>3. hash \notin spent
  BY <1>1 DEF WithdrawAccepted, NotSpent
<1>4. /\ spent' \subseteq HashBytes /\ rentRate' \in RentRates
      /\ \A q \in proofs' : q.note \in Notes /\ q.at \in Nat
  BY <1>1 DEF TypeOK
<1>5. QED
  BY <1>1, <1>2, <1>3, <1>4, RestUnchangedType

\* pause_pool and unpause_pool keep the types.
LEMMA PauseType ==
    ASSUME TypeOK, NEW w, PausePool(w) \/ UnpausePool(w)
    PROVE  TypeOK'
<1>1. /\ paused' \in BOOLEAN
      /\ UNCHANGED <<initialized, treasury, leaves, rootHistory, rootIndex,
                     lamports, spent, proofs, rentRate, vaultBase>>
  BY DEF PausePool, UnpausePool
<1>2. \A k \in DOMAIN rootHistory' : IsRoot(rootHistory[k])'
  BY <1>1 DEF TypeOK, IsRoot
<1>3. QED
  BY <1>1, <1>2 DEF TypeOK

\* Making a proof keeps the types.
LEMMA ProveType ==
    ASSUME TypeOK, NEW n \in Notes, NEW relayer, NEW feeMax, NEW recipient,
           Prove(n, relayer, feeMax, recipient)
    PROVE  TypeOK'
<1>1. UNCHANGED <<initialized, paused, treasury, leaves, rootHistory,
                  rootIndex, lamports, spent, rentRate, vaultBase>>
  BY DEF Prove
<1>2. Len(leaves) \in Nat
  BY DEF TypeOK
<1>3. \A p \in proofs' : p.note \in Notes /\ p.at \in Nat
  BY <1>2 DEF Prove, TypeOK
<1>4. QED
  BY <1>1, <1>3, RestUnchangedType DEF TypeOK

\* A plain transfer keeps the types, and no wallet can take from the vault.
LEMMA TransferType ==
    ASSUME TypeOK, NEW from \in Senders, NEW to \in TransferTargets,
           NEW amount \in TransferAmounts \cup {lamports[from]},
           Transfer(from, to, amount)
    PROVE  TypeOK' /\ lamports'[VaultPda] >= lamports[VaultPda]
<1>1. /\ from \in Accounts /\ to \in Accounts /\ VaultPda \in Accounts
      /\ from # VaultPda /\ from # to
  BY AccountsAssumption, ChoicesAssumption DEF Accounts, Transfer
<1>2. /\ lamports \in [Accounts -> Nat] /\ amount \in Nat
      /\ lamports[from] >= amount /\ lamports' = Move(lamports, from, to, amount)
  BY <1>1, ChoicesAssumption DEF TypeOK, Transfer
<1>3. /\ lamports' \in [Accounts -> Nat]
      /\ lamports'[VaultPda] >= lamports[VaultPda]
  <2>1. CASE to = VaultPda
    BY <2>1, <1>1, <1>2, MoveLemma
  <2>2. CASE to # VaultPda
    BY <2>2, <1>1, <1>2, MoveLemma
  <2>3. QED
    BY <2>1, <2>2
<1>4. UNCHANGED <<initialized, paused, treasury, leaves, rootHistory,
                  rootIndex, spent, proofs, rentRate, vaultBase>>
  BY DEF Transfer
<1>5. QED
  BY <1>3, <1>4, RestUnchangedType DEF TypeOK

\* A change of rent keeps the types.
LEMMA SetRentRateType ==
    ASSUME TypeOK, NEW rate \in RentRates, SetRentRate(rate)
    PROVE  TypeOK'
BY RestUnchangedType DEF SetRentRate, TypeOK

\* Every step keeps the types.
LEMMA NextType == TypeOK /\ [Next]_vars => TypeOK'
<1> SUFFICES ASSUME TypeOK, [Next]_vars PROVE TypeOK'
  OBVIOUS
<1>1. CASE SomeInitialize
  BY <1>1, InitializeType DEF SomeInitialize
<1>2. CASE SomeDeposit
  BY <1>2, DepositType DEF SomeDeposit
<1>3. CASE SomeWithdraw
  BY <1>3, WithdrawType, ChoicesAssumption, SizesAssumption DEF SomeWithdraw
<1>4. CASE SomePause
  BY <1>4, PauseType DEF SomePause
<1>5. CASE SomeProve
  BY <1>5, ProveType DEF SomeProve
<1>6. CASE SomeTransfer
  BY <1>6, TransferType DEF SomeTransfer
<1>7. CASE SomeRentChange
  BY <1>7, SetRentRateType DEF SomeRentChange
<1>8. CASE UNCHANGED vars
  BY <1>8, RestUnchangedType DEF vars, TypeOK
<1>9. QED
  BY <1>1, <1>2, <1>3, <1>4, <1>5, <1>6, <1>7, <1>8 DEF Next

\* Type correctness: whatever instructions, transfers and rent changes happen,
\* balances stay natural numbers (no account is overdrawn), the tree never
\* passes its saturation threshold and the ring index never leaves the ring.
THEOREM TypeCorrect == Spec => []TypeOK
BY InitType, NextType, PTL DEF Spec

-----------------------------------------------------------------------------
(* The inductive invariant *)

\* There are finitely many nullifier accounts.
LEMMA SpentFinite ==
    ASSUME NEW S, S \subseteq HashBytes
    PROVE  IsFiniteSet(S) /\ Cardinality(S) \in Nat
<1>1. IsFiniteSet({0, 1})
  <2>1. IsFiniteSet({0})
    BY FS_Singleton
  <2>2. {0, 1} = {0} \cup {1}
    OBVIOUS
  <2>3. QED
    BY <2>1, <2>2, FS_AddElement
<1>2. IsFiniteSet(HashBytes)
  BY <1>1, NotesAssumption, FS_Product DEF HashBytes
<1>3. IsFiniteSet(S)
  BY <1>2, FS_Subset
<1>4. QED
  BY <1>3, FS_CardinalityType

\* The initial state satisfies the invariant.
LEMMA InitIInv == Init => IInv
<1>1. Init => EmptyUntilCreated /\ RootsComeFromLeaves /\ SpentAreDeposited
              /\ VaultSolvent
  BY DEF Init, EmptyUntilCreated, RootsComeFromLeaves, SpentAreDeposited,
         VaultSolvent
<1>2. QED
  BY <1>1, InitType DEF IInv

\* initialize_pool establishes the invariant: one empty root, nothing owed.
LEMMA InitializeIInv ==
    ASSUME IInv, NEW tre \in Treasuries, InitializePool(tre)
    PROVE  IInv'
<1>1. TypeOK /\ TypeOK'
  BY InitializeType DEF IInv
<1>2. /\ initialized' = TRUE /\ leaves' = <<>> /\ spent' = spent /\ spent = {}
      /\ vaultBase' = lamports'[VaultPda]
      /\ rootHistory' = [k \in 0 .. RootHistorySize - 1 |->
                            IF k = 0 THEN EmptyRoot ELSE NoRoot]
  BY DEF InitializePool, IInv, EmptyUntilCreated
<1>3. EmptyUntilCreated' /\ SpentAreDeposited'
  BY <1>2 DEF EmptyUntilCreated, SpentAreDeposited
<1>4. RootsComeFromLeaves'
  BY <1>2, EmptyRootDomain DEF RootsComeFromLeaves
<1>5. VaultSolvent'
  <2>1. Len(leaves') = 0 /\ Cardinality(spent') = 0
    BY <1>2, FS_EmptySet
  <2>2. vaultBase' \in Nat /\ Denomination * (0 - 0) = 0
    BY <1>1, SizesAssumption DEF TypeOK
  <2>3. QED
    BY <1>2, <2>1, <2>2 DEF VaultSolvent
<1>6. QED
  BY <1>1, <1>3, <1>4, <1>5 DEF IInv

\* deposit preserves the invariant: the new leaf and the new denomination come
\* together.
LEMMA DepositIInv ==
    ASSUME IInv, NEW d \in Wallets, NEW c \in Commitments, Deposit(d, c)
    PROVE  IInv'
<1>1. TypeOK /\ TypeOK' /\ lamports'[VaultPda] = lamports[VaultPda] + Denomination
  BY DepositType DEF IInv
<1>2. /\ Insert(c) /\ initialized /\ initialized'
      /\ spent' = spent /\ vaultBase' = vaultBase
  BY DEF Deposit
<1>3. /\ Len(leaves') = Len(leaves) + 1 /\ Len(leaves) \in Nat
      /\ DOMAIN leaves \subseteq DOMAIN leaves'
      /\ \A i \in DOMAIN leaves : leaves'[i] = leaves[i]
  <2>1. Len(leaves) \in Nat
    BY <1>1 DEF TypeOK
  <2>2. QED
    BY <1>1, <1>2, <2>1, InsertType
<1>4. EmptyUntilCreated'
  BY <1>2 DEF EmptyUntilCreated
<1>5. RootsComeFromLeaves'
  <2> SUFFICES ASSUME NEW k \in 0 .. RootHistorySize - 1,
                      rootHistory'[k] # NoRoot,
                      NEW i \in DOMAIN rootHistory'[k]
               PROVE  i \in DOMAIN leaves' /\ rootHistory'[k][i] = leaves'[i]
    BY DEF RootsComeFromLeaves
  <2>1. /\ rootHistory' = [rootHistory EXCEPT ![NextRootIndex] = RootOf(leaves')]
        /\ DOMAIN rootHistory = 0 .. RootHistorySize - 1
    BY <1>1, <1>2 DEF Insert, TypeOK
  <2>2. CASE k = NextRootIndex
    <3>1. rootHistory'[k] = RootOf(leaves')
      BY <2>1, <2>2
    <3>2. QED
      BY <3>1 DEF RootOf
  <2>3. CASE k # NextRootIndex
    <3>1. rootHistory'[k] = rootHistory[k]
      BY <2>1, <2>3
    <3>2. QED
      BY <3>1, <1>3 DEF IInv, RootsComeFromLeaves
  <2>4. QED
    BY <2>2, <2>3
<1>6. SpentAreDeposited'
  <2>1. DepositedNullifiers \subseteq DepositedNullifiers'
    BY <1>3 DEF DepositedNullifiers
  <2>2. QED
    BY <1>2, <2>1 DEF IInv, SpentAreDeposited
<1>7. VaultSolvent'
  <2> DEFINE owed == Len(leaves) - Cardinality(spent)
  <2>1. Cardinality(spent) \in Nat
    BY <1>1, SpentFinite DEF TypeOK
  <2>2. owed \in Int /\ Len(leaves') - Cardinality(spent') = owed + 1
    BY <1>2, <1>3, <2>1
  <2>3. Denomination * (owed + 1) = Denomination * owed + Denomination
        /\ Denomination * owed \in Int
    <3> HIDE DEF owed
    <3>1. QED
      BY <2>2, SizesAssumption
  <2>4. lamports[VaultPda] >= vaultBase + Denomination * owed
    BY <1>2 DEF IInv, VaultSolvent
  <2>5. lamports[VaultPda] \in Nat /\ vaultBase \in Nat
    BY <1>1, AccountsAssumption DEF TypeOK, Accounts
  <2> HIDE DEF owed
  <2>6. lamports'[VaultPda] >= vaultBase' + Denomination * (owed + 1)
    BY <1>1, <1>2, <2>2, <2>3, <2>4, <2>5, SizesAssumption
  <2>7. QED
    BY <2>2, <2>6 DEF VaultSolvent
<1>8. QED
  BY <1>1, <1>4, <1>5, <1>6, <1>7 DEF IInv

\* withdraw preserves the invariant: one hash is marked and one denomination
\* leaves, and the hash is the canonical one of a note that is in the tree.
LEMMA WithdrawIInv ==
    ASSUME IInv, NEW p \in proofs, NEW hash \in HashBytes, NEW relayer \in Wallets,
           NEW feeMax \in Nat, NEW taken \in Nat, NEW recipient \in Accounts,
           Withdraw(p, hash, relayer, feeMax, taken, recipient)
    PROVE  IInv'
<1>1. /\ TypeOK /\ TypeOK'
      /\ lamports'[VaultPda] = lamports[VaultPda] - Denomination
      /\ hash \notin spent /\ spent' = spent \cup {hash}
  BY WithdrawType DEF IInv
<1>2. /\ initialized /\ initialized'
      /\ leaves' = leaves /\ rootHistory' = rootHistory /\ vaultBase' = vaultBase
      /\ IsCanonicalFr(hash) /\ RootAccepted(p.root) /\ Groth16Verifies(p, hash)
  BY DEF Withdraw, WithdrawAccepted
<1>3. EmptyUntilCreated' /\ RootsComeFromLeaves'
  BY <1>2 DEF IInv, EmptyUntilCreated, RootsComeFromLeaves
<1>4. SpentAreDeposited'
  <2>1. p.note \in Notes
    BY <1>1 DEF TypeOK
  <2>2. PICK k \in 0 .. RootHistorySize - 1 :
            p.root # NoRoot /\ rootHistory[k] = p.root
    BY <1>2 DEF RootAccepted, IsKnownRoot
  <2>3. PICK i \in DOMAIN p.root : p.root[i] = p.note
    BY <1>2 DEF Groth16Verifies
  <2>4. i \in DOMAIN leaves /\ leaves[i] = p.note
    BY <2>2, <2>3 DEF IInv, RootsComeFromLeaves
  <2>5. hash[1] \in DepositedNullifiers
    BY <1>2, <2>1, <2>4 DEF Groth16Verifies, DepositedNullifiers
  <2>6. DepositedNullifiers' = DepositedNullifiers
    BY <1>2 DEF DepositedNullifiers
  <2>7. QED
    BY <1>1, <1>2, <2>5, <2>6 DEF IInv, SpentAreDeposited, IsCanonicalFr
<1>5. VaultSolvent'
  <2> DEFINE owed == Len(leaves) - Cardinality(spent)
  <2>1. Cardinality(spent) \in Nat /\ IsFiniteSet(spent)
    BY <1>1, SpentFinite DEF TypeOK
  <2>2. Cardinality(spent') = Cardinality(spent) + 1
    BY <1>1, <2>1, FS_AddElement
  <2>3. Len(leaves) \in Nat
    BY <1>1 DEF TypeOK
  <2>4. owed \in Int /\ Len(leaves') - Cardinality(spent') = owed - 1
    BY <1>2, <2>1, <2>2, <2>3
  <2>5. Denomination * (owed - 1) = Denomination * owed - Denomination
        /\ Denomination * owed \in Int
    <3> HIDE DEF owed
    <3>1. QED
      BY <2>4, SizesAssumption
  <2>6. lamports[VaultPda] >= vaultBase + Denomination * owed
    BY <1>2 DEF IInv, VaultSolvent
  <2>7. lamports[VaultPda] \in Nat /\ vaultBase \in Nat
    BY <1>1, AccountsAssumption DEF TypeOK, Accounts
  <2> HIDE DEF owed
  <2>8. lamports'[VaultPda] >= vaultBase' + Denomination * (owed - 1)
    BY <1>1, <1>2, <2>4, <2>5, <2>6, <2>7, SizesAssumption
  <2>9. QED
    BY <2>4, <2>8 DEF VaultSolvent
<1>6. QED
  BY <1>1, <1>3, <1>4, <1>5 DEF IInv

\* A step that leaves the pool and its nullifiers alone and takes nothing from
\* the vault preserves the invariant.
LEMMA OutsideIInv ==
    ASSUME IInv, TypeOK',
           UNCHANGED <<initialized, leaves, rootHistory, spent, vaultBase>>,
           lamports'[VaultPda] >= lamports[VaultPda]
    PROVE  IInv'
<1>1. EmptyUntilCreated' /\ RootsComeFromLeaves'
  BY DEF IInv, EmptyUntilCreated, RootsComeFromLeaves
<1>2. SpentAreDeposited'
  BY DEF IInv, SpentAreDeposited, DepositedNullifiers
<1>3. VaultSolvent'
  <2> DEFINE floor == vaultBase + Denomination * (Len(leaves) - Cardinality(spent))
  <2>1. floor' = floor
    OBVIOUS
  <2>2. floor \in Int
    <3>1. Cardinality(spent) \in Nat /\ Len(leaves) \in Nat /\ vaultBase \in Nat
      BY SpentFinite DEF IInv, TypeOK
    <3>2. QED
      BY <3>1, SizesAssumption
  <2>3. lamports[VaultPda] \in Nat /\ lamports'[VaultPda] \in Nat
    BY AccountsAssumption DEF IInv, TypeOK, Accounts
  <2>4. initialized => lamports[VaultPda] >= floor
    BY DEF IInv, VaultSolvent
  <2> HIDE DEF floor
  <2>5. initialized' => lamports'[VaultPda] >= floor'
    BY <2>1, <2>2, <2>3, <2>4
  <2>6. QED
    BY <2>5 DEF VaultSolvent, floor
<1>4. QED
  BY <1>1, <1>2, <1>3 DEF IInv

\* Every step preserves the invariant.
LEMMA NextIInv == IInv /\ [Next]_vars => IInv'
<1> SUFFICES ASSUME IInv, [Next]_vars PROVE IInv'
  OBVIOUS
<1>0. TypeOK /\ TypeOK' /\ lamports[VaultPda] \in Nat
  BY NextType, AccountsAssumption DEF IInv, TypeOK, Accounts
<1>1. CASE SomeInitialize
  BY <1>1, InitializeIInv DEF SomeInitialize
<1>2. CASE SomeDeposit
  BY <1>2, DepositIInv DEF SomeDeposit
<1>3. CASE SomeWithdraw
  BY <1>3, WithdrawIInv, ChoicesAssumption, SizesAssumption DEF SomeWithdraw
<1>4. CASE SomePause
  BY <1>0, <1>4, OutsideIInv DEF SomePause, PausePool, UnpausePool
<1>5. CASE SomeProve
  BY <1>0, <1>5, OutsideIInv DEF SomeProve, Prove
<1>6. CASE SomeTransfer
  <2>1. UNCHANGED <<initialized, leaves, rootHistory, spent, vaultBase>>
    BY <1>6 DEF SomeTransfer, Transfer
  <2>2. lamports'[VaultPda] >= lamports[VaultPda]
    BY <1>0, <1>6, TransferType DEF SomeTransfer
  <2>3. QED
    BY <1>0, <2>1, <2>2, OutsideIInv
<1>7. CASE SomeRentChange
  BY <1>0, <1>7, OutsideIInv DEF SomeRentChange, SetRentRate
<1>8. CASE UNCHANGED vars
  BY <1>0, <1>8, OutsideIInv DEF vars
<1>9. QED
  BY <1>1, <1>2, <1>3, <1>4, <1>5, <1>6, <1>7, <1>8 DEF Next

\* The inductive invariant holds in every reachable state.
LEMMA Invariance == Spec => []IInv
BY InitIInv, NextIInv, PTL DEF Spec

-----------------------------------------------------------------------------
(* Main theorems *)

\* The vault always backs every deposit that was not withdrawn, on top of what
\* it was created with, for any denomination, any number of accounts and notes,
\* any donations and any history of the rent parameter.
THEOREM Solvency == Spec => []VaultSolvent
<1>1. IInv => VaultSolvent
  BY DEF IInv
<1>2. QED
  BY <1>1, Invariance, PTL

\* The nullifier of a deposited note identifies a position of the tree: distinct
\* hashes come from distinct leaves.
LEMMA BackedCount ==
    ASSUME TypeOK, NEW S, S \subseteq HashBytes,
           \A h \in S : h[2] = 0 /\ h[1] \in DepositedNullifiers
    PROVE  Cardinality(S) <= Len(leaves)
<1> DEFINE Backs(i, h) == leaves[i] \in Notes /\ h = <<NullifierOf[leaves[i]], 0>>
           pos == [h \in S |-> CHOOSE i \in DOMAIN leaves : Backs(i, h)]
<1>1. \A h \in S : \E i \in DOMAIN leaves : Backs(i, h)
  <2> SUFFICES ASSUME NEW h \in S
               PROVE  \E i \in DOMAIN leaves : Backs(i, h)
    OBVIOUS
  <2>1. h \in Nullifiers \X {0, 1} /\ h[2] = 0 /\ h[1] \in DepositedNullifiers
    BY DEF HashBytes
  <2>2. PICK i \in DOMAIN leaves : leaves[i] \in Notes /\ h[1] = NullifierOf[leaves[i]]
    BY <2>1 DEF DepositedNullifiers
  <2>3. h = <<h[1], h[2]>>
    BY <2>1
  <2>4. QED
    BY <2>1, <2>2, <2>3
<1>2. \A h \in S : pos[h] \in DOMAIN leaves /\ Backs(pos[h], h)
  BY <1>1
<1> HIDE DEF pos
<1>3. pos \in Injection(S, DOMAIN leaves)
  <2>1. pos \in [S -> DOMAIN leaves]
    BY <1>2 DEF pos
  <2>2. \A g, h \in S : pos[g] = pos[h] => g = h
    BY <1>2
  <2>3. QED
    BY <2>1, <2>2 DEF Injection, IsInjective
<1>4. DOMAIN leaves = 1 .. Len(leaves) /\ Len(leaves) \in Nat
  BY DEF TypeOK
<1>5. IsFiniteSet(DOMAIN leaves) /\ Cardinality(DOMAIN leaves) = Len(leaves)
  <2>1. /\ IsFiniteSet(1 .. Len(leaves))
        /\ Cardinality(1 .. Len(leaves)) =
              IF 1 > Len(leaves) THEN 0 ELSE Len(leaves) - 1 + 1
    BY <1>4, FS_Interval
  <2>2. QED
    BY <1>4, <2>1
<1>6. QED
  BY <1>3, <1>5, FS_Injection

LEMMA SpentCount == IInv => Cardinality(spent) <= Len(leaves)
BY BackedCount DEF IInv, TypeOK, SpentAreDeposited

\* No double spend and no spend without a deposit, for any number of notes that
\* share nullifiers and any encoding of the nullifier hash.
THEOREM NoDoubleSpend == Spec => []EverySpendIsBacked
<1>1. IInv => EverySpendIsBacked
  BY SpentCount DEF IInv, EverySpendIsBacked
<1>2. QED
  BY <1>1, Invariance, PTL

-----------------------------------------------------------------------------
(* The ring of roots                                                       *)

\* A proof against a root of the pool is of a tree the pool has had, and which
\* is not empty.
ProofsAreOfPrefixes ==
    \A p \in proofs : p.at > 0 =>
        /\ initialized /\ p.at <= Len(leaves)
        /\ p.root = RootOf(SubSeq(leaves, 1, p.at)) /\ p.root # EmptyRoot

RingInv == TypeOK /\ EmptyUntilCreated /\ RingHoldsLatestRoots /\ ProofsAreOfPrefixes

\* Within two rounds, going around the ring is one subtraction.
LEMMA Around ==
    ASSUME NEW a \in 0 .. 2 * RootHistorySize - 1
    PROVE  a % RootHistorySize =
             IF a < RootHistorySize THEN a ELSE a - RootHistorySize
<1> DEFINE R == RootHistorySize
           q == a \div R
           r == a % R
<1>1. R \in Nat /\ R > 0 /\ a \in Nat /\ a < R + R
  BY SizesAssumption
<1>2. q \in Int /\ r \in Int /\ 0 <= r /\ r < R /\ a = R * q + r
  BY <1>1
<1> HIDE DEF R, q, r
<1>3. ~(q >= 2)
  <2>1. SUFFICES ASSUME q >= 2
                 PROVE  FALSE
    OBVIOUS
  <2>2. R * q >= R * 2
    BY <1>1, <1>2, <2>1
  <2>3. QED
    BY <1>1, <1>2, <2>2
<1>4. ~(q <= 0 - 1)
  <2>1. SUFFICES ASSUME q <= 0 - 1
                 PROVE  FALSE
    OBVIOUS
  <2>2. R * q <= R * (0 - 1)
    BY <1>1, <1>2, <2>1
  <2>3. QED
    BY <1>1, <1>2, <2>2
<1>5. q = 0 \/ q = 1
  BY <1>2, <1>3, <1>4
<1>6. r = IF a < R THEN a ELSE a - R
  BY <1>1, <1>2, <1>5
<1>7. QED
  BY <1>6 DEF R, r

\* What was in the tree before an insertion is still what came before it.
LEMMA PrefixStays ==
    ASSUME NEW S, NEW s \in Seq(S), NEW e \in S, NEW m \in 0 .. Len(s)
    PROVE  SubSeq(Append(s, e), 1, m) = SubSeq(s, 1, m)
<1> DEFINE t == Append(s, e)
<1>1. /\ Len(s) \in Nat /\ m \in Int /\ m <= Len(s)
      /\ \A i \in 1 .. m : t[i] = s[i] /\ s[i] \in S
  BY AppendProperties
<1> HIDE DEF t
<1>2. /\ SubSeq(t, 1, m) \in Seq(S)
      /\ Len(SubSeq(t, 1, m)) = IF 1 <= m THEN m - 1 + 1 ELSE 0
      /\ \A i \in 1 .. m - 1 + 1 : SubSeq(t, 1, m)[i] = t[1 + i - 1]
  BY <1>1, SubSeqProperties
<1>3. /\ SubSeq(s, 1, m) \in Seq(S)
      /\ Len(SubSeq(s, 1, m)) = IF 1 <= m THEN m - 1 + 1 ELSE 0
      /\ \A i \in 1 .. m - 1 + 1 : SubSeq(s, 1, m)[i] = s[1 + i - 1]
  BY <1>1, SubSeqProperties
<1>4. Len(SubSeq(t, 1, m)) = m /\ Len(SubSeq(s, 1, m)) = m
  BY <1>1, <1>2, <1>3
<1>5. \A i \in 1 .. m : SubSeq(t, 1, m)[i] = SubSeq(s, 1, m)[i]
  BY <1>1, <1>2, <1>3
<1>6. QED
  BY <1>2, <1>3, <1>4, <1>5, SeqEqual DEF t

LEMMA InitializeRing ==
    ASSUME RingInv, NEW tre \in Treasuries, InitializePool(tre)
    PROVE  RingHoldsLatestRoots' /\ ProofsAreOfPrefixes'
<1>1. /\ leaves' = <<>> /\ rootIndex' = 0 /\ proofs' = proofs /\ ~initialized
      /\ rootHistory' = [k \in 0 .. RootHistorySize - 1 |->
                            IF k = 0 THEN EmptyRoot ELSE NoRoot]
  BY DEF InitializePool
<1>2. ProofsAreOfPrefixes'
  BY <1>1 DEF RingInv, ProofsAreOfPrefixes
<1>3. RootHistorySize \in Nat /\ RootHistorySize > 0 /\ Len(leaves') = 0
  BY <1>1, SizesAssumption
<1>4. ASSUME NEW age \in 0 .. RootHistorySize - 1
      PROVE  rootHistory'[(rootIndex' + RootHistorySize - age) % RootHistorySize] =
               IF age <= Len(leaves')
               THEN RootOf(SubSeq(leaves', 1, Len(leaves') - age))
               ELSE NoRoot
  <2>1. rootIndex' + RootHistorySize - age \in 0 .. 2 * RootHistorySize - 1
    BY <1>1, <1>3, <1>4
  <2>2. (rootIndex' + RootHistorySize - age) % RootHistorySize =
          IF age = 0 THEN 0 ELSE RootHistorySize - age
    BY <1>1, <1>3, <1>4, <2>1, Around
  <2>3. CASE age = 0
    <3>1. SubSeq(leaves', 1, Len(leaves') - age) = <<>>
      BY <1>3, <2>3, SubSeqEmpty
    <3>2. rootHistory'[0] = EmptyRoot
      BY <1>1, <1>3
    <3>3. /\ (rootIndex' + RootHistorySize - age) % RootHistorySize = 0
          /\ age <= Len(leaves')
      BY <1>3, <2>2, <2>3
    <3>4. RootOf(SubSeq(leaves', 1, Len(leaves') - age)) = EmptyRoot
      BY <3>1 DEF EmptyRoot
    <3>5. QED
      BY <3>2, <3>3, <3>4
  <2>4. CASE age # 0
    <3>1. RootHistorySize - age \in 0 .. RootHistorySize - 1 /\ RootHistorySize - age # 0
      BY <1>3, <1>4, <2>4
    <3>2. rootHistory'[RootHistorySize - age] = NoRoot
      BY <1>1, <3>1
    <3>3. QED
      BY <1>3, <1>4, <2>2, <2>4, <3>2
  <2>5. QED
    BY <2>3, <2>4
<1>5. QED
  BY <1>2, <1>4 DEF RingHoldsLatestRoots

\* An insertion makes every root in the ring one deposit older, and overwrites
\* the slot of the oldest.
LEMMA DepositRing ==
    ASSUME RingInv, NEW d \in Wallets, NEW c \in Commitments, Deposit(d, c)
    PROVE  RingHoldsLatestRoots' /\ ProofsAreOfPrefixes'
<1> DEFINE Leaf == Commitments \ {NonCanonicalLeaf}
<1>1. /\ leaves \in Seq(Leaf) /\ c \in Leaf /\ leaves' = Append(leaves, c)
      /\ rootHistory' = [rootHistory EXCEPT ![NextRootIndex] = RootOf(leaves')]
      /\ rootIndex' = NextRootIndex /\ NextRootIndex \in 0 .. RootHistorySize - 1
      /\ DOMAIN rootHistory = 0 .. RootHistorySize - 1
      /\ rootIndex \in 0 .. RootHistorySize - 1
      /\ initialized /\ initialized' /\ proofs' = proofs
  BY NextRootIndexType DEF RingInv, TypeOK, Deposit, Insert, InsertAccepted
<1>2. /\ leaves' \in Seq(Leaf) /\ Len(leaves') = Len(leaves) + 1
      /\ Len(leaves) \in Nat
  BY <1>1, AppendProperties
<1>3. RootHistorySize \in Nat /\ RootHistorySize > 0
  BY SizesAssumption
<1>4. \A m \in 0 .. Len(leaves) : SubSeq(leaves', 1, m) = SubSeq(leaves, 1, m)
  BY <1>1, PrefixStays
<1>5. rootIndex' = IF rootIndex + 1 < RootHistorySize THEN rootIndex + 1 ELSE 0
  <2>1. rootIndex + 1 \in 0 .. 2 * RootHistorySize - 1
    BY <1>1, <1>3
  <2>2. QED
    BY <1>1, <1>3, <2>1, Around DEF NextRootIndex
<1>6. ASSUME NEW age \in 0 .. RootHistorySize - 1
      PROVE  rootHistory'[(rootIndex' + RootHistorySize - age) % RootHistorySize] =
               IF age <= Len(leaves')
               THEN RootOf(SubSeq(leaves', 1, Len(leaves') - age))
               ELSE NoRoot
  <2> DEFINE new == (rootIndex' + RootHistorySize - age) % RootHistorySize
  <2>1. rootIndex' + RootHistorySize - age \in 0 .. 2 * RootHistorySize - 1
    BY <1>1, <1>3, <1>6
  <2>2. new = IF rootIndex' < age THEN rootIndex' + RootHistorySize - age
              ELSE rootIndex' - age
    BY <1>1, <1>3, <1>6, <2>1, Around
  <2>3. CASE age = 0
    <3>1. new = NextRootIndex
      BY <1>1, <1>3, <2>2, <2>3
    <3>2. rootHistory'[new] = RootOf(leaves')
      BY <1>1, <3>1
    <3>3. SubSeq(leaves', 1, Len(leaves') - age) = leaves'
      BY <1>2, <2>3, SubSeqFull
    <3>4. age <= Len(leaves')
      BY <1>2, <2>3
    <3>5. RootOf(SubSeq(leaves', 1, Len(leaves') - age)) = RootOf(leaves')
      BY <3>3
    <3> HIDE DEF new
    <3>6. QED
      BY <3>2, <3>4, <3>5 DEF new
  <2>4. CASE age # 0
    <3> DEFINE before == age - 1
               old == (rootIndex + RootHistorySize - before) % RootHistorySize
    <3>1. before \in 0 .. RootHistorySize - 1
      BY <1>3, <1>6, <2>4
    <3>2. rootIndex + RootHistorySize - before \in 0 .. 2 * RootHistorySize - 1
      BY <1>1, <1>3, <3>1, <2>4, <1>6
    <3>3. old = IF rootIndex < before THEN rootIndex + RootHistorySize - before
                ELSE rootIndex - before
      BY <1>1, <1>3, <3>1, <3>2, Around
    <3>4. new = old /\ new # NextRootIndex
      BY <1>1, <1>3, <1>5, <1>6, <2>2, <2>4, <3>3
    <3>5. rootHistory'[new] = rootHistory[old]
      BY <1>1, <3>4
    <3>6. rootHistory[old] = IF before <= Len(leaves)
                             THEN RootOf(SubSeq(leaves, 1, Len(leaves) - before))
                             ELSE NoRoot
      BY <1>1, <3>1 DEF RingInv, RingHoldsLatestRoots
    <3>7. /\ age <= Len(leaves') <=> before <= Len(leaves)
          /\ Len(leaves') - age = Len(leaves) - before
          /\ before <= Len(leaves) => Len(leaves) - before \in 0 .. Len(leaves)
      BY <1>2, <1>6, <3>1
    <3> HIDE DEF new, old, before
    <3>8. QED
      BY <1>4, <3>5, <3>6, <3>7 DEF new
  <2>5. QED
    BY <2>3, <2>4
<1>7. RingHoldsLatestRoots'
  BY <1>6 DEF RingHoldsLatestRoots
<1>8. ProofsAreOfPrefixes'
  <2>1. SUFFICES ASSUME NEW p \in proofs, p.at > 0
                 PROVE  /\ p.at <= Len(leaves')
                        /\ p.root = RootOf(SubSeq(leaves', 1, p.at))
                        /\ p.root # EmptyRoot
    BY <1>1 DEF ProofsAreOfPrefixes, EmptyRoot, RootOf
  <2>2. /\ p.at \in Nat /\ p.at <= Len(leaves)
        /\ p.root = RootOf(SubSeq(leaves, 1, p.at)) /\ p.root # EmptyRoot
    BY <2>1 DEF RingInv, TypeOK, ProofsAreOfPrefixes
  <2>3. p.at \in 0 .. Len(leaves)
    BY <1>2, <2>2
  <2>4. SubSeq(leaves', 1, p.at) = SubSeq(leaves, 1, p.at)
    BY <1>4, <2>3
  <2>5. p.at <= Len(leaves')
    BY <1>2, <2>2
  <2>6. QED
    BY <2>2, <2>4, <2>5
<1>9. QED
  BY <1>7, <1>8

\* A new proof is made against the newest root, or a tree of its own.
LEMMA ProveRing ==
    ASSUME RingInv, NEW n \in Notes, NEW relayer, NEW feeMax, NEW recipient,
           Prove(n, relayer, feeMax, recipient)
    PROVE  RingHoldsLatestRoots' /\ ProofsAreOfPrefixes'
<1>1. UNCHANGED <<initialized, leaves, rootHistory, rootIndex>>
  BY DEF Prove
<1>2. RingHoldsLatestRoots'
  BY <1>1 DEF RingInv, RingHoldsLatestRoots
<1>3. ASSUME NEW p \in proofs', p.at > 0
      PROVE  /\ initialized /\ p.at <= Len(leaves)
             /\ p.root = RootOf(SubSeq(leaves, 1, p.at)) /\ p.root # EmptyRoot
  <2>1. CASE p \in proofs
    BY <1>3, <2>1 DEF RingInv, ProofsAreOfPrefixes
  <2>2. CASE p \notin proofs
    <3>1. /\ initialized /\ p.at = Len(leaves) /\ p.root = CurrentRoot
          /\ \E i \in DOMAIN leaves : leaves[i] = n
      BY <1>3, <2>2 DEF Prove
    <3>2. /\ leaves \in Seq(Commitments \ {NonCanonicalLeaf}) /\ Len(leaves) \in Nat
          /\ rootIndex \in 0 .. RootHistorySize - 1
          /\ RootHistorySize \in Nat /\ RootHistorySize > 0
      BY SizesAssumption DEF RingInv, TypeOK
    <3>3. SubSeq(leaves, 1, Len(leaves) - 0) = leaves
      BY <3>2, SubSeqFull
    <3>4. rootIndex + RootHistorySize - 0 \in 0 .. 2 * RootHistorySize - 1
      BY <3>2
    <3>5. (rootIndex + RootHistorySize - 0) % RootHistorySize = rootIndex
      BY <3>2, <3>4, Around
    <3>6. rootHistory[(rootIndex + RootHistorySize - 0) % RootHistorySize] =
            IF 0 <= Len(leaves) THEN RootOf(SubSeq(leaves, 1, Len(leaves) - 0)) ELSE NoRoot
      BY <3>1, <3>2 DEF RingInv, RingHoldsLatestRoots
    <3>7. CurrentRoot = RootOf(leaves)
      <4>1. 0 <= Len(leaves)
        BY <3>2
      <4>2. rootHistory[rootIndex] = RootOf(SubSeq(leaves, 1, Len(leaves) - 0))
        BY <3>5, <3>6, <4>1
      <4>3. QED
        BY <3>3, <4>2 DEF CurrentRoot
    <3>8. DOMAIN CurrentRoot # {}
      BY <3>1, <3>7, NotesAssumption DEF RootOf
    <3>9. SubSeq(leaves, 1, p.at) = leaves
      BY <3>1, <3>2, SubSeqFull
    <3>10. p.root = RootOf(SubSeq(leaves, 1, p.at)) /\ p.root # EmptyRoot
      BY <3>1, <3>7, <3>8, <3>9, EmptyRootDomain
    <3>11. p.at <= Len(leaves)
      BY <3>1, <3>2
    <3>12. QED
      BY <3>1, <3>10, <3>11
  <2>3. QED
    BY <2>1, <2>2
<1>4. EmptyRoot' = EmptyRoot
  BY DEF EmptyRoot, RootOf
<1>5. ProofsAreOfPrefixes'
  BY <1>1, <1>3, <1>4 DEF ProofsAreOfPrefixes, RootOf
<1>6. QED
  BY <1>2, <1>5

LEMMA OutsideRing ==
    ASSUME RingInv, UNCHANGED <<initialized, leaves, rootHistory, rootIndex, proofs>>
    PROVE  RingHoldsLatestRoots' /\ ProofsAreOfPrefixes'
<1>1. RingHoldsLatestRoots'
  BY DEF RingInv, RingHoldsLatestRoots
<1>2. ProofsAreOfPrefixes'
  BY DEF RingInv, ProofsAreOfPrefixes, EmptyRoot, RootOf
<1>3. QED
  BY <1>1, <1>2

LEMMA NextRing == IInv /\ IInv' /\ RingInv /\ [Next]_vars => RingInv'
<1> SUFFICES ASSUME IInv, IInv', RingInv, [Next]_vars
             PROVE  RingHoldsLatestRoots' /\ ProofsAreOfPrefixes'
  BY DEF RingInv, IInv
<1>1. CASE SomeInitialize
  BY <1>1, InitializeRing DEF SomeInitialize
<1>2. CASE SomeDeposit
  BY <1>2, DepositRing DEF SomeDeposit
<1>3. CASE SomeWithdraw
  BY <1>3, OutsideRing DEF SomeWithdraw, Withdraw
<1>4. CASE SomePause
  BY <1>4, OutsideRing DEF SomePause, PausePool, UnpausePool
<1>5. CASE SomeProve
  BY <1>5, ProveRing DEF SomeProve
<1>6. CASE SomeTransfer
  BY <1>6, OutsideRing DEF SomeTransfer, Transfer
<1>7. CASE SomeRentChange
  BY <1>7, OutsideRing DEF SomeRentChange, SetRentRate
<1>8. CASE UNCHANGED vars
  BY <1>8, OutsideRing DEF vars
<1>9. QED
  BY <1>1, <1>2, <1>3, <1>4, <1>5, <1>6, <1>7, <1>8 DEF Next

LEMMA InitRing == Init => RingInv
<1>1. Init => EmptyUntilCreated /\ RingHoldsLatestRoots /\ ProofsAreOfPrefixes
  BY DEF Init, EmptyUntilCreated, RingHoldsLatestRoots, ProofsAreOfPrefixes
<1>2. QED
  BY <1>1, InitType DEF RingInv

LEMMA RingInvariance == Spec => []RingInv
BY InitIInv, NextIInv, InitRing, NextRing, PTL DEF Spec

\* However often the ring wraps, it holds the roots after the last insertions,
\* each at its age behind current_root_index (Pool::insert, is_known_root).
THEOREM RingIsComplete == Spec => []RingHoldsLatestRoots
<1>1. RingInv => RingHoldsLatestRoots
  BY DEF RingInv
<1>2. QED
  BY <1>1, RingInvariance, PTL

\* Whatever the size of the ring, a proof against the newest root passes the
\* root check of withdraw until that many more deposits have landed.
THEOREM ProofsHaveTime == Spec => []ProofOutlivesDeposits
<1>1. RingInv => ProofOutlivesDeposits
  <2>1. SUFFICES ASSUME RingInv, NEW p \in proofs, p.at > 0,
                        Len(leaves) - p.at < RootHistorySize
                 PROVE  RootAccepted(p.root)
    BY DEF ProofOutlivesDeposits
  <2> DEFINE age == Len(leaves) - p.at
  <2>2. /\ initialized /\ p.at \in Nat /\ p.at <= Len(leaves) /\ Len(leaves) \in Nat
        /\ p.root = RootOf(SubSeq(leaves, 1, p.at)) /\ p.root # EmptyRoot
        /\ RootHistorySize \in Nat /\ RootHistorySize > 0
        /\ rootIndex \in 0 .. RootHistorySize - 1
    BY <2>1, SizesAssumption DEF RingInv, TypeOK, ProofsAreOfPrefixes
  <2>3. age \in 0 .. RootHistorySize - 1 /\ age <= Len(leaves) /\ Len(leaves) - age = p.at
    BY <2>1, <2>2
  <2> DEFINE k == (rootIndex + RootHistorySize - age) % RootHistorySize
  <2>4. k \in 0 .. RootHistorySize - 1
    <3>1. rootIndex + RootHistorySize - age \in 0 .. 2 * RootHistorySize - 1
      BY <2>2, <2>3
    <3>2. age \in Int
      BY <2>2
    <3>3. k = IF rootIndex + RootHistorySize - age < RootHistorySize
              THEN rootIndex + RootHistorySize - age
              ELSE rootIndex + RootHistorySize - age - RootHistorySize
      <4>1. PICK a \in 0 .. 2 * RootHistorySize - 1 :
              a = rootIndex + RootHistorySize - age
        BY <3>1
      <4>2. k = a % RootHistorySize
        BY <4>1
      <4> HIDE DEF k, age
      <4>3. a % RootHistorySize =
              IF a < RootHistorySize THEN a ELSE a - RootHistorySize
        BY Around
      <4>4. QED
        BY <2>2, <2>3, <3>2, <4>1, <4>2, <4>3
    <3> HIDE DEF k, age
    <3>4. QED
      BY <2>2, <2>3, <3>2, <3>3
  <2> HIDE DEF age
  <2>5. rootHistory[k] = p.root
    BY <2>1, <2>2, <2>3 DEF RingInv, RingHoldsLatestRoots
  <2> HIDE DEF k
  <2>6. p.root # NoRoot
    <3> DEFINE ls == SubSeq(leaves, 1, p.at)
               S == {j \in DOMAIN ls : ls[j] # ZeroLeaf}
    <3>1. /\ leaves \in Seq(Commitments \ {NonCanonicalLeaf})
          /\ Len(leaves) <= SaturationThreshold /\ SaturationThreshold \in Nat
      BY <2>1, SizesAssumption DEF RingInv, TypeOK
    <3>2. /\ ls \in Seq(Commitments \ {NonCanonicalLeaf})
          /\ Len(ls) = IF 1 <= p.at THEN p.at - 1 + 1 ELSE 0
      <4>1. \A i \in 1 .. p.at : leaves[i] \in Commitments \ {NonCanonicalLeaf}
        BY <2>2, <3>1
      <4>2. QED
        BY <2>2, <4>1, SubSeqProperties
    <3> HIDE DEF ls
    <3>3. DOMAIN ls = 1 .. p.at /\ \A j \in 1 .. p.at : ls[j] \in Notes \cup {ZeroLeaf}
      BY <2>1, <2>2, <3>2 DEF Commitments
    <3>4. S \in SUBSET (1 .. SaturationThreshold)
      BY <2>2, <3>1, <3>3
    <3>5. RootOf(ls) \in [S -> Notes]
      BY <3>3 DEF RootOf
    <3>6. QED
      BY <2>2, <3>4, <3>5, RootsAssumption DEF ls
  <2>7. QED
    BY <2>2, <2>4, <2>5, <2>6 DEF RootAccepted, IsKnownRoot
<1>2. QED
  BY <1>1, RingInvariance, PTL

-----------------------------------------------------------------------------
(* What a withdrawal moves                                                 *)

\* Who gains what by an accepted withdrawal, whichever payees coincide and
\* wherever the protocol fee goes.
LEMMA WithdrawGains ==
    ASSUME TypeOK,
           NEW p, NEW hash \in HashBytes, NEW relayer \in Wallets,
           NEW feeMax \in Nat, NEW taken \in Nat, NEW recipient \in Accounts,
           WithdrawAccepted(p, hash, relayer, feeMax, taken, recipient)
    PROVE  LET post == WithdrawLedger(hash, relayer, recipient, taken)
           IN /\ recipient # relayer =>
                    post[recipient] - lamports[recipient]
                       >= Denomination - TreasuryFee(Denomination) - feeMax
              /\ relayer \notin {recipient, treasury} =>
                    post[relayer] - lamports[relayer] <= feeMax
<1> DEFINE short == Shortfall(hash, NullifierSpace)
           funded == NullifierFunded(hash, relayer)
           debited == [funded EXCEPT ![VaultPda] = @ - Denomination]
           fee == FeePaid(funded, relayer, recipient)
           amount == AmountPaid(funded, relayer, recipient, taken)
           c1 == Credit(debited, treasury, fee)
           c2 == Credit(c1, relayer, taken)
           c3 == Credit(c2, recipient, amount)
<1>1. /\ hash \in Accounts /\ relayer \in Accounts /\ treasury \in Accounts
      /\ VaultPda \in Accounts
      /\ relayer # VaultPda /\ recipient # VaultPda
      /\ hash # relayer /\ hash # recipient
  BY AccountsAssumption
     DEF TypeOK, Accounts, SystemAccounts, WithdrawAccepted, AccountsDistinct
<1>2. /\ short \in Nat /\ lamports[relayer] >= short
      /\ lamports \in [Accounts -> Nat]
  BY <1>1, ShortfallType DEF WithdrawAccepted, NullifierSpace, TypeOK
<1>3. /\ funded \in [Accounts -> Nat]
      /\ funded[relayer] = lamports[relayer] - short
      /\ recipient # relayer => funded[recipient] = lamports[recipient]
  <2>1. funded = Move(lamports, relayer, hash, short)
    BY DEF NullifierFunded
  <2> HIDE DEF funded, short
  <2>2. QED
    BY <2>1, <1>1, <1>2, MoveLemma
<1>4. FeeSplitAccepted(Denomination, taken, feeMax)
  BY DEF WithdrawAccepted
<1>5. /\ fee \in Nat /\ amount \in Nat /\ fee <= TreasuryFee(Denomination)
      /\ TreasuryFee(Denomination) \in Nat
      /\ amount = Denomination - taken - fee /\ taken <= feeMax
  <2>1. fee \in Nat /\ amount \in Nat
    BY <1>4, AmountPaidType
  <2>2. TreasuryFee(Denomination) \in Nat
    BY SizesAssumption DEF TreasuryFee, TreasuryFeeDivisor
  <2>3. fee \in {0, TreasuryFee(Denomination)}
    BY DEF FeePaid, RoutedFee
  <2>4. amount = Denomination - taken - fee
    BY DEF AmountPaid
  <2>5. taken <= feeMax
    BY <1>4 DEF FeeSplitAccepted
  <2> HIDE DEF fee, amount
  <2>6. QED
    BY <2>1, <2>2, <2>3, <2>4, <2>5
<1>6. /\ DOMAIN debited = Accounts
      /\ debited[relayer] = funded[relayer] /\ debited[recipient] = funded[recipient]
  <2> HIDE DEF funded
  <2>1. QED
    BY <1>1, <1>3
<1> HIDE DEF funded, debited, fee, amount, short
<1>7. /\ DOMAIN c1 = Accounts
      /\ \A a \in Accounts : c1[a] = IF a = treasury THEN debited[a] + fee ELSE debited[a]
  BY <1>6 DEF Credit
<1> HIDE DEF c1
<1>8. /\ DOMAIN c2 = Accounts
      /\ \A a \in Accounts : c2[a] = IF a = relayer THEN c1[a] + taken ELSE c1[a]
  BY <1>7 DEF Credit
<1> HIDE DEF c2
<1>9. \A a \in Accounts : c3[a] = IF a = recipient THEN c2[a] + amount ELSE c2[a]
  BY <1>8 DEF Credit
<1>10. WithdrawLedger(hash, relayer, recipient, taken) = c3
  BY DEF WithdrawLedger, PaidOut, c1, c2, debited, fee, amount, funded
<1> HIDE DEF c3
<1>11. /\ lamports[relayer] \in Nat /\ lamports[recipient] \in Nat
       /\ Denomination \in Nat
  BY <1>1, <1>2, SizesAssumption
<1>12. ASSUME recipient # relayer
       PROVE  c3[recipient] - lamports[recipient]
                >= Denomination - TreasuryFee(Denomination) - feeMax
  <2>1. c3[recipient] = c1[recipient] + amount
    BY <1>8, <1>9, <1>12
  <2>2. c1[recipient] = lamports[recipient]
          \/ c1[recipient] = lamports[recipient] + fee
    BY <1>3, <1>6, <1>7, <1>12
  <2>3. QED
    BY <1>5, <1>11, <2>1, <2>2
<1>13. ASSUME relayer \notin {recipient, treasury}
       PROVE  c3[relayer] - lamports[relayer] <= feeMax
  <2>1. c3[relayer] = lamports[relayer] - short + taken
    BY <1>1, <1>3, <1>6, <1>7, <1>8, <1>9, <1>13
  <2>2. QED
    BY <1>2, <1>5, <1>11, <2>1
<1>14. QED
  BY <1>10, <1>12, <1>13

\* Creating the pool takes nothing from an address that becomes its vault.
LEMMA InitializeFunds ==
    ASSUME TypeOK, NEW tre \in Treasuries, InitializePool(tre)
    PROVE  lamports'[VaultPda] >= lamports[VaultPda]
<1> DEFINE forPool  == Shortfall(PoolPda, PoolSpace)
           forVault == Shortfall(VaultPda, VaultSpace)
           l1 == Move(lamports, Admin, PoolPda, forPool)
<1>1. /\ Admin \in Accounts /\ PoolPda \in Accounts /\ VaultPda \in Accounts
      /\ Admin # PoolPda /\ Admin # VaultPda /\ VaultPda # PoolPda
  BY AccountsAssumption DEF Accounts
<1>2. forPool \in Nat /\ forVault \in Nat /\ lamports \in [Accounts -> Nat]
  <2>1. PoolSpace \in Nat /\ VaultSpace \in Nat
    BY DEF PoolSpace, VaultSpace
  <2>2. QED
    BY <1>1, <2>1, ShortfallType DEF TypeOK
<1>3. /\ lamports[Admin] >= forPool + forVault
      /\ lamports' = Move(l1, Admin, VaultPda, forVault)
  BY DEF InitializePool
<1> HIDE DEF forPool, forVault
<1>4. /\ l1 \in [Accounts -> Nat] /\ l1[Admin] = lamports[Admin] - forPool
      /\ l1[VaultPda] = lamports[VaultPda]
  <2>1. lamports[Admin] \in Nat /\ lamports[Admin] >= forPool
    BY <1>1, <1>2, <1>3
  <2>2. QED
    BY <1>1, <1>2, <2>1, MoveLemma
<1> HIDE DEF l1
<1>5. lamports'[VaultPda] = l1[VaultPda] + forVault
  <2>1. l1[Admin] >= forVault
    BY <1>1, <1>2, <1>3, <1>4
  <2>2. QED
    BY <1>1, <1>2, <1>3, <1>4, <2>1, MoveLemma
<1>6. lamports[VaultPda] \in Nat
  BY <1>1, <1>2
<1>7. QED
  BY <1>2, <1>4, <1>5, <1>6

Gain(a) == lamports'[a] - lamports[a]
DebitIsBound ==
    lamports'[VaultPda] < lamports[VaultPda] =>
        \E p \in proofs :
            /\ Gain(VaultPda) = -Denomination
            /\ Hashes(p.note) \notin spent
            /\ spent' = spent \cup {Hashes(p.note)}
            /\ p.recipient # p.relayer =>
                  Gain(p.recipient) >= Denomination - TreasuryFee(Denomination)
                                         - p.feeMax
            /\ p.relayer \notin {p.recipient, treasury} =>
                  Gain(p.relayer) <= p.feeMax

LEMMA WithdrawIsBound ==
    ASSUME TypeOK, NEW p \in proofs, NEW hash \in HashBytes, NEW relayer \in Wallets,
           NEW feeMax \in Nat, NEW taken \in Nat, NEW recipient \in Accounts,
           Withdraw(p, hash, relayer, feeMax, taken, recipient)
    PROVE  DebitIsBound
<1>1. /\ WithdrawAccepted(p, hash, relayer, feeMax, taken, recipient)
      /\ lamports' = WithdrawLedger(hash, relayer, recipient, taken)
  BY DEF Withdraw
<1>2. /\ p.relayer = relayer /\ p.feeMax = feeMax /\ p.recipient = recipient
      /\ hash[2] = 0 /\ hash[1] = NullifierOf[p.note]
  BY <1>1 DEF WithdrawAccepted, CommitmentMatches, IsCanonicalFr, Groth16Verifies
<1>3. Hashes(p.note) = hash
  BY <1>2 DEF Hashes, HashBytes
<1>4. /\ lamports'[VaultPda] = lamports[VaultPda] - Denomination
      /\ hash \notin spent /\ spent' = spent \cup {hash}
  BY WithdrawType
<1>5. lamports[VaultPda] \in Nat /\ Denomination \in Nat
  BY AccountsAssumption, SizesAssumption DEF TypeOK, Accounts
<1>6. Gain(VaultPda) = -Denomination
  BY <1>4, <1>5 DEF Gain
<1>7. /\ recipient # relayer =>
            Gain(recipient) >= Denomination - TreasuryFee(Denomination) - feeMax
      /\ relayer \notin {recipient, treasury} => Gain(relayer) <= feeMax
  BY <1>1, WithdrawGains DEF Gain
<1>8. QED
  BY <1>2, <1>3, <1>4, <1>6, <1>7 DEF DebitIsBound

LEMMA NextIsBound == TypeOK /\ [Next]_vars => DebitIsBound
<1> SUFFICES ASSUME TypeOK, [Next]_vars
             PROVE  DebitIsBound
  OBVIOUS
<1>0. lamports[VaultPda] \in Nat /\ Denomination \in Nat
  BY AccountsAssumption, SizesAssumption DEF TypeOK, Accounts
<1>1. CASE SomeInitialize
  BY <1>0, <1>1, InitializeFunds, InitializeType, AccountsAssumption
  DEF SomeInitialize, DebitIsBound, TypeOK, Accounts
<1>2. CASE SomeDeposit
  BY <1>0, <1>2, DepositType DEF SomeDeposit, DebitIsBound
<1>3. CASE SomeWithdraw
  BY <1>3, WithdrawIsBound, ChoicesAssumption, SizesAssumption DEF SomeWithdraw
<1>4. CASE SomeTransfer
  <2>1. TypeOK' /\ lamports'[VaultPda] >= lamports[VaultPda]
    BY <1>4, TransferType DEF SomeTransfer
  <2>2. lamports'[VaultPda] \in Nat
    BY <2>1, AccountsAssumption DEF TypeOK, Accounts
  <2>3. QED
    BY <1>0, <2>1, <2>2 DEF DebitIsBound
<1>5. CASE SomePause \/ SomeProve \/ SomeRentChange \/ UNCHANGED vars
  <2>1. lamports' = lamports
    BY <1>5 DEF SomePause, PausePool, UnpausePool, SomeProve, Prove,
                SomeRentChange, SetRentRate, vars
  <2>2. QED
    BY <1>0, <2>1 DEF DebitIsBound
<1>6. QED
  BY <1>1, <1>2, <1>3, <1>4, <1>5 DEF Next

\* The vault is debited only under a proof its owner made, for one denomination
\* and one nullifier not spent before; the recipient bound by it has its share
\* and the relayer no more than its ceiling, whatever accounts coincide.
THEOREM DebitsAreBound == Spec => VaultDebitIsBound
<1>1. TypeOK /\ [Next]_vars =>
        [lamports'[VaultPda] < lamports[VaultPda] =>
         \E p \in proofs :
            LET gain(a) == lamports'[a] - lamports[a] IN
            /\ gain(VaultPda) = -Denomination
            /\ Hashes(p.note) \notin spent
            /\ spent' = spent \cup {Hashes(p.note)}
            /\ p.recipient # p.relayer =>
                  gain(p.recipient) >= Denomination - TreasuryFee(Denomination)
                                         - p.feeMax
            /\ p.relayer \notin {p.recipient, treasury} =>
                  gain(p.relayer) <= p.feeMax]_vars
  BY NextIsBound DEF DebitIsBound, Gain
<1>2. QED
  BY <1>1, TypeCorrect, PTL DEF Spec, VaultDebitIsBound

-----------------------------------------------------------------------------
(* The refinement: each step of the pool is one of the escrow, or none.    *)

Redeemed == {h[1] : h \in spent}
Balance == IF initialized THEN lamports[VaultPda] - vaultBase ELSE 0

EscrowStep == [EscrowOf!Next]_(EscrowOf!vars)

\* A step that leaves the tree and the nullifiers alone is no step of the
\* escrow if its balance stays, and a donation if it grows.
LEMMA OutsideIsDonation ==
    ASSUME UNCHANGED <<leaves, spent>>,
           \/ Balance' = Balance
           \/ Balance' \in Nat /\ Balance' > Balance
    PROVE  EscrowStep
<1>1. /\ UNCHANGED <<Len(leaves), Redeemed>>
      /\ DepositedNullifiers' = DepositedNullifiers
  BY DEF DepositedNullifiers, Redeemed
<1>2. CASE Balance' = Balance
  BY <1>1, <1>2 DEF EscrowStep, EscrowOf!vars, Redeemed, Balance
<1>3. CASE Balance' \in Nat /\ Balance' > Balance
  BY <1>1, <1>3 DEF EscrowStep, EscrowOf!Next, EscrowOf!Donate, Redeemed, Balance
<1>4. QED
  BY <1>2, <1>3

\* What is left of the deposits is in the vault, over what it was created with.
LEMMA BalanceCovers ==
    ASSUME IInv, initialized
    PROVE  /\ Balance \in Nat
           /\ Cardinality(spent) < Len(leaves) => Balance >= Denomination
<1> DEFINE owed == Len(leaves) - Cardinality(spent)
<1>1. /\ Cardinality(spent) \in Nat /\ Len(leaves) \in Nat
      /\ lamports[VaultPda] \in Nat /\ vaultBase \in Nat
      /\ Denomination \in Nat
  BY SpentFinite, AccountsAssumption, SizesAssumption DEF IInv, TypeOK, Accounts
<1>2. owed \in Nat /\ (Cardinality(spent) < Len(leaves) => owed >= 1)
  BY <1>1, SpentCount
<1>3. lamports[VaultPda] >= vaultBase + Denomination * owed
  BY DEF IInv, VaultSolvent
<1> HIDE DEF owed
<1>4. /\ Denomination * owed \in Nat
      /\ owed >= 1 => Denomination * owed >= Denomination
  BY <1>1, <1>2
<1>5. Balance = lamports[VaultPda] - vaultBase
  BY DEF Balance
<1>6. QED
  BY <1>1, <1>2, <1>3, <1>4, <1>5

\* The same of the state that follows.
LEMMA SpentCountAfter == (IInv => Cardinality(spent) <= Len(leaves))'
BY SpentCount, PTL

LEMMA InitializeIsNothing ==
    ASSUME IInv, NEW tre \in Treasuries, InitializePool(tre)
    PROVE  EscrowStep
<1>1. /\ leaves = <<>> /\ leaves' = <<>> /\ spent' = spent /\ ~initialized
      /\ initialized' /\ vaultBase' = lamports'[VaultPda]
  BY DEF IInv, EmptyUntilCreated, InitializePool
<1>2. lamports'[VaultPda] \in Nat
  BY InitializeType, AccountsAssumption DEF IInv, TypeOK, Accounts
<1>3. Balance = 0 /\ Balance' = 0
  BY <1>1, <1>2 DEF Balance
<1>4. QED
  BY <1>1, <1>3, OutsideIsDonation

LEMMA DepositIsDeposit ==
    ASSUME IInv, NEW d \in Wallets, NEW c \in Commitments, Deposit(d, c)
    PROVE  EscrowStep
<1>1. /\ Insert(c) /\ initialized /\ initialized' /\ spent' = spent
      /\ vaultBase' = vaultBase /\ leaves' = Append(leaves, c) /\ TypeOK
  BY DEF Deposit, Insert, IInv
<1>2. /\ Len(leaves') = Len(leaves) + 1 /\ DOMAIN leaves = 1 .. Len(leaves)
      /\ DOMAIN leaves' = 1 .. Len(leaves') /\ Len(leaves) \in Nat
      /\ \A i \in DOMAIN leaves : leaves'[i] = leaves[i]
      /\ leaves'[Len(leaves) + 1] = c
  <2>1. leaves \in Seq(Commitments \ {NonCanonicalLeaf}) /\ Len(leaves) \in Nat
    BY <1>1 DEF TypeOK
  <2>2. leaves'[Len(leaves) + 1] = c
    BY <1>1, <2>1
  <2>3. QED
    BY <1>1, <2>1, <2>2, InsertType
<1> DEFINE created == {NullifierOf[n] : n \in Notes \cap {c}}
<1>3. DepositedNullifiers' = DepositedNullifiers \cup created
  <2>1. {leaves'[i] : i \in DOMAIN leaves'} = {leaves[i] : i \in DOMAIN leaves} \cup {c}
    BY <1>2
  <2>2. QED
    BY <2>1 DEF DepositedNullifiers
<1>4. created \in {{}} \cup {{f} : f \in Nullifiers}
  BY NotesAssumption
<1>5. Balance' = Balance + Denomination
  <2>1. lamports'[VaultPda] = lamports[VaultPda] + Denomination
    BY <1>1, DepositType
  <2>2. lamports[VaultPda] \in Nat /\ vaultBase \in Nat /\ Denomination \in Nat
    BY <1>1, AccountsAssumption, SizesAssumption DEF TypeOK, Accounts
  <2>3. QED
    BY <1>1, <2>1, <2>2 DEF Balance
<1>6. Redeemed' = Redeemed
  BY <1>1 DEF Redeemed
<1> HIDE DEF created
<1>7. EscrowOf!Deposit(created)
  BY <1>2, <1>3, <1>5, <1>6 DEF EscrowOf!Deposit, Redeemed, Balance
<1>8. QED
  BY <1>4, <1>7 DEF EscrowStep, EscrowOf!Next

LEMMA WithdrawIsRedeem ==
    ASSUME IInv, NEW p \in proofs, NEW hash \in HashBytes, NEW relayer \in Wallets,
           NEW feeMax \in Nat, NEW taken \in Nat, NEW recipient \in Accounts,
           Withdraw(p, hash, relayer, feeMax, taken, recipient)
    PROVE  EscrowStep
<1>1. /\ TypeOK /\ IInv' /\ hash \notin spent /\ spent' = spent \cup {hash}
      /\ lamports'[VaultPda] = lamports[VaultPda] - Denomination
  BY WithdrawType, WithdrawIInv DEF IInv
<1>2. /\ initialized /\ initialized' /\ leaves' = leaves /\ vaultBase' = vaultBase
      /\ IsCanonicalFr(hash)
  BY DEF Withdraw, WithdrawAccepted
<1> DEFINE claim == hash[1]
<1>3. claim \in Nullifiers /\ hash = <<claim, 0>>
  BY <1>2 DEF HashBytes, IsCanonicalFr
<1>4. DepositedNullifiers' = DepositedNullifiers /\ claim \in DepositedNullifiers
  <2>1. DepositedNullifiers' = DepositedNullifiers
    BY <1>2 DEF DepositedNullifiers
  <2>2. hash[1] \in DepositedNullifiers'
    BY <1>1 DEF IInv, SpentAreDeposited
  <2>3. QED
    BY <2>1, <2>2
<1>5. claim \notin Redeemed
  <2>1. SUFFICES ASSUME NEW h \in spent, h[1] = claim
                 PROVE  FALSE
    BY DEF Redeemed
  <2>2. h[2] = 0 /\ h \in HashBytes
    BY <1>1 DEF IInv, SpentAreDeposited, TypeOK
  <2>3. h = hash
    BY <1>3, <2>1, <2>2 DEF HashBytes
  <2>4. QED
    BY <1>1, <2>1, <2>3
<1>6. Redeemed' = Redeemed \cup {claim}
  BY <1>1 DEF Redeemed
<1>7. Balance >= Denomination /\ Balance' = Balance - Denomination
  <2>1. Cardinality(spent') = Cardinality(spent) + 1
    BY <1>1, SpentFinite, FS_AddElement DEF TypeOK
  <2>2. Cardinality(spent') <= Len(leaves')
    BY <1>1, SpentCountAfter
  <2>3. Cardinality(spent) \in Nat /\ Len(leaves) \in Nat
    BY <1>1, SpentFinite DEF TypeOK
  <2>4. Balance >= Denomination
    BY <1>2, <2>1, <2>2, <2>3, BalanceCovers
  <2>5. lamports[VaultPda] \in Nat /\ vaultBase \in Nat /\ Denomination \in Nat
    BY <1>1, AccountsAssumption, SizesAssumption DEF TypeOK, Accounts
  <2>6. QED
    BY <1>1, <1>2, <2>4, <2>5 DEF Balance
<1>8. Len(leaves') = Len(leaves)
  BY <1>2
<1> HIDE DEF claim
<1>9. EscrowOf!Redeem(claim)
  BY <1>4, <1>5, <1>6, <1>7, <1>8 DEF EscrowOf!Redeem, Redeemed, Balance
<1>10. QED
  BY <1>3, <1>9 DEF EscrowStep, EscrowOf!Next

\* Lamports that only ever reach the vault.
LEMMA VaultGrows ==
    ASSUME IInv, IInv', UNCHANGED <<initialized, leaves, spent, vaultBase>>,
           lamports'[VaultPda] >= lamports[VaultPda]
    PROVE  EscrowStep
<1>1. /\ lamports[VaultPda] \in Nat /\ lamports'[VaultPda] \in Nat /\ vaultBase \in Nat
  BY AccountsAssumption DEF IInv, TypeOK, Accounts
<1>2. CASE ~initialized
  BY <1>2, OutsideIsDonation DEF Balance
<1>3. CASE initialized
  <2>1. Balance \in Nat
    BY <1>3, BalanceCovers
  <2>2. Balance' \in Nat /\ Balance' >= Balance
    BY <1>1, <1>3, <2>1 DEF Balance
  <2>3. QED
    BY <2>1, <2>2, OutsideIsDonation
<1>4. QED
  BY <1>2, <1>3

LEMMA NextIsEscrow == IInv /\ IInv' /\ [Next]_vars => EscrowStep
<1> SUFFICES ASSUME IInv, IInv', [Next]_vars
             PROVE  EscrowStep
  OBVIOUS
<1>0. lamports[VaultPda] \in Nat
  BY AccountsAssumption DEF IInv, TypeOK, Accounts
<1>1. CASE SomeInitialize
  BY <1>1, InitializeIsNothing DEF SomeInitialize
<1>2. CASE SomeDeposit
  BY <1>2, DepositIsDeposit DEF SomeDeposit
<1>3. CASE SomeWithdraw
  BY <1>3, WithdrawIsRedeem, ChoicesAssumption, SizesAssumption DEF SomeWithdraw
<1>4. CASE SomePause
  BY <1>0, <1>4, VaultGrows DEF SomePause, PausePool, UnpausePool
<1>5. CASE SomeProve
  BY <1>0, <1>5, VaultGrows DEF SomeProve, Prove
<1>6. CASE SomeTransfer
  <2>1. UNCHANGED <<initialized, leaves, spent, vaultBase>>
    BY <1>6 DEF SomeTransfer, Transfer
  <2>2. lamports'[VaultPda] >= lamports[VaultPda]
    BY <1>6, TransferType DEF SomeTransfer, IInv
  <2>3. QED
    BY <2>1, <2>2, VaultGrows
<1>7. CASE SomeRentChange
  BY <1>0, <1>7, VaultGrows DEF SomeRentChange, SetRentRate
<1>8. CASE UNCHANGED vars
  BY <1>0, <1>8, VaultGrows DEF vars
<1>9. QED
  BY <1>1, <1>2, <1>3, <1>4, <1>5, <1>6, <1>7, <1>8 DEF Next

LEMMA InitIsEscrow == Init => EscrowOf!Init
<1> SUFFICES ASSUME Init
             PROVE  EscrowOf!Init
  OBVIOUS
<1>1. leaves = <<>> /\ spent = {} /\ ~initialized
  BY DEF Init
<1>2. DepositedNullifiers = {} /\ {h[1] : h \in spent} = {} /\ Len(leaves) = 0
  BY <1>1 DEF DepositedNullifiers
<1>3. QED
  BY <1>1, <1>2 DEF EscrowOf!Init

\* Whatever notes share nullifiers, whatever encodings are tried, whoever funds
\* which address beforehand and however rent moves, a pool does what an escrow
\* does: deposits create claims, a claim pays one denomination once.
THEOREM PoolIsAnEscrow == Spec => ImplementsEscrow
<1>1. IInv /\ IInv' /\ [Next]_vars => [EscrowOf!Next]_(EscrowOf!vars)
  BY NextIsEscrow DEF EscrowStep
<1>2. QED
  BY <1>1, InitIsEscrow, Invariance, PTL DEF Spec, ImplementsEscrow, EscrowOf!Spec

-----------------------------------------------------------------------------
(* Recovery: each check of a withdrawal, for a note that was deposited and  *)
(* whose nullifier is unspent.                                              *)

\* An unspent note leaves room for one more withdrawal: with its nullifier, the
\* spent ones still come from distinct leaves.
LEMMA RoomForOneMore ==
    ASSUME IInv, NEW n \in Notes, NEW i \in DOMAIN leaves, leaves[i] = n,
           Hashes(n) \notin spent
    PROVE  Cardinality(spent) < Len(leaves)
<1> DEFINE S == spent \cup {Hashes(n)}
<1>1. /\ NullifierOf[n] \in Nullifiers /\ NullifierOf[n] \in DepositedNullifiers
      /\ Hashes(n) = <<NullifierOf[n], 0>>
  BY NotesAssumption DEF DepositedNullifiers, Hashes
<1>2. S \subseteq HashBytes /\ TypeOK
  BY <1>1 DEF IInv, TypeOK, HashBytes
<1>3. \A h \in S : h[2] = 0 /\ h[1] \in DepositedNullifiers
  BY <1>1 DEF IInv, SpentAreDeposited
<1>4. Cardinality(S) <= Len(leaves)
  BY <1>2, <1>3, BackedCount
<1>5. IsFiniteSet(spent) /\ Cardinality(spent) \in Nat /\ Len(leaves) \in Nat
  BY SpentFinite DEF IInv, TypeOK
<1>6. Cardinality(S) = Cardinality(spent) + 1
  BY <1>5, FS_AddElement
<1>7. QED
  BY <1>4, <1>5, <1>6

\* The vault then has a denomination beyond what it was created with.
LEMMA VaultHasIt ==
    ASSUME IInv, initialized, Cardinality(spent) < Len(leaves)
    PROVE  lamports[VaultPda] >= vaultBase + Denomination
<1>1. Balance >= Denomination
  BY BalanceCovers
<1>2. lamports[VaultPda] \in Nat /\ vaultBase \in Nat /\ Denomination \in Nat
  BY AccountsAssumption, SizesAssumption DEF IInv, TypeOK, Accounts
<1>3. QED
  BY <1>1, <1>2 DEF Balance

\* The newest root is known, is not the empty one, and holds every note.
LEMMA CurrentRootOpens ==
    ASSUME RingInv, initialized, NEW n \in Notes, NEW i \in DOMAIN leaves,
           leaves[i] = n
    PROVE  RootAccepted(CurrentRoot) /\ \E j \in DOMAIN CurrentRoot : CurrentRoot[j] = n
<1> DEFINE S == {j \in DOMAIN leaves : leaves[j] # ZeroLeaf}
<1>1. /\ leaves \in Seq(Commitments \ {NonCanonicalLeaf}) /\ Len(leaves) \in Nat
      /\ Len(leaves) <= SaturationThreshold /\ SaturationThreshold \in Nat
      /\ rootIndex \in 0 .. RootHistorySize - 1
      /\ RootHistorySize \in Nat /\ RootHistorySize > 0
  BY SizesAssumption DEF RingInv, TypeOK
<1>2. CurrentRoot = RootOf(leaves)
  <2>1. rootIndex + RootHistorySize - 0 \in 0 .. 2 * RootHistorySize - 1
    BY <1>1
  <2>2. (rootIndex + RootHistorySize - 0) % RootHistorySize = rootIndex
    BY <1>1, <2>1, Around
  <2>3. 0 \in 0 .. RootHistorySize - 1 /\ 0 <= Len(leaves)
    BY <1>1
  <2>4. rootHistory[(rootIndex + RootHistorySize - 0) % RootHistorySize] =
          IF 0 <= Len(leaves) THEN RootOf(SubSeq(leaves, 1, Len(leaves) - 0)) ELSE NoRoot
    BY <2>3 DEF RingInv, RingHoldsLatestRoots
  <2>5. SubSeq(leaves, 1, Len(leaves) - 0) = leaves
    BY <1>1, SubSeqFull
  <2>6. rootHistory[rootIndex] = RootOf(leaves)
    BY <2>2, <2>3, <2>4, <2>5
  <2>7. QED
    BY <2>6 DEF CurrentRoot
<1>3. i \in S /\ RootOf(leaves) = [j \in S |-> leaves[j]]
  BY NotesAssumption DEF RootOf
<1>4. \A j \in S : leaves[j] \in Notes
  BY <1>1 DEF Commitments
<1>5. S \in SUBSET (1 .. SaturationThreshold)
  BY <1>1
<1> HIDE DEF S
<1>6. RootOf(leaves) \in [S -> Notes]
  BY <1>3, <1>4
<1>7. RootOf(leaves) # NoRoot
  BY <1>5, <1>6, RootsAssumption
<1>8. RootOf(leaves) # EmptyRoot
  BY <1>3, EmptyRootDomain
<1>9. IsKnownRoot(CurrentRoot)
  BY <1>1, <1>2, <1>7 DEF IsKnownRoot, CurrentRoot
<1>10. QED
  BY <1>2, <1>3, <1>8, <1>9 DEF RootAccepted

\* The accounts of a withdrawal, in the order of its transfers.
Entry(a, hash, relayer, recipient, short, fee, taken, amount) ==
    LET opened  == IF a = VaultPda THEN lamports[a] - Denomination
                   ELSE IF a = relayer THEN lamports[a] - short
                   ELSE IF a = hash THEN lamports[a] + short
                   ELSE lamports[a]
        withFee == IF a = treasury THEN opened + fee ELSE opened
        repaid  == IF a = relayer THEN withFee + taken ELSE withFee
    IN IF a = recipient THEN repaid + amount ELSE repaid

LEMMA WithdrawEntries ==
    ASSUME TypeOK, NEW hash \in HashBytes, NEW relayer \in Wallets,
           NEW recipient \in Accounts, NEW taken
    PROVE  LET short  == Shortfall(hash, NullifierSpace)
               funded == NullifierFunded(hash, relayer)
               fee    == FeePaid(funded, relayer, recipient)
               amount == AmountPaid(funded, relayer, recipient, taken)
               post   == WithdrawLedger(hash, relayer, recipient, taken)
           IN \A a \in Accounts :
                 /\ post[a] = Entry(a, hash, relayer, recipient, short, fee, taken, amount)
                 /\ a \notin {relayer, hash} => funded[a] = lamports[a]
<1> DEFINE short  == Shortfall(hash, NullifierSpace)
           funded == NullifierFunded(hash, relayer)
           fee    == FeePaid(funded, relayer, recipient)
           amount == AmountPaid(funded, relayer, recipient, taken)
           debited == [funded EXCEPT ![VaultPda] = @ - Denomination]
           c1 == Credit(debited, treasury, fee)
           c2 == Credit(c1, relayer, taken)
           c3 == Credit(c2, recipient, amount)
<1>1. /\ hash \in Accounts /\ relayer \in Accounts /\ treasury \in Accounts
      /\ VaultPda \in Accounts /\ hash # relayer
      /\ relayer # VaultPda /\ hash # VaultPda /\ DOMAIN lamports = Accounts
  BY AccountsAssumption DEF TypeOK, Accounts, SystemAccounts
<1>2. /\ DOMAIN funded = Accounts
      /\ \A a \in Accounts : funded[a] = IF a = relayer THEN lamports[a] - short
                                         ELSE IF a = hash THEN lamports[a] + short
                                         ELSE lamports[a]
  <2> HIDE DEF short
  <2>1. QED
    BY <1>1 DEF NullifierFunded, Move, short
<1> HIDE DEF funded, fee, amount, short
<1>3. /\ DOMAIN debited = Accounts
      /\ \A a \in Accounts : debited[a] = IF a = VaultPda THEN funded[a] - Denomination
                                                         ELSE funded[a]
  BY <1>1, <1>2
<1> HIDE DEF debited
<1>4. /\ DOMAIN c1 = Accounts
      /\ \A a \in Accounts : c1[a] = IF a = treasury THEN debited[a] + fee ELSE debited[a]
  BY <1>3 DEF Credit
<1> HIDE DEF c1
<1>5. /\ DOMAIN c2 = Accounts
      /\ \A a \in Accounts : c2[a] = IF a = relayer THEN c1[a] + taken ELSE c1[a]
  BY <1>4 DEF Credit
<1> HIDE DEF c2
<1>6. \A a \in Accounts : c3[a] = IF a = recipient THEN c2[a] + amount ELSE c2[a]
  BY <1>5 DEF Credit
<1>7. WithdrawLedger(hash, relayer, recipient, taken) = c3
  BY DEF WithdrawLedger, PaidOut, c1, c2, debited, fee, amount, funded
<1> HIDE DEF c3
<1>8. \A a \in Accounts :
        c3[a] = Entry(a, hash, relayer, recipient, short, fee, taken, amount)
  BY <1>1, <1>2, <1>3, <1>4, <1>5, <1>6 DEF Entry
<1>9. QED
  BY <1>2, <1>7, <1>8 DEF funded, fee, amount, short

\* Sizes of the accounts a withdrawal moves lamports of.
LEMMA Spaces ==
    ASSUME TypeOK, initialized, NEW S, S \subseteq HashBytes, NEW a \in Accounts
    PROVE  /\ a = VaultPda => Space(a, initialized, S) = VaultSpace
           /\ a \in S => Space(a, initialized, S) = NullifierSpace
           /\ a \notin S \cup {VaultPda, PoolPda} => Space(a, initialized, S) = 0
<1>1. VaultPda \notin S /\ PoolPda \notin S /\ VaultPda # PoolPda
  BY AccountsAssumption
<1>2. QED
  BY <1>1 DEF Space

\* What the recipient is paid, whoever gets the protocol fee, is worth a rent
\* exempt account.
LEMMA AmountIsEnough ==
    ASSUME TypeOK, RentWithinCreation, NEW ledger, NEW relayer, NEW recipient,
           NEW taken \in Nat, NEW feeMax \in Nat,
           FeeSplitAccepted(Denomination, taken, feeMax)
    PROVE  /\ FeePaid(ledger, relayer, recipient) \in Nat
           /\ AmountPaid(ledger, relayer, recipient, taken) \in Nat
           /\ AmountPaid(ledger, relayer, recipient, taken) >= MinimumBalance(rentRate, 0)
<1> DEFINE fee == FeePaid(ledger, relayer, recipient)
           amount == AmountPaid(ledger, relayer, recipient, taken)
           most == TreasuryFee(Denomination)
           cap == RelayerFeeCap(Denomination)
<1>1. fee \in Nat /\ amount \in Nat
  BY AmountPaidType
<1>2. /\ most \in Nat /\ cap \in Nat /\ Denomination \in Nat
      /\ MinimumBalance(rentRate, 0) \in Nat
  <2>1. most \in Nat /\ Denomination \in Nat
    BY SizesAssumption DEF TreasuryFee, TreasuryFeeDivisor
  <2>2. cap \in Nat
    BY SizesAssumption DEF RelayerFeeCap, MaxRelayerFeeDivisor
  <2>3. rentRate \in Nat
    BY SizesAssumption DEF TypeOK
  <2>4. MinimumBalance(rentRate, 0) \in Nat
    BY <2>3, MinimumBalanceType
  <2> HIDE DEF most, cap
  <2>5. QED
    BY <2>1, <2>2, <2>4
<1>3. fee \in {0, most}
  BY DEF FeePaid, RoutedFee
<1>4. amount = Denomination - taken - fee
  BY DEF AmountPaid
<1>5. taken <= feeMax /\ feeMax <= cap
  BY DEF FeeSplitAccepted
<1>6. Denomination - most - cap >= MinimumBalance(rentRate, 0)
  BY DEF RentWithinCreation, WorstCaseUserAmount
<1> HIDE DEF fee, amount, most, cap
<1>7. amount >= MinimumBalance(rentRate, 0)
  BY <1>1, <1>2, <1>3, <1>4, <1>5, <1>6
<1>8. QED
  BY <1>1, <1>7 DEF fee, amount

\* The runtime's rent check, account by account.
LEMMA RentHolds ==
    ASSUME TypeOK, initialized, RentWithinCreation,
           lamports[VaultPda] >= vaultBase + Denomination,
           NEW hash \in HashBytes, NEW relayer \in Wallets, NEW recipient \in Accounts,
           NEW taken \in Nat, NEW feeMax \in Nat,
           FeeSplitAccepted(Denomination, taken, feeMax),
           AccountsDistinct(hash, relayer, recipient),
           lamports[relayer] >= Shortfall(hash, NullifierSpace) + MinimumBalance(rentRate, 0),
           recipient \in spent =>
               lamports[recipient] >= MinimumBalance(rentRate, NullifierSpace)
    PROVE  LedgerRentOk(WithdrawLedger(hash, relayer, recipient, taken),
                        initialized, spent \cup {hash})
<1> DEFINE short  == Shortfall(hash, NullifierSpace)
           funded == NullifierFunded(hash, relayer)
           fee    == FeePaid(funded, relayer, recipient)
           amount == AmountPaid(funded, relayer, recipient, taken)
           post   == WithdrawLedger(hash, relayer, recipient, taken)
           min(space) == MinimumBalance(rentRate, space)
           size(a) == Space(a, initialized, spent \cup {hash})
<1>1. /\ lamports \in [Accounts -> Nat] /\ rentRate \in Nat /\ spent \subseteq HashBytes
      /\ hash \in Accounts /\ relayer \in Accounts /\ treasury \in Accounts
      /\ VaultPda \in Accounts /\ vaultBase \in Nat /\ Denomination \in Nat
      /\ relayer \notin HashBytes \cup {VaultPda, PoolPda} /\ hash # VaultPda
      /\ treasury \notin {VaultPda, PoolPda, hash}
      /\ recipient \notin {VaultPda, PoolPda, hash} /\ hash # relayer
  BY AccountsAssumption, SizesAssumption
  DEF TypeOK, Accounts, SystemAccounts, AccountsDistinct
<1>2. /\ short \in Nat /\ lamports[hash] + short >= min(NullifierSpace)
      /\ min(0) \in Nat /\ min(NullifierSpace) \in Nat /\ min(VaultSpace) \in Nat
  <2>1. /\ NullifierSpace \in Nat /\ VaultSpace \in Nat
    BY DEF NullifierSpace, VaultSpace
  <2>2. /\ min(0) \in Nat /\ min(NullifierSpace) \in Nat /\ min(VaultSpace) \in Nat
    BY <1>1, <2>1, MinimumBalanceType
  <2>3. short = IF lamports[hash] < min(NullifierSpace)
                THEN min(NullifierSpace) - lamports[hash] ELSE 0
    BY DEF Shortfall
  <2> HIDE DEF short, min
  <2>4. QED
    BY <1>1, <2>2, <2>3
<1>3. fee \in Nat /\ amount \in Nat /\ amount >= min(0)
  BY AmountIsEnough
<1>4. \A a \in Accounts :
        /\ post[a] = Entry(a, hash, relayer, recipient, short, fee, taken, amount)
        /\ a \notin {relayer, hash} => funded[a] = lamports[a]
  BY WithdrawEntries
<1>5. /\ size(VaultPda) = VaultSpace /\ size(hash) = NullifierSpace /\ size(relayer) = 0
      /\ recipient \in spent => size(recipient) = NullifierSpace
      /\ recipient \notin spent => size(recipient) = 0
      /\ size(treasury) = Space(treasury, initialized, spent)
  <2>1. spent \cup {hash} \subseteq HashBytes
    BY <1>1
  <2>2. treasury \in spent \cup {hash} <=> treasury \in spent
    BY <1>1
  <2>3. Space(treasury, initialized, spent \cup {hash}) = Space(treasury, initialized, spent)
    BY <2>2 DEF Space
  <2>4. hash \in spent \cup {hash} /\ relayer \notin spent \cup {hash, VaultPda, PoolPda}
    BY <1>1
  <2>5. recipient \notin spent => recipient \notin spent \cup {hash, VaultPda, PoolPda}
    BY <1>1
  <2>6. \A a \in Accounts :
          /\ a = VaultPda => size(a) = VaultSpace
          /\ a \in spent \cup {hash} => size(a) = NullifierSpace
          /\ a \notin spent \cup {hash, VaultPda, PoolPda} => size(a) = 0
    <3> DEFINE S == spent \cup {hash}
    <3>1. S \subseteq HashBytes
      BY <2>1
    <3> HIDE DEF S
    <3>2. \A a \in Accounts :
            /\ a = VaultPda => Space(a, initialized, S) = VaultSpace
            /\ a \in S => Space(a, initialized, S) = NullifierSpace
            /\ a \notin S \cup {VaultPda, PoolPda} => Space(a, initialized, S) = 0
      BY <3>1, Spaces
    <3>3. \A a \in Accounts : size(a) = Space(a, initialized, S)
      BY DEF S
    <3> HIDE DEF size
    <3>4. QED
      BY <3>2, <3>3 DEF S
  <2>7. size(treasury) = Space(treasury, initialized, spent)
    BY <2>3
  <2> HIDE DEF size
  <2>8. QED
    BY <1>1, <2>4, <2>5, <2>6, <2>7
\* The fee is only paid to a treasury that can bear it.
<1>6. treasury \notin {relayer, recipient} /\ fee # 0 =>
        lamports[treasury] + fee >= min(size(treasury))
  <2>1. SUFFICES ASSUME treasury \notin {relayer, recipient}, fee # 0
                 PROVE  lamports[treasury] + fee >= min(size(treasury))
    OBVIOUS
  <2>2. funded[treasury] = lamports[treasury]
    BY <1>1, <1>4, <2>1
  <2>3. ~TreasuryIsPayee(relayer, recipient)
    BY <2>1 DEF TreasuryIsPayee
  <2> DEFINE most == TreasuryFee(Denomination)
             space == Space(treasury, initialized, spent)
  <2>4. fee = RoutedFee(most, lamports[treasury], space,
                        TreasuryIsPayee(relayer, recipient), rentRate)
    BY <2>2 DEF FeePaid
  <2> HIDE DEF fee, most, space, min
  <2>5. fee = most /\ ~(lamports[treasury] + most < MinimumBalance(rentRate, space))
    BY <2>1, <2>3, <2>4 DEF RoutedFee, TreasuryFeeRedirected
  <2>6. MinimumBalance(rentRate, space) \in Nat
    BY <1>1, MinimumBalanceType DEF space, Space, VaultSpace, PoolSpace, NullifierSpace
  <2>7. size(treasury) = space
    BY <1>5 DEF space
  <2>8. lamports[treasury] \in Nat
    BY <1>1
  <2> HIDE DEF size
  <2>9. lamports[treasury] + fee >= MinimumBalance(rentRate, space)
    BY <1>3, <2>5, <2>6, <2>8
  <2>10. QED
    BY <2>7, <2>9 DEF min
<1>7. /\ vaultBase >= min(VaultSpace)
      /\ lamports[relayer] >= short + min(0)
      /\ recipient \in spent => lamports[recipient] >= min(NullifierSpace)
  BY DEF RentWithinCreation
<1> HIDE DEF short, funded, fee, amount, post, min, size
<1>8. ASSUME NEW a \in Accounts, post[a] # lamports[a]
      PROVE  post[a] >= min(size(a))
  <2>0. /\ post[a] = Entry(a, hash, relayer, recipient, short, fee, taken, amount)
        /\ lamports[a] \in Nat
    BY <1>1, <1>4
  <2>1. CASE a = VaultPda
    <3>1. post[a] = lamports[a] - Denomination
      BY <1>1, <2>0, <2>1 DEF Entry
    <3>2. QED
      BY <1>1, <1>2, <1>5, <1>7, <2>0, <2>1, <3>1
  <2>2. CASE a = hash
    <3>1. post[a] = lamports[a] + short
      BY <1>1, <2>0, <2>2 DEF Entry
    <3>2. QED
      BY <1>2, <1>5, <2>2, <3>1
  <2>3. CASE a = relayer
    <3>1. post[a] >= lamports[a] - short
      BY <1>1, <1>2, <1>3, <2>0, <2>3 DEF Entry
    <3>2. post[a] \in Int
      BY <1>1, <1>2, <1>3, <2>0, <2>3 DEF Entry
    <3>3. QED
      BY <1>2, <1>5, <1>7, <2>0, <2>3, <3>1, <3>2
  <2>4. CASE a = recipient /\ a # relayer
    <3>1. post[a] >= lamports[a] + amount /\ post[a] \in Int
      BY <1>1, <1>3, <2>0, <2>4 DEF Entry
    <3>2. QED
      BY <1>2, <1>3, <1>5, <1>7, <2>0, <2>4, <3>1
  <2>5. CASE a = treasury /\ a \notin {relayer, recipient}
    <3>1. post[a] = lamports[a] + fee
      BY <1>1, <2>0, <2>5 DEF Entry
    <3>2. fee # 0
      BY <1>3, <1>8, <2>0, <3>1
    <3>3. QED
      BY <1>6, <2>5, <3>1, <3>2
  <2>6. CASE a \notin {VaultPda, hash, relayer, recipient, treasury}
    BY <1>8, <2>0, <2>6 DEF Entry
  <2>7. QED
    BY <2>1, <2>2, <2>3, <2>4, <2>5, <2>6
<1>9. QED
  BY <1>8 DEF LedgerRentOk, RentStateOk, post, min, size

\* Whatever the pool has been through, an unspent note of it can be withdrawn
\* now: no check of process_withdraw and no rent rule of the runtime stands in
\* the way, paused or not, for any recipient that is no account of the program.
THEOREM FundsAreRecoverable == Spec => []NoteRecoverable
<1>1. IInv /\ RingInv => NoteRecoverable
  <2>1. SUFFICES ASSUME IInv, RingInv, initialized, RentWithinCreation,
                        NEW n \in Notes, NEW i \in DOMAIN leaves, leaves[i] = n,
                        NEW relayer \in Relayers, NEW feeMax \in FeeCeilings,
                        NEW taken \in FeesTaken, NEW recipient \in Recipients,
                        recipient \notin {VaultPda, PoolPda, Hashes(n)},
                        Hashes(n) \notin spent, treasury # Hashes(n),
                        FeeSplitAccepted(Denomination, taken, feeMax),
                        lamports[relayer] >= Shortfall(Hashes(n), NullifierSpace)
                                                + MinimumBalance(rentRate, 0),
                        recipient \in spent =>
                            lamports[recipient] >= MinimumBalance(rentRate, NullifierSpace)
                 PROVE  WithdrawAccepted(
                            [note |-> n, root |-> CurrentRoot, relayer |-> relayer,
                             feeMax |-> feeMax, recipient |-> recipient,
                             at |-> Len(leaves)],
                            Hashes(n), relayer, feeMax, taken, recipient)
    BY DEF NoteRecoverable
  <2> DEFINE h == Hashes(n)
             p == [note |-> n, root |-> CurrentRoot, relayer |-> relayer,
                   feeMax |-> feeMax, recipient |-> recipient, at |-> Len(leaves)]
  <2>2. /\ TypeOK /\ relayer \in Wallets /\ recipient \in Accounts
        /\ feeMax \in Nat /\ taken \in Nat
    BY <2>1, ChoicesAssumption, SizesAssumption DEF IInv
  <2>3. h \in HashBytes /\ h[1] = NullifierOf[n] /\ h[2] = 0
    BY NotesAssumption DEF Hashes, HashBytes
  <2>4. AccountsDistinct(h, relayer, recipient)
    BY <2>1, <2>2, <2>3, AccountsAssumption
    DEF AccountsDistinct, TypeOK, SystemAccounts
  <2>5. lamports[VaultPda] >= vaultBase + Denomination
    BY <2>1, RoomForOneMore, VaultHasIt
  <2>6. RootAccepted(p.root) /\ Groth16Verifies(p, h)
    BY <2>1, <2>3, CurrentRootOpens DEF Groth16Verifies
  <2>7. /\ lamports[relayer] >= Shortfall(h, NullifierSpace)
        /\ VaultGuard(NullifierFunded(h, relayer))
    <3>1. /\ h \in Accounts /\ relayer \in Accounts /\ VaultPda \in Accounts
          /\ VaultPda \notin {relayer, h}
      BY <2>2, <2>3, AccountsAssumption DEF Accounts
    <3>2. /\ MinimumBalance(rentRate, 0) \in Nat /\ MinimumBalance(rentRate, VaultSpace) \in Nat
          /\ Shortfall(h, NullifierSpace) \in Nat
          /\ lamports[relayer] \in Nat /\ lamports[VaultPda] \in Nat
          /\ vaultBase \in Nat /\ Denomination \in Nat
      <4>1. /\ rentRate \in Nat /\ lamports \in [Accounts -> Nat]
            /\ vaultBase \in Nat /\ Denomination \in Nat
        BY <2>2, SizesAssumption DEF TypeOK
      <4>2. VaultSpace \in Nat /\ NullifierSpace \in Nat
        BY DEF VaultSpace, NullifierSpace
      <4>3. /\ MinimumBalance(rentRate, 0) \in Nat
            /\ MinimumBalance(rentRate, VaultSpace) \in Nat
        BY <4>1, <4>2, MinimumBalanceType
      <4>4. Shortfall(h, NullifierSpace) \in Nat
        BY <2>2, <3>1, <4>2, ShortfallType
      <4> HIDE DEF h
      <4>5. QED
        BY <3>1, <4>1, <4>3, <4>4
    <3>3. NullifierFunded(h, relayer)[VaultPda] = lamports[VaultPda]
      BY <2>2, <2>3, <3>1, WithdrawEntries
    <3>4. vaultBase >= MinimumBalance(rentRate, VaultSpace)
      BY <2>1 DEF RentWithinCreation
    <3>5. lamports[VaultPda] >= Denomination + MinimumBalance(rentRate, VaultSpace)
      BY <2>5, <3>2, <3>4
    <3>6. lamports[relayer] >= Shortfall(h, NullifierSpace)
      BY <2>1, <3>2
    <3>7. QED
      BY <3>3, <3>5, <3>6 DEF VaultGuard
  <2>8. LedgerRentOk(WithdrawLedger(h, relayer, recipient, taken),
                     initialized, spent \cup {h})
    BY <2>1, <2>2, <2>3, <2>4, <2>5, RentHolds
  <2>9. CommitmentMatches(p, relayer, feeMax, recipient)
    BY DEF CommitmentMatches
  <2> HIDE DEF p
  <2>10. QED
    BY <2>1, <2>3, <2>4, <2>6, <2>7, <2>8, <2>9
    DEF WithdrawAccepted, IsCanonicalFr, NotSpent, p
<1>2. QED
  BY <1>1, Invariance, RingInvariance, PTL

-----------------------------------------------------------------------------
(* Sums over finite sets. The library's fold picks the elements in the      *)
(* order of CHOOSE; that the order does not matter is proved by induction   *)
(* over the cardinality of the set.                                         *)

LEMMA SetInduction ==
    ASSUME NEW S, 0 \in S, \A n \in Nat : n \in S => n + 1 \in S
    PROVE  Nat \subseteq S
<1> SUFFICES ASSUME NEW bad \in Nat, bad \notin S PROVE FALSE
  OBVIOUS
<1> DEFINE T == {0..n : n \in {k \in Nat : k \notin S}}
<1>1. T \subseteq FiniteSubsetsOf(Nat)
  <2> SUFFICES ASSUME NEW n \in Nat PROVE 0..n \in FiniteSubsetsOf(Nat)
    OBVIOUS
  <2>1. IsFiniteSet(0..n)
    BY FS_Interval
  <2> QED BY <2>1 DEF FiniteSubsetsOf
<1>2. T # {}
  OBVIOUS
<1>3. PICK s \in T : \A t \in T : <<t, s>> \notin StrictSubsetOrdering(Nat)
  <2>1. IsWellFoundedOn(StrictSubsetOrdering(Nat), FiniteSubsetsOf(Nat))
    BY FS_StrictSubsetOrderingWellFounded
  <2> HIDE DEF T
  <2> QED BY <2>1, <1>1, <1>2, WFMin
<1>4. PICK n \in Nat : n \notin S /\ s = 0..n
  BY <1>3
<1>5. n - 1 \in Nat /\ n - 1 \notin S
  <2>1. n # 0
    BY <1>4
  <2> QED BY <1>4, <2>1
<1>6. 0..(n - 1) \in T
  BY <1>5
<1>7. <<0..(n - 1), s>> \in StrictSubsetOrdering(Nat)
  <2>1. 0..(n - 1) \subseteq s /\ 0..(n - 1) # s
    BY <1>4
  <2> QED BY <1>4, <2>1 DEF StrictSubsetOrdering
<1> QED
  BY <1>6, <1>7, <1>3

\* The sum over a finite set adds one chosen element to the sum of the others.
Chosen(s) == CHOOSE x \in s : TRUE

\* A function that sums f over each subset of S.
Sums(z, f, S) ==
    z = [s \in SUBSET S |-> IF s = {} THEN 0 ELSE f[Chosen(s)] + z[s \ {Chosen(s)}]]

LEMMA SumDef ==
    ASSUME NEW f, NEW S
    PROVE  SumFunctionOnSet(f, S) = (CHOOSE z : Sums(z, f, S))[S]
BY DEF SumFunctionOnSet, FoldFunctionOnSet, MapThenFoldSet, Sums, Chosen

LEMMA SmallerSubset ==
    ASSUME NEW S, IsFiniteSet(S), NEW s \in SUBSET S, s # {}
    PROVE  /\ Chosen(s) \in s
           /\ s \ {Chosen(s)} \in SUBSET S
           /\ Cardinality(s) \in Nat \ {0}
           /\ Cardinality(s \ {Chosen(s)}) = Cardinality(s) - 1
<1>1. Chosen(s) \in s
  BY DEF Chosen
<1>2. IsFiniteSet(s)
  BY FS_Subset
<1>3. Cardinality(s) \in Nat /\ Cardinality(s) # 0
  BY <1>2, FS_CardinalityType, FS_EmptySet
<1> DEFINE x == Chosen(s)
<1> HIDE DEF x
<1>4. ASSUME NEW y \in s PROVE Cardinality(s \ {y}) = Cardinality(s) - 1
  BY <1>2, FS_RemoveElement
<1> QED
  BY <1>1, <1>3, <1>4

LEMMA SumsExist ==
    ASSUME NEW f, NEW S, IsFiniteSet(S)
    PROVE  \E z : Sums(z, f, S)
<1> DEFINE Step(z, s) == IF s = {} THEN 0 ELSE f[Chosen(s)] + z[s \ {Chosen(s)}]
           Small(n) == {s \in SUBSET S : Cardinality(s) <= n}
           Good == {n \in Nat : \E z : \A s \in Small(n) : z[s] = Step(z, s)}
<1>1. \A s \in SUBSET S : Cardinality(s) \in Nat /\ (Cardinality(s) = 0 <=> s = {})
  BY FS_Subset, FS_CardinalityType, FS_EmptySet
<1>2. 0 \in Good
  <2>1. \A s \in Small(0) : s = {}
    BY <1>1
  <2> DEFINE z == [s \in SUBSET S |-> 0]
  <2>2. \A s \in Small(0) : z[s] = Step(z, s)
    BY <2>1
  <2> HIDE DEF z, Step, Small
  <2> QED BY <2>2
<1>3. ASSUME NEW n \in Nat, n \in Good PROVE n + 1 \in Good
  <2> PICK z : \A s \in Small(n) : z[s] = Step(z, s)
    BY <1>3
  <2> DEFINE y == [s \in SUBSET S |-> IF Cardinality(s) <= n THEN z[s] ELSE Step(z, s)]
  <2>1. ASSUME NEW s \in Small(n + 1) PROVE y[s] = Step(y, s)
    <3>1. CASE s = {}
      <4>1. Cardinality(s) = 0
        BY <1>1, <3>1
      <4> QED BY <3>1, <4>1, <1>1
    <3>2. CASE s # {}
      <4> DEFINE r == s \ {Chosen(s)}
      <4>1. r \in SUBSET S /\ Cardinality(s) \in Nat /\ Cardinality(r) = Cardinality(s) - 1
        BY <3>2, SmallerSubset
      <4>2. Cardinality(r) <= n
        BY <4>1, <2>1
      <4> HIDE DEF r
      <4>3. y[r] = z[r]
        BY <4>1, <4>2
      <4>4. y[s] = f[Chosen(s)] + z[r]
        <5>1. CASE Cardinality(s) <= n
          BY <5>1, <3>2, <2>1 DEF r
        <5>2. CASE ~(Cardinality(s) <= n)
          BY <5>2, <3>2, <2>1 DEF r
        <5> QED BY <5>1, <5>2
      <4> HIDE DEF y
      <4>5. Step(y, s) = f[Chosen(s)] + y[r]
        BY <3>2 DEF r
      <4> QED BY <4>3, <4>4, <4>5
    <3> QED BY <3>1, <3>2
  <2> HIDE DEF y, Step, Small
  <2> QED BY <2>1
<1> HIDE DEF Good
<1>4. Nat \subseteq Good
  BY <1>2, <1>3, SetInduction
<1>5. Cardinality(S) \in Nat
  BY FS_CardinalityType
<1>6. PICK z : \A s \in Small(Cardinality(S)) : z[s] = Step(z, s)
  BY <1>4, <1>5 DEF Good
<1>7. \A s \in SUBSET S : s \in Small(Cardinality(S))
  BY FS_Subset
<1> DEFINE y == [s \in SUBSET S |-> z[s]]
<1>8. ASSUME NEW s \in SUBSET S PROVE y[s] = Step(y, s)
  <2>1. z[s] = Step(z, s)
    BY <1>6, <1>7
  <2>2. CASE s = {}
    BY <2>1, <2>2
  <2>3. CASE s # {}
    <3>1. s \ {Chosen(s)} \in SUBSET S
      OBVIOUS
    <3> QED BY <2>1, <2>3, <3>1
  <2> QED BY <2>2, <2>3
<1>9. y = [s \in SUBSET S |-> Step(y, s)]
  <2>1. y = [s \in SUBSET S |-> y[s]]
    OBVIOUS
  <2> HIDE DEF y, Step
  <2> QED BY <1>8, <2>1
<1>10. Sums(y, f, S)
  BY <1>9 DEF Sums
<1> QED
  BY <1>10

LEMMA SumsAgree ==
    ASSUME NEW f, NEW g, NEW S, NEW T, NEW z, NEW y, IsFiniteSet(S),
           Sums(z, f, S), Sums(y, g, T), NEW R \in SUBSET (S \cap T),
           \A x \in R : f[x] = g[x]
    PROVE  z[R] = y[R]
<1> DEFINE Good == {n \in Nat : \A s \in SUBSET R : Cardinality(s) <= n => z[s] = y[s]}
<1>1. IsFiniteSet(R) /\ \A s \in SUBSET R : Cardinality(s) \in Nat /\ (Cardinality(s) = 0 <=> s = {})
  <2>1. IsFiniteSet(R)
    BY FS_Subset
  <2> QED BY <2>1, FS_Subset, FS_CardinalityType, FS_EmptySet
<1>2. \A s \in SUBSET R :
         /\ z[s] = IF s = {} THEN 0 ELSE f[Chosen(s)] + z[s \ {Chosen(s)}]
         /\ y[s] = IF s = {} THEN 0 ELSE g[Chosen(s)] + y[s \ {Chosen(s)}]
  <2> SUFFICES ASSUME NEW s \in SUBSET R
               PROVE  /\ z[s] = IF s = {} THEN 0 ELSE f[Chosen(s)] + z[s \ {Chosen(s)}]
                      /\ y[s] = IF s = {} THEN 0 ELSE g[Chosen(s)] + y[s \ {Chosen(s)}]
    OBVIOUS
  <2>1. s \in SUBSET S /\ s \in SUBSET T
    OBVIOUS
  <2> QED BY <2>1 DEF Sums
<1>3. 0 \in Good
  BY <1>1, <1>2
<1>4. ASSUME NEW n \in Nat, n \in Good PROVE n + 1 \in Good
  <2> SUFFICES ASSUME NEW s \in SUBSET R, Cardinality(s) <= n + 1
               PROVE  z[s] = y[s]
    OBVIOUS
  <2>1. CASE s = {}
    BY <1>2, <2>1
  <2>2. CASE s # {}
    <3> DEFINE r == s \ {Chosen(s)}
    <3>1. /\ Chosen(s) \in s /\ r \in SUBSET R
          /\ Cardinality(s) \in Nat /\ Cardinality(r) = Cardinality(s) - 1
      BY <1>1, <2>2, SmallerSubset
    <3>2. z[r] = y[r]
      BY <1>4, <3>1
    <3> QED BY <1>2, <2>2, <3>1, <3>2
  <2> QED BY <2>1, <2>2
<1> HIDE DEF Good
<1>5. Nat \subseteq Good
  BY <1>3, <1>4, SetInduction
<1>6. Cardinality(R) \in Nat
  BY <1>1
<1> QED
  BY <1>5, <1>6 DEF Good

\* Equal on a finite set, two functions have the same sum over it.
LEMMA SumEqual ==
    ASSUME NEW f, NEW g, NEW S, IsFiniteSet(S), \A x \in S : f[x] = g[x]
    PROVE  SumFunctionOnSet(f, S) = SumFunctionOnSet(g, S)
<1>1. Sums(CHOOSE z : Sums(z, f, S), f, S) /\ Sums(CHOOSE z : Sums(z, g, S), g, S)
  BY SumsExist
<1> QED
  BY <1>1, SumDef, SumsAgree

\* A sum is the value of any element and the sum of the others.
LEMMA SumChosen ==
    ASSUME NEW f, NEW S, IsFiniteSet(S), S # {}
    PROVE  SumFunctionOnSet(f, S) = f[Chosen(S)] + SumFunctionOnSet(f, S \ {Chosen(S)})
<1> DEFINE z == CHOOSE z : Sums(z, f, S)
           R == S \ {Chosen(S)}
           y == CHOOSE y : Sums(y, f, R)
<1>1. IsFiniteSet(R)
  BY FS_Subset
<1>2. Sums(z, f, S) /\ Sums(y, f, R)
  <2>1. \E w : Sums(w, f, S)
    BY SumsExist
  <2>2. \E w : Sums(w, f, R)
    BY <1>1, SumsExist
  <2> QED BY <2>1, <2>2
<1>3. SumFunctionOnSet(f, S) = z[S] /\ SumFunctionOnSet(f, R) = y[R]
  BY SumDef
<1> HIDE DEF z, y
<1>4. z[S] = f[Chosen(S)] + z[R]
  BY <1>2 DEF Sums
<1>5. z[R] = y[R]
  BY <1>1, <1>2, SumsAgree
<1> QED
  BY <1>3, <1>4, <1>5

LEMMA SumEmpty == \A f : SumFunctionOnSet(f, {}) = 0
<1> SUFFICES ASSUME NEW f PROVE SumFunctionOnSet(f, {}) = 0
  OBVIOUS
<1>1. \E z : Sums(z, f, {})
  BY FS_EmptySet, SumsExist
<1>2. Sums(CHOOSE z : Sums(z, f, {}), f, {})
  BY <1>1
<1> QED
  BY <1>2, SumDef DEF Sums

LEMMA SumInt ==
    ASSUME NEW f, NEW S, IsFiniteSet(S), \A x \in S : f[x] \in Int
    PROVE  SumFunctionOnSet(f, S) \in Int
<1> DEFINE Good == {n \in Nat : \A s \in SUBSET S :
                        Cardinality(s) <= n => SumFunctionOnSet(f, s) \in Int}
<1>1. \A s \in SUBSET S : IsFiniteSet(s) /\ Cardinality(s) \in Nat
                          /\ (Cardinality(s) = 0 <=> s = {})
  BY FS_Subset, FS_CardinalityType, FS_EmptySet
<1>2. 0 \in Good
  BY <1>1, SumEmpty
<1>3. ASSUME NEW n \in Nat, n \in Good PROVE n + 1 \in Good
  <2> SUFFICES ASSUME NEW s \in SUBSET S, Cardinality(s) <= n + 1
               PROVE  SumFunctionOnSet(f, s) \in Int
    OBVIOUS
  <2>1. CASE s = {}
    BY <2>1, SumEmpty
  <2>2. CASE s # {}
    <3> DEFINE r == s \ {Chosen(s)}
    <3>1. /\ Chosen(s) \in s /\ r \in SUBSET S
          /\ Cardinality(s) \in Nat /\ Cardinality(r) = Cardinality(s) - 1
      BY <2>2, SmallerSubset
    <3>2. SumFunctionOnSet(f, r) \in Int
      BY <1>3, <3>1
    <3>3. SumFunctionOnSet(f, s) = f[Chosen(s)] + SumFunctionOnSet(f, r)
      BY <1>1, <2>2, SumChosen
    <3> QED BY <3>1, <3>2, <3>3
  <2> QED BY <2>1, <2>2
<1> HIDE DEF Good
<1>4. Nat \subseteq Good
  BY <1>2, <1>3, SetInduction
<1> QED
  BY <1>1, <1>4 DEF Good

LEMMA SumRemove ==
    ASSUME NEW f, NEW S, IsFiniteSet(S), \A x \in S : f[x] \in Int, NEW a \in S
    PROVE  SumFunctionOnSet(f, S) = f[a] + SumFunctionOnSet(f, S \ {a})
<1> DEFINE Good == {n \in Nat : \A s \in SUBSET S : \A x \in s : Cardinality(s) <= n =>
                        SumFunctionOnSet(f, s) = f[x] + SumFunctionOnSet(f, s \ {x})}
<1>1. \A s \in SUBSET S : IsFiniteSet(s) /\ Cardinality(s) \in Nat
                          /\ (Cardinality(s) = 0 <=> s = {})
  BY FS_Subset, FS_CardinalityType, FS_EmptySet
<1>2. 0 \in Good
  BY <1>1
<1>3. ASSUME NEW n \in Nat, n \in Good PROVE n + 1 \in Good
  <2> SUFFICES ASSUME NEW s \in SUBSET S, NEW x \in s, Cardinality(s) <= n + 1
               PROVE  SumFunctionOnSet(f, s) = f[x] + SumFunctionOnSet(f, s \ {x})
    OBVIOUS
  <2> DEFINE c == Chosen(s)
             r == s \ {c}
             t == s \ {x}
             u == (s \ {c}) \ {x}
  <2>1. /\ c \in s /\ r \in SUBSET S /\ u \in SUBSET S /\ t \in SUBSET S
        /\ Cardinality(s) \in Nat /\ Cardinality(r) = Cardinality(s) - 1
    BY SmallerSubset
  <2>2. SumFunctionOnSet(f, s) = f[c] + SumFunctionOnSet(f, r)
    BY <1>1, SumChosen
  <2>3. CASE x = c
    BY <2>2, <2>3
  <2>4. CASE x # c
    <3>1. x \in r /\ c \in t /\ t \ {c} = u /\ r \ {x} = u
      BY <2>1, <2>4
    <3>2. Cardinality(t) <= n
      <4>1. Cardinality(t) = Cardinality(s) - 1
        BY <1>1, FS_RemoveElement
      <4> QED BY <2>1, <4>1
    <3>3. SumFunctionOnSet(f, r) = f[x] + SumFunctionOnSet(f, u)
      <4>1. Cardinality(r) <= n
        BY <2>1
      <4> HIDE DEF r, u, t, c
      <4> QED BY <1>3, <2>1, <3>1, <4>1
    <3>4. SumFunctionOnSet(f, t) = f[c] + SumFunctionOnSet(f, u)
      <4> HIDE DEF r, u, t, c
      <4> QED BY <1>3, <2>1, <3>1, <3>2
    <3>5. SumFunctionOnSet(f, u) \in Int /\ f[x] \in Int /\ f[c] \in Int
      <4>1. IsFiniteSet(u) /\ \A y \in u : f[y] \in Int
        BY <1>1, <2>1
      <4> QED BY <2>1, <4>1, SumInt
    <3> HIDE DEF r, u, t, c
    <3>6. SumFunctionOnSet(f, s) = f[x] + SumFunctionOnSet(f, t)
      BY <2>2, <3>3, <3>4, <3>5
    <3> QED BY <3>6 DEF t
  <2> QED BY <2>3, <2>4
<1> HIDE DEF Good
<1>4. Nat \subseteq Good
  BY <1>2, <1>3, SetInduction
<1>5. Cardinality(S) \in Good /\ Cardinality(S) <= Cardinality(S)
  BY <1>1, <1>4
<1> QED
  BY <1>5 DEF Good

\* Two functions that differ at one place: so do their sums.
LEMMA SumDiffer ==
    ASSUME NEW f, NEW g, NEW S, IsFiniteSet(S), NEW a \in S,
           \A x \in S : f[x] \in Int /\ g[x] \in Int,
           \A x \in S : x # a => f[x] = g[x]
    PROVE  SumFunctionOnSet(g, S) = SumFunctionOnSet(f, S) + (g[a] - f[a])
<1>1. SumFunctionOnSet(f, S) = f[a] + SumFunctionOnSet(f, S \ {a})
  BY SumRemove
<1>2. SumFunctionOnSet(g, S) = g[a] + SumFunctionOnSet(g, S \ {a})
  BY SumRemove
<1>3. IsFiniteSet(S \ {a}) /\ \A x \in S \ {a} : f[x] \in Int /\ f[x] = g[x]
  BY FS_Subset
<1>4. SumFunctionOnSet(f, S \ {a}) = SumFunctionOnSet(g, S \ {a})
  BY <1>3, SumEqual
<1>5. SumFunctionOnSet(f, S \ {a}) \in Int
  BY <1>3, SumInt
<1> QED
  BY <1>1, <1>2, <1>4, <1>5

\* What is zero adds nothing.
LEMMA SumZeros ==
    ASSUME NEW f, NEW S, IsFiniteSet(S), NEW T \in SUBSET S,
           \A x \in S : f[x] \in Int, \A x \in S \ T : f[x] = 0
    PROVE  SumFunctionOnSet(f, S) = SumFunctionOnSet(f, T)
<1> DEFINE Good == {n \in Nat : \A s \in SUBSET (S \ T) :
                        Cardinality(s) <= n =>
                            SumFunctionOnSet(f, T \cup s) = SumFunctionOnSet(f, T)}
<1>1. \A s \in SUBSET S : IsFiniteSet(s) /\ Cardinality(s) \in Nat
                          /\ (Cardinality(s) = 0 <=> s = {})
  BY FS_Subset, FS_CardinalityType, FS_EmptySet
<1>2. 0 \in Good
  <2> SUFFICES ASSUME NEW s \in SUBSET (S \ T), Cardinality(s) <= 0
               PROVE  SumFunctionOnSet(f, T \cup s) = SumFunctionOnSet(f, T)
    OBVIOUS
  <2>1. s = {} /\ T \cup s = T
    <3>1. s \in SUBSET S
      OBVIOUS
    <3>2. s = {}
      BY <1>1, <3>1
    <3> QED BY <3>2
  <2> QED BY <2>1
<1>3. ASSUME NEW n \in Nat, n \in Good PROVE n + 1 \in Good
  <2> SUFFICES ASSUME NEW s \in SUBSET (S \ T), Cardinality(s) <= n + 1
               PROVE  SumFunctionOnSet(f, T \cup s) = SumFunctionOnSet(f, T)
    OBVIOUS
  <2>1. CASE s = {}
    <3>1. T \cup s = T
      BY <2>1
    <3> QED BY <3>1, Zenon
  <2>2. CASE s # {}
    <3> DEFINE x == Chosen(s)
               r == s \ {x}
    <3>1. /\ x \in s /\ r \in SUBSET (S \ T)
          /\ Cardinality(s) \in Nat /\ Cardinality(r) = Cardinality(s) - 1
      <4>1. s \in SUBSET S
        OBVIOUS
      <4>2. x \in s /\ Cardinality(s) \in Nat /\ Cardinality(r) = Cardinality(s) - 1
        BY <2>2, <4>1, SmallerSubset
      <4> QED BY <4>2
    <3>2. SumFunctionOnSet(f, T \cup r) = SumFunctionOnSet(f, T)
      BY <1>3, <3>1
    <3>3. /\ x \in T \cup s /\ (T \cup s) \ {x} = T \cup r
          /\ f[x] = 0 /\ IsFiniteSet(T \cup s) /\ IsFiniteSet(T)
          /\ \A y \in T \cup s : f[y] \in Int
      BY <1>1, <3>1
    <3>4. SumFunctionOnSet(f, T \cup s) = f[x] + SumFunctionOnSet(f, (T \cup s) \ {x})
      <4> HIDE DEF x, r
      <4> QED BY <3>3, SumRemove
    <3>5. SumFunctionOnSet(f, T) \in Int
      BY <3>3, SumInt
    <3> HIDE DEF x, r
    <3>6. SumFunctionOnSet(f, T \cup s) = f[x] + SumFunctionOnSet(f, T)
      BY <3>2, <3>3, <3>4, Zenon
    <3>7. f[x] = 0
      BY <3>3
    <3> DEFINE whole == SumFunctionOnSet(f, T \cup s)
               part == SumFunctionOnSet(f, T)
    <3>8. whole = f[x] + part /\ part \in Int
      BY <3>5, <3>6
    <3> HIDE DEF whole, part
    <3>9. whole = part
      BY <3>7, <3>8
    <3> QED BY <3>9 DEF whole, part
  <2>3. s = {} \/ s # {}
    OBVIOUS
  <2> QED BY <2>1, <2>2, <2>3, Zenon
<1> HIDE DEF Good
<1>4. Nat \subseteq Good
  BY <1>2, <1>3, SetInduction
<1>5. S \ T \in SUBSET S /\ T \cup (S \ T) = S
  OBVIOUS
<1>6. Cardinality(S \ T) \in Good /\ Cardinality(S \ T) <= Cardinality(S \ T)
  BY <1>1, <1>4, <1>5
<1>7. SumFunctionOnSet(f, T \cup (S \ T)) = SumFunctionOnSet(f, T)
  BY <1>6 DEF Good
<1> QED
  BY <1>5, <1>7

-----------------------------------------------------------------------------
(* The ledger: no instruction creates or destroys a lamport                *)

Total(ledger) == SumFunctionOnSet(ledger, Accounts)

LEMMA AccountsFinite == IsFiniteSet(Accounts)
<1>1. IsFiniteSet(HashBytes)
  BY SpentFinite
<1>2. IsFiniteSet({VaultPda, PoolPda})
  <2>1. IsFiniteSet({VaultPda})
    BY FS_Singleton
  <2>2. {VaultPda, PoolPda} = {VaultPda} \cup {PoolPda}
    OBVIOUS
  <2> QED BY <2>1, <2>2, FS_AddElement
<1>3. IsFiniteSet(Wallets)
  BY AccountsAssumption
<1>4. IsFiniteSet(Wallets \cup {VaultPda, PoolPda})
  BY <1>2, <1>3, FS_Union
<1> QED
  BY <1>1, <1>4, FS_Union DEF Accounts

\* A credit, or a debit, changes the total by its amount.
LEMMA TotalOfChange ==
    ASSUME NEW ledger \in [Accounts -> Int], NEW a \in Accounts, NEW amount \in Int
    PROVE  /\ [ledger EXCEPT ![a] = @ + amount] \in [Accounts -> Int]
           /\ Total([ledger EXCEPT ![a] = @ + amount]) = Total(ledger) + amount
           /\ Total(ledger) \in Int
<1> DEFINE post == [ledger EXCEPT ![a] = @ + amount]
<1>1. /\ post \in [Accounts -> Int]
      /\ post[a] = ledger[a] + amount
      /\ ledger[a] \in Int
      /\ \A x \in Accounts : x # a => ledger[x] = post[x]
      /\ \A x \in Accounts : ledger[x] \in Int /\ post[x] \in Int
  OBVIOUS
<1> HIDE DEF post
<1>2. SumFunctionOnSet(post, Accounts) =
          SumFunctionOnSet(ledger, Accounts) + (post[a] - ledger[a])
  BY <1>1, AccountsFinite, SumDiffer
<1>3. SumFunctionOnSet(ledger, Accounts) \in Int
  BY <1>1, AccountsFinite, SumInt
<1>4. Total(post) = Total(ledger) + amount /\ Total(ledger) \in Int
  BY <1>1, <1>2, <1>3 DEF Total
<1> QED
  BY <1>1, <1>4 DEF post

LEMMA TotalOfMove ==
    ASSUME NEW ledger \in [Accounts -> Nat], NEW from \in Accounts,
           NEW to \in Accounts, NEW amount \in Nat, from # to
    PROVE  Total(Move(ledger, from, to, amount)) = Total(ledger)
<1> DEFINE mid == [ledger EXCEPT ![from] = @ + (-amount)]
<1>1. ledger \in [Accounts -> Int] /\ -amount \in Int /\ amount \in Int
  OBVIOUS
<1>2. /\ mid \in [Accounts -> Int]
      /\ Total(mid) = Total(ledger) + (-amount)
      /\ Total(ledger) \in Int
  BY <1>1, TotalOfChange
<1>3. Move(ledger, from, to, amount) = [mid EXCEPT ![to] = @ + amount]
  <2> DEFINE moved == Move(ledger, from, to, amount)
             post == [mid EXCEPT ![to] = @ + amount]
  <2>1. /\ moved = [x \in Accounts |-> moved[x]]
        /\ post = [x \in Accounts |-> post[x]]
    BY <1>1 DEF Move
  <2>2. ASSUME NEW x \in Accounts PROVE moved[x] = post[x]
    <3>1. /\ ledger[x] \in Int
          /\ ledger[x] - amount = ledger[x] + (-amount)
      BY <1>1
    <3>2. mid[x] = IF x = from THEN ledger[x] - amount ELSE ledger[x]
      BY <3>1
    <3>3. post[x] = IF x = to THEN mid[x] + amount ELSE mid[x]
      <4>1. mid = [y \in Accounts |-> mid[y]]
        BY <1>1
      <4> HIDE DEF mid
      <4> QED BY <4>1
    <3>4. moved[x] = IF x = to THEN ledger[x] + amount
                     ELSE IF x = from THEN ledger[x] - amount ELSE ledger[x]
      BY DEF Move
    <3> HIDE DEF moved, post, mid
    <3> QED BY <3>2, <3>3, <3>4
  <2> HIDE DEF moved, post
  <2>3. moved = post
    BY <2>1, <2>2
  <2> QED BY <2>3 DEF moved, post
<1> HIDE DEF mid
<1>4. Total([mid EXCEPT ![to] = @ + amount]) = Total(mid) + amount
  BY <1>1, <1>2, TotalOfChange
<1> QED
  BY <1>2, <1>3, <1>4

LEMMA TotalOfCredit ==
    ASSUME NEW ledger \in [Accounts -> Int], NEW a \in Accounts, NEW amount \in Nat
    PROVE  /\ Credit(ledger, a, amount) \in [Accounts -> Int]
           /\ Total(Credit(ledger, a, amount)) = Total(ledger) + amount
<1>1. amount \in Int
  OBVIOUS
<1>2. /\ [ledger EXCEPT ![a] = @ + amount] \in [Accounts -> Int]
      /\ Total([ledger EXCEPT ![a] = @ + amount]) = Total(ledger) + amount
  BY <1>1, TotalOfChange
<1> QED
  BY <1>2, Zenon DEF Credit

\* The withdrawal splits the denomination it takes from the vault: protocol
\* fee, relayer fee and what is left for the recipient (process_withdraw).
LEMMA TotalOfWithdrawal ==
    ASSUME TypeOK,
           NEW p, NEW hash \in HashBytes, NEW relayer \in Wallets,
           NEW feeMax \in Nat, NEW taken \in Nat, NEW recipient \in Accounts,
           WithdrawAccepted(p, hash, relayer, feeMax, taken, recipient)
    PROVE  Total(WithdrawLedger(hash, relayer, recipient, taken)) = Total(lamports)
<1> DEFINE short == Shortfall(hash, NullifierSpace)
           funded == NullifierFunded(hash, relayer)
           debited == [funded EXCEPT ![VaultPda] = @ - Denomination]
           fee == FeePaid(funded, relayer, recipient)
           amount == AmountPaid(funded, relayer, recipient, taken)
           c1 == Credit(debited, treasury, fee)
           c2 == Credit(c1, relayer, taken)
           c3 == Credit(c2, recipient, amount)
<1>1. /\ hash \in Accounts /\ relayer \in Accounts /\ treasury \in Accounts
      /\ VaultPda \in Accounts /\ lamports \in [Accounts -> Nat]
      /\ short \in Nat /\ lamports[relayer] >= short /\ relayer # hash
  <2>1. hash \in Accounts /\ relayer \in Accounts /\ VaultPda \in Accounts
        /\ treasury \in Accounts /\ lamports \in [Accounts -> Nat]
    BY DEF TypeOK, Accounts, SystemAccounts
  <2>4. relayer # hash
    BY AccountsAssumption
  <2>2. NullifierSpace \in Nat
    BY DEF NullifierSpace
  <2>3. short \in Nat
    BY <2>1, <2>2, ShortfallType
  <2> QED BY <2>1, <2>3, <2>4 DEF WithdrawAccepted
<1>2. funded \in [Accounts -> Nat] /\ Total(funded) = Total(lamports)
  <2>1. funded = Move(lamports, relayer, hash, short)
    BY DEF NullifierFunded
  <2> HIDE DEF funded, short
  <2> QED BY <1>1, <2>1, MoveLemma, TotalOfMove
<1>3. fee \in Nat /\ amount \in Nat /\ fee + taken + amount = Denomination
  <2>1. FeeSplitAccepted(Denomination, taken, feeMax)
    BY DEF WithdrawAccepted
  <2>2. fee \in Nat /\ amount \in Nat
    BY <2>1, AmountPaidType
  <2>3. amount = Denomination - taken - fee
    BY DEF AmountPaid
  <2> HIDE DEF fee, amount
  <2> QED BY <2>2, <2>3, SizesAssumption
<1>4. /\ debited \in [Accounts -> Int]
      /\ Total(debited) = Total(funded) + (-Denomination)
      /\ Total(funded) \in Int
  <2> DEFINE d == [funded EXCEPT ![VaultPda] = @ + (-Denomination)]
  <2> HIDE DEF funded
  <2>1. funded \in [Accounts -> Int] /\ -Denomination \in Int
    BY <1>2, SizesAssumption
  <2>2. d \in [Accounts -> Int] /\ Total(d) = Total(funded) + (-Denomination)
        /\ Total(funded) \in Int
    BY <1>1, <2>1, TotalOfChange
  <2>3. debited = d
    BY <2>1, SizesAssumption
  <2> QED BY <2>2, <2>3
<1> HIDE DEF debited, fee, amount, funded
<1>5. c1 \in [Accounts -> Int] /\ Total(c1) = Total(debited) + fee
  BY <1>1, <1>3, <1>4, TotalOfCredit
<1> HIDE DEF c1
<1>6. c2 \in [Accounts -> Int] /\ Total(c2) = Total(c1) + taken
  BY <1>1, <1>5, TotalOfCredit
<1> HIDE DEF c2
<1>7. Total(c3) = Total(c2) + amount
  BY <1>3, <1>6, TotalOfCredit
<1>8. WithdrawLedger(hash, relayer, recipient, taken) = c3
  BY DEF WithdrawLedger, PaidOut, c1, c2, debited, fee, amount, funded
<1> HIDE DEF c3
<1> QED
  BY <1>2, <1>3, <1>4, <1>5, <1>6, <1>7, <1>8, SizesAssumption

\* initialize_pool tops both accounts up from the admin's balance.
LEMMA TotalOfInitialize ==
    ASSUME TypeOK, NEW tre, InitializePool(tre)
    PROVE  Total(lamports') = Total(lamports)
<1> DEFINE forPool  == Shortfall(PoolPda, PoolSpace)
           forVault == Shortfall(VaultPda, VaultSpace)
           l1 == Move(lamports, Admin, PoolPda, forPool)
           l2 == Move(l1, Admin, VaultPda, forVault)
<1>1. /\ Admin \in Accounts /\ PoolPda \in Accounts /\ VaultPda \in Accounts
      /\ Admin # PoolPda /\ Admin # VaultPda
  BY AccountsAssumption DEF Accounts
<1>2. forPool \in Nat /\ forVault \in Nat /\ lamports \in [Accounts -> Nat]
  <2>1. PoolSpace \in Nat /\ VaultSpace \in Nat
    BY DEF PoolSpace, VaultSpace
  <2>2. forPool \in Nat /\ forVault \in Nat
    BY <1>1, <2>1, ShortfallType
  <2> QED BY <2>2 DEF TypeOK
<1>3. lamports[Admin] >= forPool + forVault /\ lamports' = l2
  BY DEF InitializePool
<1> HIDE DEF forPool, forVault
<1>4. l1 \in [Accounts -> Nat] /\ Total(l1) = Total(lamports)
  <2>1. lamports[Admin] \in Nat /\ lamports[Admin] >= forPool
    BY <1>1, <1>2, <1>3
  <2> QED BY <1>1, <1>2, <2>1, MoveLemma, TotalOfMove
<1> HIDE DEF l1
<1>5. Total(l2) = Total(l1)
  BY <1>1, <1>2, <1>4, TotalOfMove
<1> HIDE DEF l2
<1> QED
  BY <1>3, <1>4, <1>5

LEMMA NextTotal == TypeOK /\ [Next]_vars => Total(lamports') = Total(lamports)
<1> SUFFICES ASSUME TypeOK, [Next]_vars PROVE Total(lamports') = Total(lamports)
  OBVIOUS
<1>1. CASE SomeInitialize
  BY <1>1, TotalOfInitialize DEF SomeInitialize
<1>2. CASE SomeDeposit
  <2> PICK d \in Wallets, c \in Commitments : Deposit(d, c)
    BY <1>2 DEF SomeDeposit
  <2>1. /\ lamports' = Move(lamports, d, VaultPda, Denomination)
        /\ lamports \in [Accounts -> Nat] /\ d \in Accounts /\ VaultPda \in Accounts
        /\ d # VaultPda
    BY AccountsAssumption DEF Deposit, TypeOK, Accounts
  <2> QED BY <2>1, SizesAssumption, TotalOfMove
<1>3. CASE SomeWithdraw
  BY <1>3, TotalOfWithdrawal, ChoicesAssumption, SizesAssumption
     DEF SomeWithdraw, Withdraw
<1>4. CASE SomeTransfer
  <2> PICK from \in Senders, to \in TransferTargets :
               \E amount \in TransferAmounts \cup {lamports[from]} :
                   Transfer(from, to, amount)
    BY <1>4 DEF SomeTransfer
  <2> PICK amount \in TransferAmounts \cup {lamports[from]} : Transfer(from, to, amount)
    OBVIOUS
  <2>1. /\ lamports' = Move(lamports, from, to, amount)
        /\ lamports \in [Accounts -> Nat] /\ from \in Accounts /\ to \in Accounts
        /\ amount \in Nat /\ from # to
    BY ChoicesAssumption DEF Transfer, TypeOK, Accounts
  <2> QED BY <2>1, TotalOfMove
<1>5. CASE UNCHANGED lamports
  BY <1>5
<1>6. SomePause \/ SomeProve \/ SomeRentChange \/ UNCHANGED vars => UNCHANGED lamports
  BY DEF SomePause, SomeProve, SomeRentChange, PausePool, UnpausePool, Prove,
         SetRentRate, vars
<1> QED
  BY <1>1, <1>2, <1>3, <1>4, <1>5, <1>6 DEF Next

\* At the start the wallets have everything.
LEMMA InitTotal == Init => Total(lamports) = SumFunction(InitialBalance)
<1> SUFFICES ASSUME Init PROVE Total(lamports) = SumFunction(InitialBalance)
  OBVIOUS
<1>1. /\ \A x \in Accounts : lamports[x] \in Int
      /\ \A x \in Accounts \ Wallets : lamports[x] = 0
      /\ \A x \in Wallets : lamports[x] = InitialBalance[x]
      /\ Wallets \in SUBSET Accounts
  BY SizesAssumption DEF Init, Accounts
<1>2. Total(lamports) = SumFunctionOnSet(lamports, Wallets)
  BY <1>1, AccountsFinite, SumZeros DEF Total
<1>3. SumFunctionOnSet(lamports, Wallets) = SumFunctionOnSet(InitialBalance, Wallets)
  BY <1>1, AccountsAssumption, SumEqual
<1>4. DOMAIN InitialBalance = Wallets
  BY SizesAssumption
<1> QED
  BY <1>2, <1>3, <1>4 DEF SumFunction

\* Lamports are neither created nor destroyed: whatever the sequence of
\* instructions, with accounts that coincide and the protocol fee paid to the
\* treasury or not, all accounts together hold what the wallets began with.
THEOREM LamportsAreConserved == Spec => []LedgerConserved
<1> DEFINE Inv == TypeOK /\ Total(lamports) = SumFunction(InitialBalance)
<1>1. Init => Inv
  BY InitType, InitTotal
<1>2. Inv /\ [Next]_vars => Inv'
  <2>1. Inv /\ [Next]_vars => TypeOK' /\ Total(lamports') = Total(lamports)
    BY NextType, NextTotal
  <2>2. Total(lamports)' = Total(lamports') /\ SumFunction(InitialBalance)' = SumFunction(InitialBalance)
    BY DEF Total
  <2> QED BY <2>1, <2>2
<1>3. Inv => LedgerConserved
  BY DEF TypeOK, LedgerConserved, Total, SumFunction
<1> QED
  BY <1>1, <1>2, <1>3, PTL DEF Spec

=============================================================================
