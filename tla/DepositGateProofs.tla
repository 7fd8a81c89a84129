------------------------- MODULE DepositGateProofs -------------------------
(***************************************************************************)
(* Theorems about DepositGate, for every set of wallets and pools, every   *)
(* denomination and every balance.                                         *)
(***************************************************************************)
EXTENDS DepositGate, TLAPS

-----------------------------------------------------------------------------
(* The inductive invariant.                                                *)

PageStates ==
    [mount : Mounts, step : {"select", "confirm", "processing", "note"},
     wallet : Wallets \cup {Nothing}, pool : Pools \cup {Nothing},
     info : {Nothing} \cup [of : Pools, open : BOOLEAN], reads : SUBSET Pools,
     loading : BOOLEAN, error : BOOLEAN, block : BOOLEAN, checking : BOOLEAN,
     gate : {"checking", "allowed", "blocked"}]

RunStates ==
    [at : {"idle", "cluster", "wallet", "build", "staged"},
     wallet : Wallets \cup {Nothing}, pool : Pools \cup {Nothing}, could : BOOLEAN]

TypeOK == page \in PageStates /\ run \in [Mounts -> RunStates]

\* The page says allowed of the cluster allowed only.
GateIsTrue == page.gate = "allowed" => cluster

\* What is being read is about the pool selected, and so is what was read once
\* no read is under way and none has failed.
ReadsAreOfThePool ==
    page.pool # Nothing =>
        /\ page.reads \subseteq {page.pool}
        /\ ~page.loading /\ ~page.error /\ page.info # Nothing
             => page.info.of = page.pool

\* A handler that is past a check has passed it.
ChecksArePassed ==
    \A m \in Mounts :
        /\ run[m].at \in {"wallet", "build", "staged"} => cluster
        /\ run[m].at \in {"build", "staged"} => run[m].could

IInv == TypeOK /\ GateIsTrue /\ ReadsAreOfThePool /\ ChecksArePassed

-----------------------------------------------------------------------------
(* The screens.                                                            *)

LEMMA ScreensKeep ==
    ASSUME IInv, UNCHANGED <<cluster, run>>, page' \in PageStates,
           page'.gate = "allowed" => cluster,
           page'.pool # Nothing =>
              /\ page'.reads \subseteq {page'.pool}
              /\ ~page'.loading /\ ~page'.error /\ page'.info # Nothing
                   => page'.info.of = page'.pool
    PROVE  IInv'
<1>1. TypeOK' /\ GateIsTrue' /\ ReadsAreOfThePool'
  BY DEF IInv, TypeOK, GateIsTrue, ReadsAreOfThePool
<1>2. ChecksArePassed'
  BY DEF IInv, ChecksArePassed
<1>3. QED
  BY <1>1, <1>2 DEF IInv

\* The verdict of a balance touches two fields only.
Same(p) ==
    /\ page' \in PageStates
    /\ page'.gate = p.gate /\ page'.pool = p.pool /\ page'.reads = p.reads
    /\ page'.loading = p.loading /\ page'.error = p.error /\ page'.info = p.info
    /\ page'.mount = p.mount

LEMMA WalletCheckKeeps ==
    ASSUME NEW p \in PageStates, RunWalletCheck(p)
    PROVE  Same(p)
<1>1. \/ page' = [p EXCEPT !.checking = TRUE]
      \/ page' = [p EXCEPT !.block = FALSE]
  BY DEF RunWalletCheck, Set
<1>2. CASE page' = [p EXCEPT !.checking = TRUE]
  BY <1>2 DEF PageStates, Same
<1>3. CASE page' = [p EXCEPT !.block = FALSE]
  BY <1>3 DEF PageStates, Same
<1>4. QED
  BY <1>1, <1>2, <1>3

LEMMA GateShownStep ==
    ASSUME IInv, GateShown
    PROVE  IInv'
<1>1. PICK allowed \in BOOLEAN :
        Verify(allowed) /\ RunWalletCheck([page EXCEPT !.gate = Verdict(allowed)])
  BY DEF GateShown
<1>2. page \in PageStates
  BY DEF IInv, TypeOK
<1> DEFINE p == [page EXCEPT !.gate = Verdict(allowed)]
<1>3. /\ p \in PageStates /\ p.gate = Verdict(allowed) /\ p.pool = page.pool
      /\ p.reads = page.reads /\ p.loading = page.loading
      /\ p.error = page.error /\ p.info = page.info
  BY <1>2 DEF PageStates, Verdict
<1> HIDE DEF p
<1>4. Same(p)
  BY <1>1, <1>3, WalletCheckKeeps DEF p
<1>5. p.gate = "allowed" => cluster
  BY <1>1, <1>3 DEF Verify, Verdict
<1>6. QED
  BY <1>3, <1>4, <1>5, ScreensKeep
  DEF GateShown, World, Same, IInv, ReadsAreOfThePool

LEMMA WalletSteps ==
    ASSUME IInv,
           \/ Retry \/ (\E i \in Slots : CheckArrives(i))
           \/ \E w \in Wallets \cup {Nothing} : Connect(w)
    PROVE  IInv'
<1>1. page \in PageStates /\ UNCHANGED <<cluster, run>>
  BY DEF Retry, CheckArrives, Connect, World, IInv, TypeOK
<1>2. ASSUME Same(page)
      PROVE  IInv'
  BY <1>1, <1>2, ScreensKeep DEF Same, IInv, GateIsTrue, ReadsAreOfThePool
<1>3. CASE Retry
  BY <1>1, <1>2, <1>3, WalletCheckKeeps DEF Retry
<1>4. ASSUME NEW i \in Slots, CheckArrives(i)
      PROVE  IInv'
  <2>1. PICK ok \in BOOLEAN : page' = [page EXCEPT !.block = ~ok, !.checking = FALSE]
    BY <1>4 DEF CheckArrives, Set
  <2>2. Same(page)
    BY <1>1, <2>1 DEF Same, PageStates
  <2>3. QED
    BY <1>2, <2>2
<1>5. ASSUME NEW w \in Wallets \cup {Nothing}, Connect(w)
      PROVE  IInv'
  <2> DEFINE p == [page EXCEPT !.wallet = w]
  <2>1. /\ p \in PageStates /\ p.gate = page.gate /\ p.pool = page.pool
        /\ p.reads = page.reads /\ p.loading = page.loading
        /\ p.error = page.error /\ p.info = page.info /\ p.mount = page.mount
    BY <1>1 DEF PageStates
  <2>2. RunWalletCheck(p)
    BY <1>5 DEF Connect
  <2> HIDE DEF p
  <2>3. Same(page)
    BY <2>1, <2>2, WalletCheckKeeps DEF Same
  <2>4. QED
    BY <1>2, <2>3
<1>6. QED
  BY <1>3, <1>4, <1>5

LEMMA SelectPoolStep ==
    ASSUME IInv, NEW pool \in Pools, SelectPool(pool)
    PROVE  IInv'
<1> DEFINE p == [ReadPool(page, pool) EXCEPT !.pool = pool]
<1>1. page \in PageStates
  BY DEF IInv, TypeOK
<1>2. /\ p \in PageStates /\ p.gate = page.gate /\ p.pool = pool
      /\ p.reads = {pool} /\ p.loading = TRUE
  BY <1>1 DEF ReadPool, PageStates
<1>3. RunWalletCheck(p)
  BY DEF SelectPool
<1> HIDE DEF p
<1>4. Same(p)
  BY <1>2, <1>3, WalletCheckKeeps
<1>5. QED
  BY <1>2, <1>4, ScreensKeep DEF SelectPool, World, Same, IInv, GateIsTrue

LEMMA PoolReadStep ==
    ASSUME IInv, NEW pool \in Pools, PoolRead(pool)
    PROVE  IInv'
<1> DEFINE settled == [page EXCEPT !.reads = @ \ {pool}, !.loading = FALSE]
<1>1. page \in PageStates /\ pool \in page.reads
  BY DEF PoolRead, IInv, TypeOK
<1>2. /\ settled \in PageStates /\ settled.gate = page.gate
      /\ settled.pool = page.pool /\ settled.reads = page.reads \ {pool}
  BY <1>1 DEF PageStates
<1>3. \/ \E open \in BOOLEAN :
           page' = [settled EXCEPT !.info = [of |-> pool, open |-> open]]
      \/ page' = [settled EXCEPT !.info = Nothing, !.error = TRUE]
      \/ page' = [settled EXCEPT !.error = TRUE]
  BY DEF PoolRead, Set
<1> HIDE DEF settled
<1>4. UNCHANGED <<cluster, run>>
  BY DEF PoolRead, World
<1>5. ASSUME NEW open \in BOOLEAN,
             page' = [settled EXCEPT !.info = [of |-> pool, open |-> open]]
      PROVE  IInv'
  <2>1. /\ page' \in PageStates /\ page'.gate = page.gate
        /\ page'.pool = page.pool /\ page'.reads = page.reads \ {pool}
        /\ page'.info.of = pool
    BY <1>2, <1>5 DEF PageStates
  <2>2. page.pool # Nothing => pool = page.pool
    BY <1>1 DEF IInv, ReadsAreOfThePool
  <2>3. QED
    BY <1>4, <2>1, <2>2, ScreensKeep DEF IInv, GateIsTrue, ReadsAreOfThePool
<1>6. ASSUME \/ page' = [settled EXCEPT !.info = Nothing, !.error = TRUE]
             \/ page' = [settled EXCEPT !.error = TRUE]
      PROVE  IInv'
  <2>1. /\ page' \in PageStates /\ page'.gate = page.gate
        /\ page'.pool = page.pool /\ page'.reads = page.reads \ {pool}
        /\ page'.error
    BY <1>2, <1>6 DEF PageStates
  <2>2. QED
    BY <1>4, <2>1, ScreensKeep DEF IInv, GateIsTrue, ReadsAreOfThePool
<1>7. QED
  BY <1>3, <1>5, <1>6

\* A step from one screen to the next touches nothing that was read.
LEMMA ScreenSteps ==
    ASSUME IInv, Continue \/ Back \/ AnotherDeposit \/ Leave \/ BannerShown
    PROVE  IInv'
<1>1. page \in PageStates /\ UNCHANGED <<cluster, run>>
  BY DEF Continue, Back, AnotherDeposit, Leave, BannerShown, World, IInv, TypeOK
<1>2. CASE Continue \/ Back
  <2>1. PICK step \in {"select", "confirm"} : page' = [page EXCEPT !.step = step]
    BY <1>2 DEF Continue, Back, Set
  <2>2. Same(page)
    BY <1>1, <2>1 DEF Same, PageStates
  <2>3. QED
    BY <1>1, <2>2, ScreensKeep DEF Same, IInv, GateIsTrue, ReadsAreOfThePool
<1>3. CASE AnotherDeposit
  <2>1. page' = [page EXCEPT !.step = "select", !.pool = Nothing, !.info = Nothing,
                             !.error = FALSE, !.block = FALSE]
    BY <1>3 DEF AnotherDeposit, Set
  <2>2. page' \in PageStates /\ page'.gate = page.gate /\ page'.pool = Nothing
    BY <1>1, <2>1 DEF PageStates
  <2>3. QED
    BY <1>1, <2>2, ScreensKeep DEF IInv, GateIsTrue
<1>4. CASE Leave
  <2>1. page.mount + 1 \in Mounts /\ page.wallet \in Wallets \cup {Nothing}
    BY <1>1, <1>4, GateAssumption DEF Leave, PageStates, Mounts
  <2>2. page' = Mounted(page.mount + 1, page.wallet)
    BY <1>4 DEF Leave, Set
  <2>3. page' \in PageStates /\ page'.gate = "checking" /\ page'.pool = Nothing
    BY <2>1, <2>2 DEF Mounted, PageStates
  <2>4. QED
    BY <1>1, <2>3, ScreensKeep
<1>5. CASE BannerShown
  <2>1. page' = page
    BY <1>5 DEF BannerShown
  <2>2. QED
    BY <1>1, <2>1, ScreensKeep DEF IInv, GateIsTrue, ReadsAreOfThePool
<1>6. QED
  BY <1>2, <1>3, <1>4, <1>5

-----------------------------------------------------------------------------
(* The handler.                                                            *)

LEMMA RunKeeps ==
    ASSUME IInv, NEW m \in Mounts, cluster' = cluster,
           page' = page \/ Same(page),
           \A k \in Mounts \ {m} : run'[k] = run[k],
           run' \in [Mounts -> RunStates],
           run'[m].at \in {"wallet", "build", "staged"} => cluster,
           run'[m].at \in {"build", "staged"} => run'[m].could
    PROVE  IInv'
<1>1. page' \in PageStates
  BY DEF Same, IInv, TypeOK
<1>2. GateIsTrue' /\ ReadsAreOfThePool'
  BY DEF Same, IInv, GateIsTrue, ReadsAreOfThePool
<1>3. ChecksArePassed'
  BY DEF IInv, ChecksArePassed
<1>4. QED
  BY <1>1, <1>2, <1>3 DEF IInv, TypeOK

LEMMA ShowKeeps ==
    ASSUME IInv, NEW m \in Mounts,
           NEW step \in {"select", "confirm", "processing", "note"}, Show(m, step)
    PROVE  page' = page \/ Same(page)
BY DEF Show, Set, Same, IInv, TypeOK, PageStates

LEMMA WorksTyped ==
    ASSUME NEW at \in {"cluster", "wallet"}, NEW w \in Wallets \cup {Nothing},
           NEW p \in Pools \cup {Nothing}
    PROVE  Works(at, w, p) \in RunStates /\ Works(at, w, p).at = at
BY DEF Works, CanPay, RunStates

LEMMA IdleTyped == Idle \in RunStates /\ Idle.at = "idle"
BY DEF Idle, RunStates

LEMMA PressStep ==
    ASSUME IInv, Press
    PROVE  IInv'
<1>1. page \in PageStates /\ run \in [Mounts -> RunStates] /\ page.mount \in Mounts
  BY DEF IInv, TypeOK, PageStates
<1>2. Same(page)
  BY <1>1 DEF Press, Set, Same, PageStates
<1> DEFINE works == Works("cluster", page.wallet, page.pool)
<1>3. works \in RunStates /\ works.at = "cluster"
  BY <1>1, WorksTyped DEF PageStates
<1>4. run' = [run EXCEPT ![page.mount] = works]
  BY DEF Press
<1> HIDE DEF works
<1>5. /\ run' \in [Mounts -> RunStates] /\ run'[page.mount] = works
      /\ \A k \in Mounts \ {page.mount} : run'[k] = run[k]
  BY <1>1, <1>3, <1>4
<1>6. QED
  BY <1>1, <1>2, <1>3, <1>5, RunKeeps DEF Press, World

LEMMA FailsKeeps ==
    ASSUME IInv, NEW m \in Mounts, Fails(m), cluster' = cluster
    PROVE  IInv'
<1>1. run' \in [Mounts -> RunStates] /\ run'[m] = Idle
      /\ \A k \in Mounts \ {m} : run'[k] = run[k]
  BY IdleTyped DEF Fails, IInv, TypeOK
<1>2. page' = page \/ Same(page)
  BY ShowKeeps DEF Fails
<1>3. QED
  BY <1>1, <1>2, IdleTyped, RunKeeps

LEMMA GoesKeeps ==
    ASSUME IInv, NEW m \in Mounts, NEW at \in {"build", "staged"}, Goes(m, at),
           cluster, run[m].could, cluster' = cluster
    PROVE  IInv'
<1>1. run[m] \in RunStates /\ run \in [Mounts -> RunStates]
  BY DEF IInv, TypeOK
<1>2. /\ [run[m] EXCEPT !.at = at] \in RunStates
      /\ [run[m] EXCEPT !.at = at].could = run[m].could
  BY <1>1 DEF RunStates
<1>3. /\ run' \in [Mounts -> RunStates] /\ run'[m] = [run[m] EXCEPT !.at = at]
      /\ \A k \in Mounts \ {m} : run'[k] = run[k]
  BY <1>1, <1>2 DEF Goes
<1>4. QED
  BY <1>2, <1>3, RunKeeps DEF Goes

LEMMA RunSteps ==
    ASSUME IInv, NEW m \in Mounts, RunCluster(m) \/ HandleDeposit(m)
    PROVE  IInv'
<1>1. cluster' = cluster
  BY DEF RunCluster, HandleDeposit, World
<1>2. ASSUME Fails(m)
      PROVE  IInv'
  BY <1>1, <1>2, FailsKeeps
<1>3. run[m] \in RunStates /\ run \in [Mounts -> RunStates]
  BY DEF IInv, TypeOK
<1>4. CASE RunCluster(m)
  <2> DEFINE works == Works("wallet", run[m].wallet, run[m].pool)
  <2>1. CASE /\ Verify(TRUE) /\ run' = [run EXCEPT ![m] = works]
             /\ UNCHANGED page
    <3>1. works \in RunStates /\ works.at = "wallet"
      BY <1>3, WorksTyped DEF RunStates
    <3> HIDE DEF works
    <3>2. /\ run' \in [Mounts -> RunStates] /\ run'[m] = works
          /\ \A k \in Mounts \ {m} : run'[k] = run[k]
      BY <1>3, <2>1, <3>1
    <3>3. cluster
      BY <2>1 DEF Verify
    <3>4. QED
      BY <1>1, <2>1, <3>1, <3>2, <3>3, RunKeeps
  <2>2. QED
    BY <1>2, <1>4, <2>1 DEF RunCluster
<1>5. CASE RunWallet(m)
  <2>1. cluster
    BY <1>5 DEF RunWallet, IInv, ChecksArePassed
  <2>2. PICK ok \in BOOLEAN :
          WalletVerdict(run[m], ok) /\ IF ok THEN Goes(m, "build") ELSE Fails(m)
    BY <1>5 DEF RunWallet
  <2>3. CASE ok
    BY <1>1, <2>1, <2>2, <2>3, GoesKeeps DEF WalletVerdict
  <2>4. CASE ~ok
    BY <1>2, <2>2, <2>4
  <2>5. QED
    BY <2>3, <2>4
<1>6. CASE Stage(m)
  <2>1. cluster /\ run[m].could
    BY <1>6 DEF Stage, IInv, ChecksArePassed
  <2>2. QED
    BY <1>1, <1>2, <1>6, <2>1, GoesKeeps DEF Stage
<1>7. CASE Settle(m)
  <2>1. CASE run' = [run EXCEPT ![m] = Idle] /\ Show(m, "note")
    <3>1. run' \in [Mounts -> RunStates] /\ run'[m] = Idle
          /\ \A k \in Mounts \ {m} : run'[k] = run[k]
      BY <1>3, <2>1, IdleTyped
    <3>2. page' = page \/ Same(page)
      BY <2>1, ShowKeeps
    <3>3. QED
      BY <1>1, <3>1, <3>2, IdleTyped, RunKeeps
  <2>2. QED
    BY <1>2, <1>7, <2>1 DEF Settle
<1>8. QED
  BY <1>4, <1>5, <1>6, <1>7 DEF HandleDeposit

\* Once a wallet could pay, a later balance does not undo it.
LEMMA PayStep ==
    ASSUME IInv, NEW w \in Wallets, NEW b \in Balances, Pay(w, b)
    PROVE  IInv'
<1>1. /\ run' = [m \in Mounts |-> [run[m] EXCEPT !.could = Since(run[m])]]
      /\ UNCHANGED <<cluster, page>>
  BY DEF Pay
<1>2. ASSUME NEW m \in Mounts
      PROVE  /\ run'[m] \in RunStates /\ run'[m].at = run[m].at
             /\ run[m].could => run'[m].could
  <2>1. run[m] \in RunStates
    BY DEF IInv, TypeOK
  <2>2. run'[m] = [run[m] EXCEPT !.could = Since(run[m])]
    BY <1>1
  <2>3. Since(run[m]) \in BOOLEAN /\ (run[m].could => Since(run[m]))
    BY <2>1 DEF Since, RunStates
  <2>4. QED
    BY <2>1, <2>2, <2>3 DEF RunStates
<1>3. TypeOK' /\ GateIsTrue' /\ ReadsAreOfThePool'
  BY <1>1, <1>2 DEF IInv, TypeOK, GateIsTrue, ReadsAreOfThePool
<1>4. ChecksArePassed'
  BY <1>1, <1>2 DEF IInv, ChecksArePassed
<1>5. QED
  BY <1>3, <1>4 DEF IInv

-----------------------------------------------------------------------------
(* The theorems.                                                           *)

LEMMA InitIInv == Init => IInv
<1>1. SUFFICES ASSUME Init
               PROVE  IInv
  OBVIOUS
<1>2. 1 \in Mounts
  BY GateAssumption DEF Mounts
<1>3. /\ page \in PageStates /\ page.gate = "checking" /\ page.pool = Nothing
  BY <1>1, <1>2 DEF Init, Mounted, PageStates
<1>4. run \in [Mounts -> RunStates] /\ \A m \in Mounts : run[m].at = "idle"
  BY <1>1, IdleTyped DEF Init
<1>5. QED
  BY <1>3, <1>4 DEF IInv, TypeOK, GateIsTrue, ReadsAreOfThePool, ChecksArePassed

LEMMA NextIInv == IInv /\ [Next]_vars => IInv'
<1>1. SUFFICES ASSUME IInv, [Next]_vars
               PROVE  IInv'
  OBVIOUS
<1>2. CASE User
  BY <1>1, <1>2, WalletSteps, SelectPoolStep, ScreenSteps, PressStep DEF User
<1>3. ASSUME \/ BannerShown \/ GateShown
             \/ \E pool \in Pools : PoolRead(pool)
             \/ \E i \in Slots : CheckArrives(i)
      PROVE  IInv'
  BY <1>1, <1>3, ScreenSteps, GateShownStep, PoolReadStep, WalletSteps
<1>4. ASSUME NEW m \in Mounts, RunCluster(m) \/ HandleDeposit(m)
      PROVE  IInv'
  BY <1>1, <1>4, RunSteps
<1>5. ASSUME NEW w \in Wallets, NEW b \in Balances, Pay(w, b)
      PROVE  IInv'
  BY <1>1, <1>5, PayStep
<1>6. CASE UNCHANGED vars
  BY <1>1, <1>6
  DEF vars, IInv, TypeOK, GateIsTrue, ReadsAreOfThePool, ChecksArePassed
<1>7. QED
  BY <1>1, <1>2, <1>3, <1>4, <1>5, <1>6 DEF Next

\* Whatever the screens showed, and however late balances and verdicts come, a
\* note is staged only on the cluster allowed and for a wallet that could pay
\* after the click (assertClusterAllowed, assertWalletCanDeposit).
THEOREM DepositsArePayable == Spec => []StagedDepositIsPayable
<1>1. IInv => StagedDepositIsPayable
  BY DEF IInv, ChecksArePassed, StagedDepositIsPayable
<1>2. QED
  BY <1>1, InitIInv, NextIInv, PTL DEF Spec

\* Continue is offered on an answer about the pool that is selected and on the
\* cluster allowed, in whatever order reads settle (usePoolInfo).
THEOREM ContinueIsInformed == Spec => []ContinueMeansRead
<1>1. IInv => ContinueMeansRead
  BY DEF IInv, GateIsTrue, ReadsAreOfThePool, CanContinue, ContinueMeansRead
<1>2. QED
  BY <1>1, InitIInv, NextIInv, PTL DEF Spec
=============================================================================
