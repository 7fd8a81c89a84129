----------------------------- MODULE DepositGate -----------------------------
(***************************************************************************)
(* What stands between the deposit screens and a note being staged for a   *)
(* deposit (app/src/pages/Deposit.tsx up to stageNote, from which on it is *)
(* NoteVault, components/PoolSelector.tsx, WrongNetworkModal.tsx and       *)
(* NetworkGuard.tsx, hooks/usePool.ts and useClusterGate.ts,               *)
(* utils/clusterGate.ts and walletCluster.ts).                             *)
(*                                                                         *)
(* The screens decide on what was read, which can be late or about what    *)
(* was selected before: the pool's account, whether the wallet can pay,    *)
(* and which cluster this is.  The handler of the Deposit button reads     *)
(* again.  The wallet spends and receives, or is another one, at any time, *)
(* and the page can be left while its handler runs.                        *)
(***************************************************************************)
EXTENDS Naturals

CONSTANTS
    Wallets,
    Pools,              \* the pools of the ladder that are deployed
    Required,           \* the denomination of each, and the fee headroom
    Balances,
    Nothing,            \* null, and none of the others
    MaxMounts,          \* bound: times the page is opened
    MaxChecks           \* bound: balance reads of the screens under way

VARIABLES
    cluster,    \* whether the connection serves the cluster allowed
    answers,    \* whether its node answers getGenesisHash at all
    identified, \* the genesis hash of the connection is in the cache
    banner,     \* the verdict of NetworkGuard's own useClusterGate
    balance,    \* of each wallet, on the cluster of the connection
    page,       \* the state of the mounted component
    checks,     \* the calls of runWalletCheck that wait for a balance
    run         \* handleDeposit, for each time the page was opened

ASSUME GateAssumption == MaxMounts \in Nat \ {0}

vars == <<cluster, answers, identified, banner, balance, page, checks, run>>

Mounts == 1 .. MaxMounts
Slots == 1 .. MaxChecks
Set(p) == page' = p
World == <<cluster, answers, balance>>

-----------------------------------------------------------------------------
(* The cluster.                                                            *)

\* Mutant: no withTimeout, and a node that never answers is waited for.
VerifyWithoutTimeout(allowed) ==
    /\ answers \/ identified
    /\ identified' = TRUE
    /\ allowed = cluster

\* verifyCluster: from the cache, or an answer that is cached; else an error or
\* withTimeout, which refuses and is not remembered.
Verify(allowed) ==
    \/ /\ answers \/ identified
       /\ identified' = TRUE
       /\ allowed = cluster
    \/ /\ ~identified
       /\ allowed = FALSE
       /\ UNCHANGED identified

Verdict(allowed) == IF allowed THEN "allowed" ELSE "blocked"

BannerShown ==
    /\ banner = "checking"
    /\ \E allowed \in BOOLEAN :
         Verify(allowed) /\ banner' = Verdict(allowed)
    /\ UNCHANGED <<World, page, checks, run>>

-----------------------------------------------------------------------------
(* Whether the wallet can pay.                                             *)

CanPay(w, p) == balance[w] >= Required[p]

NoCheck == [wallet |-> Nothing, pool |-> Nothing, could |-> FALSE]

\* A balance is asked for; could: it was enough at some time since.
Ask(w, p) == [wallet |-> w, pool |-> p, could |-> CanPay(w, p)]

\* Since now, with the balances as they become.
Since(r) == r.could \/ (r.wallet # Nothing /\ balance'[r.wallet] >= Required[r.pool])

\* checkWalletCanDeposit: what cannot be read is no less a refusal.
WalletVerdict(r, ok) == ok => r.could

\* runWalletCheck, of a page as it becomes: the verdict of no earlier call is
\* cancelled by it.
RunWalletCheck(p) ==
    IF p.wallet # Nothing /\ p.pool # Nothing /\ p.gate = "allowed"
    THEN \E i \in Slots :
           /\ checks[i] = NoCheck
           /\ \A j \in Slots : checks[j] = NoCheck => i <= j
           /\ checks' = [checks EXCEPT ![i] = Ask(p.wallet, p.pool)]
           /\ Set([p EXCEPT !.checking = TRUE])
    ELSE Set([p EXCEPT !.block = FALSE]) /\ UNCHANGED checks

CheckArrives(i) ==
    /\ checks[i] # NoCheck
    /\ \E ok \in BOOLEAN :
         /\ WalletVerdict(checks[i], ok)
         /\ Set([page EXCEPT !.block = ~ok, !.checking = FALSE])
    /\ checks' = [checks EXCEPT ![i] = NoCheck]
    /\ UNCHANGED <<World, identified, banner, run>>

\* "I switched - check again", of the modal over either screen.
Retry ==
    /\ page.wallet # Nothing /\ page.step \in {"select", "confirm"}
    /\ page.block /\ ~page.checking
    /\ RunWalletCheck(page)
    /\ UNCHANGED <<World, identified, banner, run>>

-----------------------------------------------------------------------------
(* The screens.                                                            *)

Mounted(m, w) ==
    [mount |-> m, step |-> "select", wallet |-> w, pool |-> Nothing,
     info |-> Nothing, reads |-> {}, loading |-> FALSE, error |-> FALSE,
     block |-> FALSE, checking |-> FALSE, gate |-> "checking"]

\* useClusterGate, on whose verdict the effect of runWalletCheck depends.
GateShown ==
    /\ page.gate = "checking"
    /\ \E allowed \in BOOLEAN :
         /\ Verify(allowed)
         /\ RunWalletCheck([page EXCEPT !.gate = Verdict(allowed)])
    /\ UNCHANGED <<World, banner, run>>

\* The wallet's extension disconnects, connects, or changes its account.
Connect(w) ==
    /\ w # page.wallet
    /\ RunWalletCheck([page EXCEPT !.wallet = w])
    /\ UNCHANGED <<World, identified, banner, run>>

\* Mutant: the read of the pool selected before is not cancelled.
ReadPoolToo(p, pool) ==
    [p EXCEPT !.reads = @ \cup {pool}, !.loading = TRUE, !.error = FALSE]

\* The effect of usePoolInfo: an earlier read is cancelled, what it found stays.
ReadPool(p, pool) ==
    [p EXCEPT !.reads = {pool}, !.loading = TRUE, !.error = FALSE]

SelectPool(pool) ==
    /\ page.wallet # Nothing /\ page.step = "select" /\ page.pool # pool
    /\ RunWalletCheck([ReadPool(page, pool) EXCEPT !.pool = pool])
    /\ UNCHANGED <<World, identified, banner, run>>

\* What getAccountInfo says of it: a pool, which takes deposits or is paused or
\* saturated; no pool of the program; or that it could not be read.
PoolRead(pool) ==
    /\ pool \in page.reads
    /\ LET settled == [page EXCEPT !.reads = @ \ {pool}, !.loading = FALSE]
       IN  \/ \E open \in BOOLEAN :
                Set([settled EXCEPT !.info = [of |-> pool, open |-> open]])
           \/ Set([settled EXCEPT !.info = Nothing, !.error = TRUE])
           \/ Set([settled EXCEPT !.error = TRUE])
    /\ UNCHANGED <<World, identified, banner, checks, run>>

\* depositCanContinue.
CanContinue ==
    /\ page.pool # Nothing /\ ~page.loading /\ ~page.error
    /\ page.info # Nothing /\ page.info.open
    /\ page.gate = "allowed" /\ ~page.block

Continue ==
    /\ page.wallet # Nothing /\ page.step = "select" /\ CanContinue
    /\ Set([page EXCEPT !.step = "confirm"])
    /\ UNCHANGED <<World, identified, banner, checks, run>>

Back ==
    /\ page.wallet # Nothing /\ page.step = "confirm"
    /\ Set([page EXCEPT !.step = "select"])
    /\ UNCHANGED <<World, identified, banner, checks, run>>

\* "Make another deposit", once the note is said to be kept elsewhere: there is
\* no pool to read, nor to pay for.
AnotherDeposit ==
    /\ page.wallet # Nothing /\ page.step = "note"
    /\ Set([page EXCEPT !.step = "select", !.pool = Nothing, !.info = Nothing,
                        !.error = FALSE, !.block = FALSE])
    /\ UNCHANGED <<World, identified, banner, checks, run>>

\* The application keeps the tabs locked while a note is shown.
NoteLocked == page.step = "note"

\* The tab of another page: what the reads of this one find is for nobody.
Leave ==
    /\ page.mount < MaxMounts /\ ~NoteLocked
    /\ Set(Mounted(page.mount + 1, page.wallet))
    /\ checks' = [i \in Slots |-> NoCheck]
    /\ UNCHANGED <<World, identified, banner, run>>

-----------------------------------------------------------------------------
(* handleDeposit.  It works on the wallet and the pool of its click.       *)

Idle == [at |-> "idle", wallet |-> Nothing, pool |-> Nothing, could |-> FALSE]

\* It asks for the balance, or is about to.
Works(at, w, p) ==
    [at |-> at, wallet |-> w, pool |-> p, could |-> CanPay(w, p)]

\* The Deposit button.
Press ==
    /\ page.wallet # Nothing /\ page.step = "confirm"
    /\ page.gate = "allowed" /\ ~page.block
    /\ Set([page EXCEPT !.step = "processing"])
    /\ run' = [run EXCEPT ![page.mount] = Works("cluster", page.wallet, page.pool)]
    /\ UNCHANGED <<World, identified, banner, checks>>

\* A component that is gone has no step to show.
Show(m, step) ==
    IF page.mount = m THEN Set([page EXCEPT !.step = step]) ELSE UNCHANGED page

Goes(m, at) == run' = [run EXCEPT ![m].at = at] /\ UNCHANGED page
Fails(m) == run' = [run EXCEPT ![m] = Idle] /\ Show(m, "confirm")

\* assertClusterAllowed, the first statement; the balance is asked for after it.
RunCluster(m) ==
    /\ run[m].at = "cluster"
    /\ \E allowed \in BOOLEAN :
         /\ Verify(allowed)
         /\ IF allowed
            THEN /\ run' = [run EXCEPT ![m] = Works("wallet", @.wallet, @.pool)]
                 /\ UNCHANGED page
            ELSE Fails(m)
    /\ UNCHANGED <<World, banner, checks>>

\* Mutant: the verdict the modal showed is taken to be that of this wallet.
TrustTheModal(m) == run[m].at = "wallet" /\ Goes(m, "build")

\* assertWalletCanDeposit.
RunWallet(m) ==
    /\ run[m].at = "wallet"
    /\ \E ok \in BOOLEAN :
         /\ WalletVerdict(run[m], ok)
         /\ IF ok THEN Goes(m, "build") ELSE Fails(m)

\* Poseidon is loaded, the note generated, the transaction built, and the note
\* staged, each of which can fail.
Stage(m) == run[m].at = "build" /\ (Goes(m, "staged") \/ Fails(m))

\* The wallet signs and sends, or not (NoteVault): the note is shown, or the
\* confirmation screen with an error.
Settle(m) ==
    /\ run[m].at = "staged"
    /\ \/ run' = [run EXCEPT ![m] = Idle] /\ Show(m, "note")
       \/ Fails(m)

HandleDeposit(m) ==
    /\ RunWallet(m) \/ Stage(m) \/ Settle(m)
    /\ UNCHANGED <<World, identified, banner, checks>>

-----------------------------------------------------------------------------

\* Some wallet spends or receives.
Pay(w, b) ==
    /\ balance[w] # b
    /\ balance' = [balance EXCEPT ![w] = b]
    /\ checks' = [i \in Slots |-> [checks[i] EXCEPT !.could = Since(checks[i])]]
    /\ run' = [m \in Mounts |-> [run[m] EXCEPT !.could = Since(run[m])]]
    /\ UNCHANGED <<cluster, answers, identified, banner, page>>

Init ==
    /\ cluster \in BOOLEAN /\ answers \in BOOLEAN
    /\ identified = FALSE /\ banner = "checking"
    /\ balance \in [Wallets -> Balances]
    /\ page = Mounted(1, Nothing)
    /\ checks = [i \in Slots |-> NoCheck]
    /\ run = [m \in Mounts |-> Idle]

User ==
    \/ \E w \in Wallets \cup {Nothing} : Connect(w)
    \/ \E pool \in Pools : SelectPool(pool)
    \/ Retry \/ Continue \/ Back \/ Press \/ AnotherDeposit \/ Leave

Next ==
    \/ User \/ BannerShown \/ GateShown
    \/ \E pool \in Pools : PoolRead(pool)
    \/ \E i \in Slots : CheckArrives(i)
    \/ \E m \in Mounts : RunCluster(m) \/ HandleDeposit(m)
    \/ \E w \in Wallets, b \in Balances : Pay(w, b)

\* What verifyCluster waits for comes, or its timer does.  getBalance and the
\* wallet have no timer.
Fairness ==
    /\ WF_vars(GateShown) /\ WF_vars(BannerShown)
    /\ \A m \in Mounts : WF_vars(RunCluster(m))

Spec == Init /\ [][Next]_vars /\ Fairness

-----------------------------------------------------------------------------
(* Properties.                                                             *)

\* A note is staged, and a transaction sent, only on the cluster allowed and
\* for a wallet that could pay for the pool after the click, whatever the
\* screens had shown about an earlier wallet, pool or balance (handleDeposit).
StagedDepositIsPayable ==
    \A m \in Mounts :
      run[m].at \in {"build", "staged"} => cluster /\ run[m].could

\* Continue is offered on an answer about the pool that is selected, not about
\* one selected before it, late or kept through a failed read (usePoolInfo,
\* depositCanContinue), and never off the cluster allowed.
ContinueMeansRead == CanContinue => cluster /\ page.info.of = page.pool

\* Nobody is left with "Confirming network...": the page's verdict, the
\* banner's and the handlers' come, again and again none is awaited, though the
\* node never answers.
GateDecides ==
    []<>(/\ page.gate # "checking" /\ banner # "checking"
         /\ \A m \in Mounts : run[m].at # "cluster")
=============================================================================
