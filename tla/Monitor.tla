------------------------------- MODULE Monitor -------------------------------
(***************************************************************************)
(* The watcher (monitor/src/index.js, monitor/src/checks.js): a daemon     *)
(* that reads each pool, its vault and the upgrade authority, compares     *)
(* what it reads with itself and with what it remembers, announces what it *)
(* finds and stores its memory in a file.  The reads are separate calls:   *)
(* the chain moves between them.  The process may be killed anywhere and   *)
(* started again.                                                          *)
(***************************************************************************)
EXTENDS Integers, FiniteSets

CONSTANTS
    Pools,
    Denomination, Rent,         \* of each vault, in lamports
    MaxDenomsPerWindow,         \* maxDenomsPerWindow of checkOutflowRate
    Saturation,                 \* threshold of checkSaturation
    RelayerFindings,            \* what checkRelayerBalance may find, {{}} unset
    Nothing,
    MaxDeposits,                \* bound: deposits of a pool
    MaxEvents                   \* bound: what happens to the chain, and restarts

VARIABLES
    chain,      \* the pools and their vaults
    authority,  \* the upgrade authority is the expected one
    tampered,   \* pools something other than the program has written to
    mon,        \* the process
    memory,     \* its state object
    file,       \* STATE_PATH, Nothing if there is none that parses
    kept,       \* the baseline first written to the file, while none was lost
    wrong,      \* pools whose vault was out of step since the pass began
    events

vars == <<chain, authority, tampered, mon, memory, file, kept, wrong,
          events>>
world == <<chain, authority, tampered>>
ghosts == <<kept, wrong, events>>

-----------------------------------------------------------------------------
(* checks.js                                                               *)

Critical == {"WITHDRAWALS_EXCEED_DEPOSITS", "INTEGRITY_REMAINDER",
             "INVARIANT_LOGIC_ERROR", "UPGRADE_AUTHORITY_CHANGED",
             "IMMUTABLE_FIELD_CHANGED", "RELAYER_INSOLVENT", "POOL_UNREADABLE"}
Warning == {"VAULT_SURPLUS", "FAST_OUTFLOW", "POOL_SATURATED",
            "POOL_NEAR_SATURATION", "RELAYER_LOW", "RPC_ERROR"}
Info == {"PROGRAM_IMMUTABLE", "POOL_PAUSED", "POOL_UNPAUSED"}
Codes == Critical \cup Warning \cup Info

If(condition, code) == IF condition THEN {code} ELSE {}

\* Mutant: what the vault holds and what the deposits paid must be equal but
\* for whole denominations, whichever is more.
VaultIntegrityTwoSided(seen) ==
    LET numerator == Rent + seen.deposits * Denomination - seen.vault
    IN  CASE numerator % Denomination # 0 -> {"INTEGRITY_REMAINDER"}
          [] OTHER -> If(numerator \div Denomination \notin 0 .. seen.deposits,
                         "INVARIANT_LOGIC_ERROR")

\* checkVaultIntegrity: vault = rent + (deposits - withdrawals) * denomination,
\* for a number of withdrawals between none and all.
VaultIntegrity(seen) ==
    LET numerator == Rent + seen.deposits * Denomination - seen.vault
    IN  CASE seen.vault < Rent -> {"WITHDRAWALS_EXCEED_DEPOSITS"}
          [] seen.vault >= Rent /\ numerator < 0 -> {"VAULT_SURPLUS"}
          [] seen.vault >= Rent /\ numerator >= 0 /\ numerator % Denomination # 0
               -> {"INTEGRITY_REMAINDER"}
          [] OTHER -> If(numerator \div Denomination > seen.deposits,
                         "INVARIANT_LOGIC_ERROR")

OutflowRate(seen, prev) ==
    If(prev # Nothing
       /\ (prev.vault - seen.vault) \div Denomination >= MaxDenomsPerWindow,
       "FAST_OUTFLOW")

SaturationOf(seen) ==
    CASE seen.deposits >= Saturation -> {"POOL_SATURATED"}
      [] seen.deposits = Saturation - 1 -> {"POOL_NEAR_SATURATION"}
      [] OTHER -> {}

PauseState(seen, prev) ==
    IF prev = Nothing \/ prev.paused = seen.paused THEN {}
    ELSE {IF seen.paused THEN "POOL_PAUSED" ELSE "POOL_UNPAUSED"}

\* runPoolChecks, and checkAuthorities for the pool: its immutable fields are
\* what they were when it was first seen.
PoolChecks(seen, prev) ==
    VaultIntegrity(seen) \cup OutflowRate(seen, prev) \cup SaturationOf(seen)
      \cup PauseState(seen, prev)
      \cup If(prev # Nothing /\ prev.baseline # seen.fields, "IMMUTABLE_FIELD_CHANGED")

\* checkAuthorities: who the authority is, Nothing if that could not be read.
AuthorityChecks(who) ==
    CASE who = "none" -> {"PROGRAM_IMMUTABLE"}
      [] who = "expected" -> {}
      [] OTHER -> {"UPGRADE_AUTHORITY_CHANGED"}

-----------------------------------------------------------------------------
(* The process.                                                            *)

Down == [at |-> "down"]
Resting == [at |-> "rest"]
Blank == [pools |-> [p \in Pools |-> Nothing], alerts |-> {}]

\* What a pool's fields are, what is found, and what is remembered of a pool
\* and in all.
Fields == {"original", "changed"}
Remembered == [vault : Int, paused : BOOLEAN, baseline : Fields]
Memories == [pools : [Pools -> {Nothing} \cup Remembered],
             alerts : SUBSET [code : Codes, pool : Pools \cup {Nothing}]]

ASSUME MonitorAssumption ==
    /\ IsFiniteSet(Pools)
    /\ Denomination \in Nat \ {0} /\ Rent \in Nat
    /\ MaxDenomsPerWindow \in Nat /\ Saturation \in Nat
    /\ RelayerFindings \subseteq SUBSET {"RELAYER_LOW", "RELAYER_INSOLVENT"}
    /\ Nothing \notin Pools \cup Remembered \cup Memories

Event == events < MaxEvents /\ events' = events + 1

Found(p, codes) == mon.found \cup {[code |-> c, pool |-> p] : c \in codes}
NextPool(found) == [at |-> "pools", todo |-> mon.todo, found |-> found]

\* Whether the vault of a pool does not hold whole denominations over its rent.
OutOfStep(p) == (chain[p].vault - Rent) % Denomination # 0

\* main and loadState.
Start ==
    /\ mon = Down
    /\ mon' = Resting
    /\ memory' = IF file = Nothing THEN Blank ELSE file
    /\ UNCHANGED <<world, file, ghosts>>

BeginPass ==
    /\ mon = Resting
    /\ mon' = [at |-> "pools", todo |-> Pools, found |-> {}]
    /\ wrong' = {p \in Pools : OutOfStep(p)}
    /\ UNCHANGED <<world, memory, file, kept, events>>

\* readPool: the account and the vault are asked for at once, and answered in
\* either order.
ReadFirst ==
    /\ mon.at = "pools"
    /\ \E p \in mon.todo :
         \/ mon' = [at |-> "vault", pool |-> p, todo |-> mon.todo \ {p},
                    found |-> mon.found, account |-> chain[p]]
         \/ mon' = [at |-> "account", pool |-> p, todo |-> mon.todo \ {p},
                    found |-> mon.found, vault |-> chain[p].vault]
    /\ UNCHANGED <<world, memory, file, ghosts>>

\* Mutant: the memory takes the fields as they are now for the baseline.
RememberAnew(seen, prev) ==
    [vault |-> seen.vault, paused |-> seen.paused, baseline |-> seen.fields]

\* What is remembered of a pool: the baseline is that of the first time.
Remember(seen, prev) ==
    [vault |-> seen.vault, paused |-> seen.paused,
     baseline |-> IF prev = Nothing THEN seen.fields ELSE prev.baseline]

\* The second read, the checks of the pool and what is remembered of it.
ReadSecond ==
    /\ mon.at \in {"vault", "account"}
    /\ LET p == mon.pool
           seen == IF mon.at = "vault"
                   THEN [mon.account EXCEPT !.vault = chain[p].vault]
                   ELSE [chain[p] EXCEPT !.vault = mon.vault]
           prev == memory.pools[p]
       IN  /\ mon' = NextPool(Found(p, PoolChecks(seen, prev)))
           /\ memory' = [memory EXCEPT !.pools[p] = Remember(seen, prev)]
    /\ UNCHANGED <<world, file, ghosts>>

\* Mutant: the failed read of a pool ends the pass.
ReadFailsPass ==
    /\ mon.at \in {"vault", "account"}
    /\ mon' = Resting
    /\ UNCHANGED <<world, memory, file, ghosts>>

\* A call that throws, and an account that is none of the program's pools: the
\* pass goes on with the next pool.  The node shows an account that exists: it
\* is assumed never to read one as null without throwing.
ReadFails ==
    /\ mon.at \in {"vault", "account"}
    /\ \E code \in {"RPC_ERROR", "POOL_UNREADABLE"} :
         /\ code = "POOL_UNREADABLE" => mon.pool \in tampered
         /\ mon' = NextPool(Found(mon.pool, {code}))
    /\ UNCHANGED <<world, memory, file, ghosts>>

\* readUpgradeAuthority, and its checks even when the read has thrown.
ReadAuthority ==
    /\ mon.at = "pools" /\ mon.todo = {}
    /\ \E answer \in {authority, Nothing} :
         mon' = [at |-> "relayer",
                 found |-> Found(Nothing, AuthorityChecks(answer)
                                   \cup If(answer = Nothing, "RPC_ERROR"))]
    /\ UNCHANGED <<world, memory, file, ghosts>>

\* checkRelayerBalance, where RELAYER_PUBKEY is set.
ReadRelayer ==
    /\ mon.at = "relayer"
    /\ \E codes \in RelayerFindings :
         mon' = [at |-> "emit", found |-> Found(Nothing, codes)]
    /\ UNCHANGED <<world, memory, file, ghosts>>

\* Announced within the last ALERT_COOLDOWN_MINUTES; the time itself is left
\* out.
Cooling(f) == f \in memory.alerts

\* Mutant: every finding is rate-limited.
SuppressedAll(f) == Cooling(f)

\* A critical finding is never suppressed.
Suppressed(f) == f.code \notin Critical /\ Cooling(f)

Emit ==
    /\ mon.at = "emit"
    /\ LET told == {f \in mon.found : ~Suppressed(f)}
       IN  /\ mon' = [at |-> "save", found |-> mon.found, told |-> told]
           /\ memory' = [memory EXCEPT !.alerts = @ \cup told]
    /\ UNCHANGED <<world, file, ghosts>>

\* saveState; a write that fails leaves the file as it was.
Save ==
    /\ mon.at = "save"
    /\ \/ /\ file' = memory
          /\ kept' = [p \in Pools |->
                IF kept[p] = Nothing /\ memory.pools[p] # Nothing
                THEN memory.pools[p].baseline ELSE kept[p]]
       \/ UNCHANGED <<file, kept>>
    /\ mon' = Resting
    /\ UNCHANGED <<world, memory, wrong, events>>

\* Killed in the middle of a write, the file does not parse: all it held is
\* forgotten.
Crash ==
    /\ mon # Down /\ Event
    /\ mon' = Down /\ memory' = Blank
    /\ \/ UNCHANGED <<file, kept>>
       \/ /\ mon.at = "save"
          /\ file' = Nothing
          /\ kept' = [p \in Pools |-> Nothing]
    /\ UNCHANGED <<world, wrong>>

Pass ==
    \/ Start \/ BeginPass \/ ReadFirst \/ ReadSecond \/ ReadFails
    \/ ReadAuthority \/ ReadRelayer \/ Emit \/ Save

-----------------------------------------------------------------------------
(* The chain, as it should be and as it should not.                        *)

Chain(p, c) ==
    /\ chain' = [chain EXCEPT ![p] = c]
    /\ wrong' = IF (c.vault - Rent) % Denomination = 0 THEN wrong \ {p} ELSE wrong
    /\ Event
    /\ UNCHANGED <<authority, mon, memory, file, kept>>

Deposit(p) ==
    /\ ~chain[p].paused /\ chain[p].deposits < MaxDeposits
    /\ Chain(p, [chain[p] EXCEPT !.deposits = @ + 1, !.vault = @ + Denomination])
    /\ UNCHANGED tampered

Withdraw(p) ==
    /\ chain[p].vault >= Rent + Denomination
    /\ Chain(p, [chain[p] EXCEPT !.vault = @ - Denomination])
    /\ UNCHANGED tampered

Pause(p) ==
    /\ ~chain[p].paused
    /\ Chain(p, [chain[p] EXCEPT !.paused = TRUE])
    /\ UNCHANGED tampered

\* Lamports leave the vault, arrive by a plain transfer, or a field is written.
Tamper(p) ==
    /\ p \notin tampered
    /\ tampered' = tampered \cup {p}
    /\ \/ /\ chain[p].vault > 0
          /\ Chain(p, [chain[p] EXCEPT !.vault = @ - 1])
       \/ Chain(p, [chain[p] EXCEPT !.vault = @ + 1])
       \/ Chain(p, [chain[p] EXCEPT !.fields = "changed"])

TakeOver ==
    /\ authority = "expected" /\ Event
    /\ authority' \in {"other", "none"}
    /\ UNCHANGED <<chain, tampered, mon, memory, file, kept, wrong>>

\* The cooldown passes.
Tick ==
    /\ memory' = [memory EXCEPT !.alerts = {}]
    /\ file' = IF file = Nothing THEN Nothing ELSE [file EXCEPT !.alerts = {}]
    /\ UNCHANGED <<world, mon, ghosts>>

Environment ==
    \/ \E p \in Pools : Deposit(p) \/ Withdraw(p) \/ Pause(p) \/ Tamper(p)
    \/ TakeOver \/ Tick

Init ==
    /\ chain = [p \in Pools |-> [deposits |-> 0, vault |-> Rent, paused |-> FALSE,
                                 fields |-> "original"]]
    /\ authority = "expected" /\ tampered = {}
    /\ mon = Down /\ memory = Blank /\ file = Nothing
    /\ kept = [p \in Pools |-> Nothing] /\ wrong = {}
    /\ events = 0

Next == Pass \/ Crash \/ Environment

\* The process runs, is restarted when it is killed, and each of its calls
\* returns or throws.
Spec == Init /\ [][Next]_vars /\ WF_vars(Pass)

-----------------------------------------------------------------------------
(* Properties.                                                             *)

\* "CRITICAL: an invariant that cannot break under correct operation"
\* (checks.js): of a pool only the program has written to no critical finding
\* is made, however its two reads fall between deposits and withdrawals; nor of
\* the upgrade authority while it is the expected one, but for a read of it
\* that failed.  Rent is constant, and the node reads no account that exists as
\* null.
CriticalHasACause ==
    mon.at \in {"emit", "save"} =>
        \A f \in mon.found : f.code \in Critical =>
            /\ f.pool \in Pools => f.pool \in tampered
            /\ f.pool \notin Pools /\ f.code = "UPGRADE_AUTHORITY_CHANGED"
                 => \/ authority # "expected"
                    \/ [f EXCEPT !.code = "RPC_ERROR"] \in mon.found

\* A vault that does not hold whole denominations from before a pass until its
\* end is announced as critical, or taken for a surplus; no read in between
\* makes it look clean, and no cooldown keeps it quiet.
OutOfStepIsNoticed ==
    mon.at = "save" =>
        \A p \in wrong :
            \/ \E f \in mon.told : f.pool = p /\ f.code \in Critical
            \/ \E f \in mon.found :
                 f.pool = p /\ f.code \in {"VAULT_SURPLUS", "RPC_ERROR"}

\* A baseline that was written to the file is the one every later pass
\* compares with, over restarts, unless the file itself was lost.
BaselineSurvives ==
    \A p \in Pools :
        kept[p] # Nothing /\ mon # Down =>
            /\ memory.pools[p] # Nothing
            /\ memory.pools[p].baseline = kept[p]

\* "Never let a transient failure kill the watcher": whatever calls fail, the
\* process comes to announce what it found, again and again.
PassesComplete == []<>(mon.at = "save")
=============================================================================
