---------------------------- MODULE MonitorProofs ----------------------------
(***************************************************************************)
(* Theorems about Monitor, for every set of pools, every denomination and  *)
(* rent, and however the chain moves between the reads.                    *)
(***************************************************************************)
EXTENDS Monitor, FiniteSetTheorems, TLAPS

-----------------------------------------------------------------------------
(* The inductive invariant.                                                *)

PoolStates == [deposits : Nat, vault : Int, paused : BOOLEAN, fields : Fields]
Findings == [code : Codes, pool : Pools \cup {Nothing}]

MonStates ==
    {Down, Resting}
    \cup [at : {"pools"}, todo : SUBSET Pools, found : SUBSET Findings]
    \cup [at : {"vault"}, pool : Pools, todo : SUBSET Pools,
          found : SUBSET Findings, account : PoolStates]
    \cup [at : {"account"}, pool : Pools, todo : SUBSET Pools,
          found : SUBSET Findings, vault : Int]
    \cup [at : {"relayer", "emit"}, found : SUBSET Findings]
    \cup [at : {"save"}, found : SUBSET Findings, told : SUBSET Findings]

TypeOK ==
    /\ chain \in [Pools -> PoolStates] /\ tampered \subseteq Pools
    /\ mon \in MonStates
    /\ memory \in Memories /\ file \in {Nothing} \cup Memories
    /\ wrong \subseteq Pools

\* The baseline first written is in the file, and in the memory of a process
\* that runs.
Holds(m, p) == m.pools[p] # Nothing /\ m.pools[p].baseline = kept[p]
BaselineKept ==
    \A p \in Pools : kept[p] # Nothing =>
        /\ file # Nothing /\ Holds(file, p)
        /\ mon.at # "down" => Holds(memory, p)

\* What an untampered pool is, has been read as, and is remembered by.
Backed(lamports) == \E k \in Nat : lamports = Rent + k * Denomination
Original(m, p) == m.pools[p] # Nothing => m.pools[p].baseline = "original"
Honest ==
    \A p \in Pools \ tampered :
        /\ chain[p].fields = "original" /\ Backed(chain[p].vault)
        /\ Original(memory, p) /\ (file # Nothing => Original(file, p))
ReadHonestly ==
    /\ mon.at = "vault" /\ mon.pool \notin tampered
         => mon.account.fields = "original"
    /\ mon.at = "account" /\ mon.pool \notin tampered => Backed(mon.vault)

\* A critical finding has a cause from the moment it is made.
Caused(f, found) ==
    f.code \in Critical =>
        /\ f.pool \in Pools => f.pool \in tampered
        /\ f.pool \notin Pools /\ f.code = "UPGRADE_AUTHORITY_CHANGED"
             => \/ authority # "expected"
                \/ [f EXCEPT !.code = "RPC_ERROR"] \in found
Passing == {"pools", "vault", "account", "relayer", "emit", "save"}
FoundHaveCauses == mon.at \in Passing => \A f \in mon.found : Caused(f, mon.found)

\* A vault out of step is still to be read, or was found to be.
Pending(p) ==
    \/ mon.at \in {"pools", "vault", "account"} /\ p \in mon.todo
    \/ mon.at \in {"vault", "account"} /\ p = mon.pool
Signs == Critical \cup {"VAULT_SURPLUS", "RPC_ERROR"}
Signed(p, found) == \E f \in found : f.pool = p /\ f.code \in Signs
WrongIsSeen ==
    /\ \A p \in wrong : OutOfStep(p)
    /\ mon.at \in Passing => \A p \in wrong : Pending(p) \/ Signed(p, mon.found)
    /\ mon.at = "account" /\ mon.pool \in wrong
         => (mon.vault - Rent) % Denomination # 0
    /\ mon.at = "save" =>
         \A f \in mon.found : f.code \in Critical => f \in mon.told

IInv ==
    /\ TypeOK /\ BaselineKept
    /\ Honest /\ ReadHonestly /\ FoundHaveCauses /\ WrongIsSeen

-----------------------------------------------------------------------------
(* Whole denominations.                                                    *)

Whole(x) == \E q \in Int : x = q * Denomination

LEMMA Exact ==
    ASSUME NEW q \in Int
    PROVE  (q * Denomination) % Denomination = 0 /\ (q * Denomination) \div Denomination = q
<1> DEFINE D == Denomination
           a == (q * D) \div D
           r == (q * D) % D
<1>1. D \in Nat /\ D > 0
  BY MonitorAssumption
<1>2. a \in Int /\ r \in Int /\ 0 <= r /\ r < D /\ q * D = D * a + r
  BY <1>1
<1>3. D * (q - a) = r
  BY <1>1, <1>2
<1> HIDE DEF D, a, r
<1>4. ~(q - a >= 1)
  BY <1>1, <1>2, <1>3
<1>5. ~(q - a <= 0 - 1)
  BY <1>1, <1>2, <1>3
<1>6. q = a
  BY <1>2, <1>4, <1>5
<1>7. r = 0
  BY <1>1, <1>2, <1>3, <1>6
<1>8. QED
  BY <1>6, <1>7 DEF D, a, r

LEMMA WholeIsZero ==
    ASSUME NEW x \in Int
    PROVE  x % Denomination = 0 <=> Whole(x)
<1>1. Denomination \in Nat /\ Denomination > 0
  BY MonitorAssumption
<1>2. ASSUME x % Denomination = 0
      PROVE  Whole(x)
  <2>1. x = Denomination * (x \div Denomination) + (x % Denomination)
    BY <1>1
  <2>2. x \div Denomination \in Int
    BY <1>1
  <2>3. x = (x \div Denomination) * Denomination
    BY <1>1, <1>2, <2>1, <2>2
  <2>4. QED
    BY <2>2, <2>3 DEF Whole
<1>3. ASSUME Whole(x)
      PROVE  x % Denomination = 0
  BY <1>3, Exact DEF Whole
<1>4. QED
  BY <1>2, <1>3

\* What a vault is short of after some deposits is whole if what it holds is.
LEMMA ShortOfWhole ==
    ASSUME NEW v \in Int, NEW d \in Nat,
           (Rent + d * Denomination - v) % Denomination = 0
    PROVE  (v - Rent) % Denomination = 0
<1>1. Denomination \in Int /\ Rent \in Int
  BY MonitorAssumption
<1>2. Rent + d * Denomination - v \in Int
  BY <1>1
<1>3. PICK q \in Int : Rent + d * Denomination - v = q * Denomination
  BY <1>2, WholeIsZero DEF Whole
<1>4. v - Rent = (d - q) * Denomination
  BY <1>1, <1>3
<1>5. v - Rent \in Int /\ d - q \in Int
  BY <1>1
<1>6. QED
  BY <1>4, <1>5, WholeIsZero DEF Whole
-----------------------------------------------------------------------------
(* The checks.                                                             *)

LEMMA IntegrityCodes ==
    ASSUME NEW seen
    PROVE  VaultIntegrity(seen) \subseteq
             {"WITHDRAWALS_EXCEED_DEPOSITS", "VAULT_SURPLUS",
              "INTEGRITY_REMAINDER", "INVARIANT_LOGIC_ERROR"}
BY DEF VaultIntegrity, If

\* A vault that has paid whole denominations out, and has its rent, is no more
\* than in surplus, whatever number of deposits was read with it.
LEMMA BackedIsFine ==
    ASSUME NEW seen \in PoolStates, Backed(seen.vault)
    PROVE  VaultIntegrity(seen) \subseteq {"VAULT_SURPLUS"}
<1>1. /\ seen.vault \in Int /\ seen.deposits \in Nat
      /\ Denomination \in Nat /\ Denomination > 0 /\ Rent \in Nat
  BY MonitorAssumption DEF PoolStates
<1>2. PICK k \in Nat : seen.vault = Rent + k * Denomination
  BY DEF Backed
<1> DEFINE numerator == Rent + seen.deposits * Denomination - seen.vault
<1>3. k * Denomination \in Nat
  BY <1>1
<1>4. seen.vault >= Rent
  BY <1>1, <1>2, <1>3
<1>5. numerator = (seen.deposits - k) * Denomination
  BY <1>1, <1>2
<1>6. seen.deposits - k \in Int
  BY <1>1
<1>7. numerator % Denomination = 0 /\ numerator \div Denomination = seen.deposits - k
  BY <1>5, <1>6, Exact
<1>8. ~(numerator \div Denomination > seen.deposits)
  BY <1>1, <1>7
<1>9. numerator \in Int
  BY <1>1
<1>10. VaultIntegrity(seen) =
         CASE seen.vault < Rent -> {"WITHDRAWALS_EXCEED_DEPOSITS"}
           [] seen.vault >= Rent /\ numerator < 0 -> {"VAULT_SURPLUS"}
           [] seen.vault >= Rent /\ numerator >= 0 /\ numerator % Denomination # 0
                -> {"INTEGRITY_REMAINDER"}
           [] OTHER -> If(numerator \div Denomination > seen.deposits,
                          "INVARIANT_LOGIC_ERROR")
  BY DEF VaultIntegrity
<1> HIDE DEF numerator
<1>11. QED
  BY <1>1, <1>4, <1>7, <1>8, <1>9, <1>10 DEF If

\* A vault out of step is not clean, whatever number of deposits was read with
\* it.
LEMMA OutOfStepIsSigned ==
    ASSUME NEW seen \in PoolStates, (seen.vault - Rent) % Denomination # 0
    PROVE  \E code \in VaultIntegrity(seen) : code \in Signs
<1>1. /\ seen.vault \in Int /\ seen.deposits \in Nat
      /\ Denomination \in Nat /\ Denomination > 0 /\ Rent \in Nat
  BY MonitorAssumption DEF PoolStates
<1> DEFINE numerator == Rent + seen.deposits * Denomination - seen.vault
<1>2. numerator % Denomination # 0
  BY <1>1, ShortOfWhole
<1>3. numerator \in Int
  BY <1>1
<1>4. VaultIntegrity(seen) =
         CASE seen.vault < Rent -> {"WITHDRAWALS_EXCEED_DEPOSITS"}
           [] seen.vault >= Rent /\ numerator < 0 -> {"VAULT_SURPLUS"}
           [] seen.vault >= Rent /\ numerator >= 0 /\ numerator % Denomination # 0
                -> {"INTEGRITY_REMAINDER"}
           [] OTHER -> If(numerator \div Denomination > seen.deposits,
                          "INVARIANT_LOGIC_ERROR")
  BY DEF VaultIntegrity
<1> HIDE DEF numerator
<1>5. \/ VaultIntegrity(seen) = {"WITHDRAWALS_EXCEED_DEPOSITS"}
      \/ VaultIntegrity(seen) = {"VAULT_SURPLUS"}
      \/ VaultIntegrity(seen) = {"INTEGRITY_REMAINDER"}
  BY <1>1, <1>2, <1>3, <1>4
<1>6. QED
  BY <1>5 DEF Signs, Critical

\* What else is found of a pool is critical only for a field that changed.
LEMMA PoolCodes ==
    ASSUME NEW seen, NEW prev, NEW code \in PoolChecks(seen, prev)
    PROVE  /\ code \in Codes
           /\ code \in Critical =>
                \/ code \in VaultIntegrity(seen)
                \/ prev # Nothing /\ prev.baseline # seen.fields
<1> DEFINE integrity == VaultIntegrity(seen)
<1>1. integrity \subseteq Codes
  BY IntegrityCodes DEF Codes, Critical, Warning
<1>2. /\ OutflowRate(seen, prev) \subseteq {"FAST_OUTFLOW"}
      /\ SaturationOf(seen) \subseteq {"POOL_SATURATED", "POOL_NEAR_SATURATION"}
      /\ PauseState(seen, prev) \subseteq {"POOL_PAUSED", "POOL_UNPAUSED"}
  BY DEF OutflowRate, SaturationOf, PauseState, If
<1> HIDE DEF integrity
<1>3. \/ code \in integrity
      \/ code \in {"FAST_OUTFLOW", "POOL_SATURATED", "POOL_NEAR_SATURATION",
                  "POOL_PAUSED", "POOL_UNPAUSED"}
      \/ /\ code = "IMMUTABLE_FIELD_CHANGED"
         /\ prev # Nothing /\ prev.baseline # seen.fields
  BY <1>2 DEF PoolChecks, If, integrity
<1>4. QED
  BY <1>1, <1>3 DEF Codes, Critical, Warning, Info, integrity
-----------------------------------------------------------------------------
(* The process.                                                            *)

\* What the steps of a pass leave alone.
LEMMA RestKeeps ==
    ASSUME IInv, UNCHANGED <<world, kept, file>>, memory' \in Memories,
           mon' \in MonStates, wrong' \subseteq wrong \/ wrong' = wrong,
           \A p \in Pools : kept[p] # Nothing /\ mon'.at # "down" => Holds(memory', p),
           \A p \in Pools \ tampered : Original(memory', p)
    PROVE  /\ TypeOK' /\ BaselineKept' /\ Honest'
<1>1. TypeOK'
  BY DEF IInv, TypeOK, world
<1>2. BaselineKept'
  BY DEF IInv, BaselineKept, Holds
<1>3. Honest'
  BY DEF IInv, Honest, Original, Backed, world
<1>4. QED
  BY <1>1, <1>2, <1>3

LEMMA StartStep == IInv /\ Start => IInv'
<1>1. SUFFICES ASSUME IInv, Start
               PROVE  IInv'
  OBVIOUS
<1>2. memory' \in Memories
  BY <1>1 DEF IInv, TypeOK, Start, Blank, Memories
<1>3. mon' = Resting /\ mon' \in MonStates /\ mon'.at = "rest"
  BY <1>1 DEF Start, MonStates, Resting
<1>4. /\ UNCHANGED <<world, kept, file, wrong>>
      /\ memory' = IF file = Nothing THEN Blank ELSE file
  BY <1>1 DEF Start, ghosts
<1>5. \A p \in Pools : kept[p] # Nothing => Holds(memory', p)
  BY <1>1, <1>4 DEF IInv, BaselineKept, Holds
<1>6. \A p \in Pools \ tampered : Original(memory', p)
  BY <1>1, <1>4 DEF IInv, Honest, Original, Blank
<1>7. TypeOK' /\ BaselineKept' /\ Honest'
  BY <1>1, <1>2, <1>3, <1>4, <1>5, <1>6, RestKeeps
<1>8. ReadHonestly' /\ FoundHaveCauses' /\ WrongIsSeen'
  BY <1>1, <1>3, <1>4
  DEF IInv, ReadHonestly, FoundHaveCauses, WrongIsSeen, Passing, OutOfStep, world
<1>9. QED
  BY <1>7, <1>8 DEF IInv

LEMMA BeginPassStep == IInv /\ BeginPass => IInv'
<1>1. SUFFICES ASSUME IInv, BeginPass
               PROVE  IInv'
  OBVIOUS
<1>2. /\ UNCHANGED <<world, kept, file, memory>>
      /\ mon' = [at |-> "pools", todo |-> Pools, found |-> {}]
      /\ wrong' = {p \in Pools : OutOfStep(p)} /\ mon.at = "rest"
  BY <1>1 DEF BeginPass, Resting
<1>3. mon' \in MonStates /\ memory \in Memories
  BY <1>1, <1>2 DEF MonStates, IInv, TypeOK
<1>4. TypeOK'
  BY <1>1, <1>2, <1>3 DEF IInv, TypeOK, world
<1>5. BaselineKept' /\ Honest'
  BY <1>1, <1>2 DEF IInv, BaselineKept, Holds, Honest, Original, Backed, world
<1>6. ReadHonestly' /\ FoundHaveCauses' /\ WrongIsSeen'
  BY <1>2 DEF ReadHonestly, FoundHaveCauses, WrongIsSeen, Pending, OutOfStep, world
<1>7. QED
  BY <1>4, <1>5, <1>6 DEF IInv

\* What was found keeps its causes and its signs when more is found.
LEMMA MoreIsFound ==
    ASSUME IInv, UNCHANGED <<world, wrong>>, NEW found,
           mon.at \in Passing, mon.found \subseteq found,
           \A f \in found \ mon.found : Caused(f, found)
    PROVE  /\ \A f \in found : Caused(f, found)'
           /\ \A p \in wrong' : OutOfStep(p)' /\ (Pending(p) \/ Signed(p, found))
<1>1. ASSUME NEW f \in found
      PROVE  Caused(f, found)'
  <2>1. Caused(f, found)
    BY DEF IInv, FoundHaveCauses, Caused
  <2>2. QED
    BY <2>1 DEF Caused, world
<1>2. QED
  BY <1>1 DEF IInv, WrongIsSeen, Signed, OutOfStep, world

LEMMA PoolsTypes ==
    ASSUME TypeOK, mon.at = "pools"
    PROVE  /\ mon.todo \subseteq Pools /\ mon.found \subseteq Findings
           /\ mon.at \in Passing
BY DEF TypeOK, MonStates, Down, Resting, Passing

LEMMA ReadTypes ==
    ASSUME TypeOK, mon.at \in {"vault", "account"}
    PROVE  /\ mon.pool \in Pools /\ mon.todo \subseteq Pools
           /\ mon.found \subseteq Findings /\ mon.at \in Passing
           /\ mon.at = "vault" => mon.account \in PoolStates
           /\ mon.at = "account" => mon.vault \in Int
BY DEF TypeOK, MonStates, Down, Resting, Passing

LEMMA EndTypes ==
    ASSUME TypeOK, mon.at \in {"relayer", "emit", "save"}
    PROVE  /\ mon.found \subseteq Findings /\ mon.at \in Passing
           /\ mon.at = "save" => mon.told \subseteq Findings
BY DEF TypeOK, MonStates, Down, Resting, Passing

LEMMA ReadFirstStep == IInv /\ ReadFirst => IInv'
<1>1. SUFFICES ASSUME IInv, ReadFirst
               PROVE  IInv'
  OBVIOUS
<1>2. /\ UNCHANGED <<world, kept, file, memory, wrong>> /\ mon.at = "pools"
      /\ TypeOK
  BY <1>1 DEF ReadFirst, ghosts, IInv
<1>3. PICK p \in mon.todo :
         \/ mon' = [at |-> "vault", pool |-> p, todo |-> mon.todo \ {p},
                    found |-> mon.found, account |-> chain[p]]
         \/ mon' = [at |-> "account", pool |-> p, todo |-> mon.todo \ {p},
                    found |-> mon.found, vault |-> chain[p].vault]
  BY <1>1 DEF ReadFirst
<1>4. /\ p \in Pools /\ chain[p] \in PoolStates /\ chain[p].vault \in Int
      /\ mon.todo \subseteq Pools /\ mon.found \subseteq Findings
      /\ mon.at \in Passing
  BY <1>2, PoolsTypes DEF TypeOK, PoolStates
<1>5. mon' \in MonStates
  <2>1. CASE mon'.at = "vault"
    BY <1>3, <1>4, <2>1 DEF MonStates
  <2>2. CASE mon'.at = "account"
    BY <1>3, <1>4, <2>2 DEF MonStates
  <2>3. QED
    BY <1>3, <2>1, <2>2
<1>6. TypeOK' /\ BaselineKept' /\ Honest'
  BY <1>1, <1>2, <1>5, RestKeeps DEF IInv, TypeOK, BaselineKept, Honest
<1>7. /\ mon'.found = mon.found /\ mon'.pool = p /\ mon'.todo = mon.todo \ {p}
      /\ mon'.at \in {"vault", "account"}
      /\ mon'.at = "vault" => mon'.account = chain[p]
      /\ mon'.at = "account" => mon'.vault = chain[p].vault
  BY <1>3
<1>8. ReadHonestly'
  BY <1>1, <1>2, <1>4, <1>7 DEF IInv, Honest, ReadHonestly, Backed, world
<1>9. PICK found : found = mon.found
  OBVIOUS
<1>10. /\ \A f \in found : Caused(f, found)'
       /\ \A q \in wrong' : OutOfStep(q)' /\ (Pending(q) \/ Signed(q, found))
  <2>1. \A f \in found \ mon.found : Caused(f, found)
    BY <1>9
  <2>2. UNCHANGED <<world, wrong>>
    BY <1>2
  <2>3. QED
    BY <1>1, <1>4, <1>9, <2>1, <2>2, MoreIsFound
<1>11. FoundHaveCauses'
  BY <1>7, <1>9, <1>10 DEF FoundHaveCauses, Caused
<1>12. \A q \in wrong' : Pending(q) => Pending(q)'
  BY <1>2, <1>7 DEF Pending
<1>13. mon'.at = "account" /\ p \in wrong' => (mon'.vault - Rent) % Denomination # 0
  BY <1>1, <1>2, <1>7 DEF IInv, WrongIsSeen, OutOfStep
<1>14. WrongIsSeen'
  BY <1>7, <1>9, <1>10, <1>12, <1>13 DEF WrongIsSeen, Signed
<1>15. QED
  BY <1>6, <1>8, <1>11, <1>14 DEF IInv

\* The pass goes on with the next pool, after what was found of this one.
LEMMA NextPoolKeeps ==
    ASSUME IInv, UNCHANGED <<world, wrong>>, mon.at \in {"vault", "account"},
           NEW codes \in SUBSET Codes, mon' = NextPool(Found(mon.pool, codes)),
           \A c \in codes : c \in Critical => mon.pool \in tampered,
           mon.pool \in wrong => \E c \in codes : c \in Signs
    PROVE  /\ mon' \in MonStates /\ mon'.at = "pools"
           /\ ReadHonestly' /\ FoundHaveCauses' /\ WrongIsSeen'
<1>1. /\ mon.pool \in Pools /\ mon.todo \subseteq Pools
      /\ mon.found \subseteq Findings /\ mon.at \in Passing
  BY ReadTypes DEF IInv
<1>2. PICK found : found = Found(mon.pool, codes)
  OBVIOUS
<1>3. /\ mon.found \subseteq found
      /\ \A c \in codes : [code |-> c, pool |-> mon.pool] \in found
      /\ \A f \in found \ mon.found : f.code \in codes /\ f.pool = mon.pool
      /\ found \subseteq Findings
  BY <1>1, <1>2 DEF Found, Findings
<1>4. mon' = [at |-> "pools", todo |-> mon.todo, found |-> found]
  BY <1>2 DEF NextPool
<1>5. mon' \in MonStates
  BY <1>1, <1>3, <1>4 DEF MonStates
<1>6. mon'.at = "pools" /\ mon'.found = found /\ mon'.todo = mon.todo
  BY <1>4
<1>7. ReadHonestly'
  BY <1>6 DEF ReadHonestly
<1>8. \A f \in found \ mon.found : Caused(f, found)
  BY <1>1, <1>3 DEF Caused
<1>9. /\ \A f \in found : Caused(f, found)'
      /\ \A p \in wrong' : OutOfStep(p)' /\ (Pending(p) \/ Signed(p, found))
  BY <1>1, <1>3, <1>8, MoreIsFound
<1>10. FoundHaveCauses'
  BY <1>6, <1>9 DEF FoundHaveCauses, Caused
<1>11. ASSUME NEW p \in wrong'
       PROVE  p \in mon.todo \/ Signed(p, found)
  <2>1. CASE p = mon.pool
    BY <1>3, <2>1 DEF Signed
  <2>2. CASE p # mon.pool
    BY <1>9, <2>2 DEF Pending
  <2>3. QED
    BY <2>1, <2>2
<1>12. WrongIsSeen'
  BY <1>6, <1>9, <1>11 DEF WrongIsSeen, Pending, Signed
<1>13. QED
  BY <1>5, <1>6, <1>7, <1>10, <1>12

LEMMA ReadSecondStep == IInv /\ ReadSecond => IInv'
<1>1. SUFFICES ASSUME IInv, ReadSecond
               PROVE  IInv'
  OBVIOUS
<1> DEFINE p == mon.pool
           seen == IF mon.at = "vault"
                   THEN [mon.account EXCEPT !.vault = chain[p].vault]
                   ELSE [chain[p] EXCEPT !.vault = mon.vault]
           prev == memory.pools[p]
           codes == PoolChecks(seen, prev)
<1>2. /\ UNCHANGED <<world, kept, file, wrong>> /\ mon.at \in {"vault", "account"}
      /\ mon' = NextPool(Found(p, codes))
      /\ memory' = [memory EXCEPT !.pools[p] = Remember(seen, prev)]
      /\ TypeOK
  BY <1>1 DEF ReadSecond, ghosts, IInv
<1>3. /\ p \in Pools /\ chain[p] \in PoolStates
      /\ mon.at = "vault" => mon.account \in PoolStates
      /\ mon.at = "account" => mon.vault \in Int
  BY <1>2, ReadTypes DEF TypeOK
<1>4. /\ seen \in PoolStates
      /\ seen.vault = IF mon.at = "vault" THEN chain[p].vault ELSE mon.vault
      /\ seen.fields = IF mon.at = "vault" THEN mon.account.fields ELSE chain[p].fields
  BY <1>2, <1>3 DEF PoolStates
<1>5. /\ prev \in {Nothing} \cup Remembered
      /\ memory = [pools |-> memory.pools, alerts |-> memory.alerts]
      /\ memory.pools \in [Pools -> {Nothing} \cup Remembered]
      /\ memory.alerts \subseteq Findings
  BY <1>2, <1>3 DEF TypeOK, Memories, Findings
<1>6. /\ Remember(seen, prev) \in Remembered
      /\ Remember(seen, prev) # Nothing
      /\ Remember(seen, prev).baseline =
           IF prev = Nothing THEN seen.fields ELSE prev.baseline
  BY <1>4, <1>5, MonitorAssumption DEF Remember, Remembered, PoolStates
<1>7. p \notin tampered =>
         /\ seen.fields = "original" /\ Backed(seen.vault)
         /\ prev # Nothing => prev.baseline = "original"
  BY <1>1, <1>2, <1>3, <1>4 DEF IInv, Honest, ReadHonestly, Original
<1>8. p \in wrong => (seen.vault - Rent) % Denomination # 0
  BY <1>1, <1>2, <1>4 DEF IInv, WrongIsSeen, OutOfStep
<1> HIDE DEF seen
<1>9. codes \in SUBSET Codes
  BY PoolCodes
<1>10. \A c \in codes : c \in Critical => p \in tampered
  <2>1. SUFFICES ASSUME NEW c \in codes, c \in Critical, p \notin tampered
                 PROVE  FALSE
    OBVIOUS
  <2>2. c \in VaultIntegrity(seen)
    BY <1>7, <2>1, PoolCodes
  <2>3. c = "VAULT_SURPLUS"
    BY <1>4, <1>7, <2>1, <2>2, BackedIsFine
  <2>4. QED
    BY <2>1, <2>3 DEF Critical
<1>11. p \in wrong => \E c \in codes : c \in Signs
  BY <1>4, <1>8, OutOfStepIsSigned DEF PoolChecks
<1>12. /\ mon' \in MonStates /\ mon'.at = "pools"
       /\ ReadHonestly' /\ FoundHaveCauses' /\ WrongIsSeen'
  <2>1. PICK c0 \in SUBSET Codes : c0 = codes
    BY <1>9
  <2>2. QED
    BY <1>1, <1>2, <1>10, <1>11, <2>1, NextPoolKeeps
<1> HIDE DEF prev, codes
<1>13. /\ memory'.pools = [memory.pools EXCEPT ![p] = Remember(seen, prev)]
       /\ memory'.alerts = memory.alerts
       /\ memory' = [pools |-> memory'.pools, alerts |-> memory'.alerts]
  BY <1>2, <1>5
<1>14. memory' \in Memories
  BY <1>3, <1>5, <1>6, <1>13 DEF Memories, Findings
<1>15. ASSUME NEW q \in Pools, kept[q] # Nothing
       PROVE  Holds(memory', q)
  <2>1. Holds(memory, q)
    BY <1>1, <1>2, <1>15 DEF IInv, BaselineKept
  <2>2. QED
    BY <1>3, <1>5, <1>6, <1>13, <2>1 DEF Holds, prev
<1>16. ASSUME NEW q \in Pools \ tampered
       PROVE  Original(memory', q)
  <2>1. Original(memory, q)
    BY <1>1, <1>16 DEF IInv, Honest
  <2>2. QED
    BY <1>3, <1>5, <1>6, <1>7, <1>13, <2>1 DEF Original, prev
<1>17. TypeOK' /\ BaselineKept' /\ Honest'
  BY <1>1, <1>2, <1>12, <1>14, <1>15, <1>16, RestKeeps
<1>18. QED
  BY <1>12, <1>17 DEF IInv
LEMMA ReadFailsStep == IInv /\ ReadFails => IInv'
<1>1. SUFFICES ASSUME IInv, ReadFails
               PROVE  IInv'
  OBVIOUS
<1>2. /\ UNCHANGED <<world, kept, file, memory, wrong>>
      /\ mon.at \in {"vault", "account"} /\ TypeOK
  BY <1>1 DEF ReadFails, ghosts, IInv
<1>3. PICK code \in {"RPC_ERROR", "POOL_UNREADABLE"} :
         /\ code = "POOL_UNREADABLE" => mon.pool \in tampered
         /\ mon' = NextPool(Found(mon.pool, {code}))
  BY <1>1 DEF ReadFails
<1>4. /\ {code} \in SUBSET Codes
      /\ \A c \in {code} : c \in Critical => mon.pool \in tampered
      /\ \E c \in {code} : c \in Signs
  BY <1>3 DEF Codes, Critical, Warning, Signs
<1>5. /\ mon' \in MonStates /\ mon'.at = "pools"
      /\ ReadHonestly' /\ FoundHaveCauses' /\ WrongIsSeen'
  <2>1. PICK codes \in SUBSET Codes : codes = {code}
    BY <1>4
  <2>2. UNCHANGED <<world, wrong>>
    BY <1>2
  <2>3. QED
    BY <1>1, <1>2, <1>3, <1>4, <2>1, <2>2, NextPoolKeeps
<1>6. TypeOK' /\ BaselineKept' /\ Honest'
  BY <1>1, <1>2, <1>5, RestKeeps DEF IInv, TypeOK, BaselineKept, Honest
<1>7. QED
  BY <1>5, <1>6 DEF IInv

LEMMA AuthorityCodes ==
    ASSUME NEW who, NEW code \in AuthorityChecks(who)
    PROVE  /\ code \in {"PROGRAM_IMMUTABLE", "UPGRADE_AUTHORITY_CHANGED"}
           /\ code = "UPGRADE_AUTHORITY_CHANGED" => who # "expected"
BY DEF AuthorityChecks

\* Past the pools every vault out of step has its sign, and more is found.
LEMMA LaterKeeps ==
    ASSUME IInv, UNCHANGED <<world, kept, file, memory, wrong>>,
           mon.at \in Passing, \A p \in Pools : ~Pending(p),
           NEW at \in {"relayer", "emit"}, NEW found \in SUBSET Findings,
           mon' = [at |-> at, found |-> found], mon.found \subseteq found,
           \A f \in found \ mon.found : Caused(f, found)
    PROVE  IInv'
<1>1. mon' \in MonStates /\ mon'.at = at /\ mon'.found = found
  BY DEF MonStates
<1>2. /\ \A f \in found : Caused(f, found)'
      /\ \A p \in wrong' : OutOfStep(p)' /\ (Pending(p) \/ Signed(p, found))
  <2>1. UNCHANGED <<world, wrong>>
    OBVIOUS
  <2>2. QED
    BY <2>1, MoreIsFound
<1>3. TypeOK' /\ BaselineKept' /\ Honest'
  BY <1>1, RestKeeps DEF IInv, TypeOK, BaselineKept, Honest, Passing
<1>4. ReadHonestly'
  BY <1>1 DEF ReadHonestly
<1>5. FoundHaveCauses'
  BY <1>1, <1>2 DEF FoundHaveCauses, Caused
<1>6. wrong \subseteq Pools
  BY DEF IInv, TypeOK
<1>7. WrongIsSeen'
  BY <1>1, <1>2, <1>6 DEF WrongIsSeen, Signed
<1>8. QED
  BY <1>3, <1>4, <1>5, <1>7 DEF IInv

LEMMA ReadAuthorityStep == IInv /\ ReadAuthority => IInv'
<1>1. SUFFICES ASSUME IInv, ReadAuthority
               PROVE  IInv'
  OBVIOUS
<1>2. /\ UNCHANGED <<world, kept, file, memory, wrong>>
      /\ mon.at = "pools" /\ mon.todo = {} /\ TypeOK
  BY <1>1 DEF ReadAuthority, ghosts, IInv
<1>3. mon.found \subseteq Findings /\ mon.at \in Passing
  BY <1>2, PoolsTypes
<1>4. PICK answer \in {authority, Nothing} :
         mon' = [at |-> "relayer",
                 found |-> Found(Nothing, AuthorityChecks(answer)
                                   \cup If(answer = Nothing, "RPC_ERROR"))]
  BY <1>1 DEF ReadAuthority
<1>5. PICK found : found = Found(Nothing, AuthorityChecks(answer)
                                   \cup If(answer = Nothing, "RPC_ERROR"))
  OBVIOUS
<1>6. mon.found \subseteq found
  BY <1>5 DEF Found
<1>7. ASSUME NEW f \in found \ mon.found
      PROVE  f \in Findings /\ Caused(f, found)
  <2>1. PICK c \in AuthorityChecks(answer) \cup If(answer = Nothing, "RPC_ERROR") :
           f = [code |-> c, pool |-> Nothing]
    BY <1>5, <1>7 DEF Found
  <2>2. CASE c \in If(answer = Nothing, "RPC_ERROR")
    BY <2>1, <2>2, MonitorAssumption
    DEF If, Findings, Caused, Codes, Critical, Warning
  <2>3. CASE c = "PROGRAM_IMMUTABLE"
    BY <2>1, <2>3 DEF Findings, Caused, Codes, Critical, Info
  <2>4. CASE c = "UPGRADE_AUTHORITY_CHANGED" /\ answer # "expected"
    <3>1. f \in Findings /\ f.pool \notin Pools
      BY <2>1, <2>4, MonitorAssumption DEF Findings, Codes, Critical
    <3>2. CASE answer = authority
      BY <2>4, <3>1, <3>2 DEF Caused
    <3>3. CASE answer = Nothing
      <4>1. [code |-> "RPC_ERROR", pool |-> Nothing] \in found
        BY <1>5, <3>3 DEF Found, If
      <4>2. [f EXCEPT !.code = "RPC_ERROR"] = [code |-> "RPC_ERROR", pool |-> Nothing]
        BY <2>1
      <4>3. QED
        BY <3>1, <4>1, <4>2 DEF Caused
    <3>4. QED
      BY <1>4, <3>1, <3>2, <3>3
  <2>5. QED
    BY <2>1, <2>2, <2>3, <2>4, AuthorityCodes
<1>8. found \in SUBSET Findings
  BY <1>3, <1>7
<1>9. \A p \in Pools : ~Pending(p)
  BY <1>2 DEF Pending
<1>10. mon' = [at |-> "relayer", found |-> found]
  BY <1>4, <1>5
<1>11. QED
  BY <1>1, <1>2, <1>3, <1>6, <1>7, <1>8, <1>9, <1>10, LaterKeeps

LEMMA ReadRelayerStep == IInv /\ ReadRelayer => IInv'
<1>1. SUFFICES ASSUME IInv, ReadRelayer
               PROVE  IInv'
  OBVIOUS
<1>2. /\ UNCHANGED <<world, kept, file, memory, wrong>>
      /\ mon.at = "relayer" /\ TypeOK
  BY <1>1 DEF ReadRelayer, ghosts, IInv
<1>3. mon.found \subseteq Findings /\ mon.at \in Passing
  BY <1>2, EndTypes
<1>4. PICK codes \in RelayerFindings :
         mon' = [at |-> "emit", found |-> Found(Nothing, codes)]
  BY <1>1 DEF ReadRelayer
<1>5. codes \subseteq {"RELAYER_LOW", "RELAYER_INSOLVENT"} /\ Nothing \notin Pools
  BY MonitorAssumption
<1>6. PICK found : found = Found(Nothing, codes)
  OBVIOUS
<1>7. ASSUME NEW f \in found \ mon.found
      PROVE  f \in Findings /\ Caused(f, found)
  BY <1>5, <1>6, <1>7 DEF Found, Findings, Caused, Codes, Critical, Warning
<1>8. mon.found \subseteq found /\ found \in SUBSET Findings
  BY <1>3, <1>6, <1>7 DEF Found
<1>9. \A p \in Pools : ~Pending(p)
  BY <1>2 DEF Pending
<1>10. mon' = [at |-> "emit", found |-> found]
  BY <1>4, <1>6
<1>11. QED
  BY <1>1, <1>2, <1>3, <1>7, <1>8, <1>9, <1>10, LaterKeeps

LEMMA EmitStep == IInv /\ Emit => IInv'
<1>1. SUFFICES ASSUME IInv, Emit
               PROVE  IInv'
  OBVIOUS
<1> DEFINE told == {f \in mon.found : ~Suppressed(f)}
<1>2. /\ UNCHANGED <<world, kept, file, wrong>> /\ mon.at = "emit" /\ TypeOK
      /\ mon' = [at |-> "save", found |-> mon.found, told |-> told]
      /\ memory' = [memory EXCEPT !.alerts = @ \cup told]
  BY <1>1 DEF Emit, ghosts, IInv
<1>3. mon.found \subseteq Findings /\ mon.at \in Passing
  BY <1>2, EndTypes
<1>4. \A f \in mon.found : f.code \in Critical => f \in told
  BY DEF Suppressed
<1>5. told \subseteq Findings
  BY <1>3
<1> HIDE DEF told
<1>6. mon' \in MonStates
  BY <1>2, <1>3, <1>5 DEF MonStates
<1>7. memory' \in Memories /\ memory'.pools = memory.pools
  BY <1>2, <1>5 DEF TypeOK, Memories, Findings
<1>8. TypeOK' /\ BaselineKept' /\ Honest'
  <2>1. \A p \in Pools : kept[p] # Nothing => Holds(memory', p)
    BY <1>1, <1>2, <1>7 DEF IInv, BaselineKept, Holds
  <2>2. \A p \in Pools \ tampered : Original(memory', p)
    BY <1>1, <1>7 DEF IInv, Honest, Original
  <2>3. QED
    BY <1>1, <1>2, <1>6, <1>7, <2>1, <2>2, RestKeeps
<1>9. mon'.at = "save" /\ mon'.found = mon.found /\ mon'.told = told
  BY <1>2
<1>10. PICK found : found = mon.found
  OBVIOUS
<1>11. /\ \A f \in found : Caused(f, found)'
       /\ \A p \in wrong' : OutOfStep(p)' /\ (Pending(p) \/ Signed(p, found))
  <2>1. \A f \in found \ mon.found : Caused(f, found)
    BY <1>10
  <2>2. UNCHANGED <<world, wrong>>
    BY <1>2
  <2>3. QED
    BY <1>1, <1>3, <1>10, <2>1, <2>2, MoreIsFound
<1>12. ReadHonestly' /\ FoundHaveCauses'
  BY <1>9, <1>10, <1>11 DEF ReadHonestly, FoundHaveCauses, Caused
<1>13. \A p \in Pools : ~Pending(p)
  BY <1>2 DEF Pending
<1>14. wrong' \subseteq Pools
  BY <1>2 DEF TypeOK
<1>15. \A f \in found : f.code \in Critical => f \in told
  BY <1>4, <1>10
<1>16. WrongIsSeen'
  BY <1>9, <1>10, <1>11, <1>13, <1>14, <1>15 DEF WrongIsSeen, Signed
<1>17. QED
  BY <1>8, <1>12, <1>16 DEF IInv
\* Between two passes nothing is found, nor is anything being read.
LEMMA NothingPending ==
    ASSUME \A p \in wrong' : OutOfStep(p)', mon'.at \in {"down", "rest"}
    PROVE  ReadHonestly' /\ FoundHaveCauses' /\ WrongIsSeen'
BY DEF ReadHonestly, FoundHaveCauses, WrongIsSeen, Passing

LEMMA SaveStep == IInv /\ Save => IInv'
<1>1. SUFFICES ASSUME IInv, Save
               PROVE  IInv'
  OBVIOUS
<1>2. /\ UNCHANGED <<world, memory, wrong>> /\ mon.at = "save" /\ TypeOK
      /\ mon' = Resting /\ mon'.at = "rest" /\ mon' \in MonStates
  BY <1>1 DEF Save, IInv, Resting, MonStates
<1>3. \/ /\ file' = memory
         /\ kept' = [p \in Pools |->
               IF kept[p] = Nothing /\ memory.pools[p] # Nothing
               THEN memory.pools[p].baseline ELSE kept[p]]
      \/ UNCHANGED <<file, kept>>
  BY <1>1 DEF Save
<1>4. memory # Nothing
  BY <1>2, MonitorAssumption DEF TypeOK
<1>5. TypeOK'
  BY <1>2, <1>3 DEF TypeOK, world
<1>6. ASSUME NEW p \in Pools, kept[p] # Nothing
      PROVE  Holds(memory, p)
  BY <1>1, <1>2, <1>6 DEF IInv, BaselineKept
<1>7. BaselineKept'
  <2>1. CASE UNCHANGED <<file, kept>>
    BY <1>1, <1>2, <1>6, <2>1 DEF IInv, BaselineKept, Holds
  <2>2. CASE ~UNCHANGED <<file, kept>>
    BY <1>2, <1>3, <1>4, <1>6, <2>2 DEF BaselineKept, Holds
  <2>3. QED
    BY <2>1, <2>2
<1>8. Honest'
  BY <1>1, <1>2, <1>3 DEF IInv, Honest, Original, Backed, world
<1>9. \A p \in wrong' : OutOfStep(p)'
  BY <1>1, <1>2 DEF IInv, WrongIsSeen, OutOfStep, world
<1>10. QED
  BY <1>2, <1>5, <1>7, <1>8, <1>9, NothingPending DEF IInv

LEMMA CrashStep == IInv /\ Crash => IInv'
<1>1. SUFFICES ASSUME IInv, Crash
               PROVE  IInv'
  OBVIOUS
<1>2. /\ UNCHANGED <<world, wrong>> /\ mon' = Down /\ memory' = Blank
      /\ \/ UNCHANGED <<file, kept>>
         \/ file' = Nothing /\ kept' = [p \in Pools |-> Nothing]
  BY <1>1 DEF Crash
<1>3. mon'.at = "down" /\ mon' \in MonStates /\ memory' \in Memories
  BY <1>2 DEF Down, MonStates, Blank, Memories
<1>4. TypeOK'
  BY <1>1, <1>2, <1>3 DEF IInv, TypeOK, world
<1>5. BaselineKept'
  BY <1>1, <1>2, <1>3 DEF IInv, BaselineKept, Holds
<1>6. Honest'
  BY <1>1, <1>2 DEF IInv, Honest, Original, Backed, Blank, world
<1>7. \A p \in wrong' : OutOfStep(p)'
  BY <1>1, <1>2 DEF IInv, WrongIsSeen, OutOfStep, world
<1>8. QED
  BY <1>3, <1>4, <1>5, <1>6, <1>7, NothingPending DEF IInv

-----------------------------------------------------------------------------
(* The chain.                                                              *)

LEMMA ChainKeeps ==
    ASSUME IInv, NEW p \in Pools, NEW c \in PoolStates, Chain(p, c),
           tampered' \in {tampered, tampered \cup {p}},
           p \notin tampered' => c.fields = "original" /\ Backed(c.vault)
    PROVE  IInv'
<1>1. /\ chain' = [chain EXCEPT ![p] = c]
      /\ wrong' = IF (c.vault - Rent) % Denomination = 0 THEN wrong \ {p} ELSE wrong
      /\ UNCHANGED <<authority, mon, memory, file, kept>>
      /\ tampered \subseteq tampered'
  BY DEF Chain
<1>2. TypeOK'
  BY <1>1 DEF IInv, TypeOK
<1>3. BaselineKept'
  BY <1>1 DEF IInv, BaselineKept, Holds
<1>4. ASSUME NEW q \in Pools \ tampered'
      PROVE  /\ chain'[q].fields = "original" /\ Backed(chain'[q].vault)
             /\ Original(memory, q) /\ (file # Nothing => Original(file, q))
  <2>1. q \notin tampered /\ chain \in [Pools -> PoolStates]
    BY <1>1, <1>4 DEF IInv, TypeOK
  <2>2. CASE q = p
    BY <1>1, <1>4, <2>1, <2>2 DEF IInv, Honest
  <2>3. CASE q # p
    BY <1>1, <1>4, <2>1, <2>3 DEF IInv, Honest
  <2>4. QED
    BY <2>2, <2>3
<1>5. Honest'
  BY <1>1, <1>4 DEF Honest, Original, Backed
<1>6. ReadHonestly'
  BY <1>1 DEF IInv, ReadHonestly, Backed
<1>7. FoundHaveCauses'
  BY <1>1 DEF IInv, FoundHaveCauses, Caused
<1>8. \A q \in wrong' : OutOfStep(q)'
  <2>1. SUFFICES ASSUME NEW q \in wrong'
                 PROVE  OutOfStep(q)'
    OBVIOUS
  <2>2. q \in wrong /\ q \in Pools /\ OutOfStep(q)
    BY <1>1, <2>1 DEF IInv, WrongIsSeen, TypeOK
  <2>3. chain'[q] = IF q = p THEN c ELSE chain[q]
    BY <1>1, <2>2 DEF IInv, TypeOK
  <2>4. q = p => (c.vault - Rent) % Denomination # 0
    BY <1>1, <2>1
  <2>5. QED
    BY <2>2, <2>3, <2>4 DEF OutOfStep
<1>9. wrong' \subseteq wrong
  BY <1>1
<1>10. WrongIsSeen'
  BY <1>1, <1>8, <1>9 DEF IInv, WrongIsSeen, Pending, Signed
<1>11. QED
  BY <1>2, <1>3, <1>5, <1>6, <1>7, <1>10 DEF IInv

LEMMA ChainStep ==
    ASSUME IInv, NEW p \in Pools, Deposit(p) \/ Withdraw(p) \/ Pause(p) \/ Tamper(p)
    PROVE  IInv'
<1>1. /\ chain[p] \in PoolStates /\ chain[p].vault \in Int
      /\ chain[p].deposits \in Nat
      /\ Denomination \in Nat /\ Denomination > 0 /\ Rent \in Nat
  BY MonitorAssumption DEF IInv, TypeOK, PoolStates
<1>2. p \notin tampered => chain[p].fields = "original" /\ Backed(chain[p].vault)
  BY DEF IInv, Honest
<1>3. ASSUME Deposit(p)
      PROVE  IInv'
  <2> DEFINE c == [chain[p] EXCEPT !.deposits = @ + 1, !.vault = @ + Denomination]
  <2>1. c \in PoolStates /\ c.fields = chain[p].fields
        /\ c.vault = chain[p].vault + Denomination
    <3>1. chain[p].vault + Denomination \in Int /\ chain[p].deposits + 1 \in Nat
      BY <1>1
    <3>2. QED
      BY <1>1, <3>1 DEF PoolStates
  <2>2. ASSUME Backed(chain[p].vault)
        PROVE  Backed(c.vault)
    <3>1. PICK k \in Nat : chain[p].vault = Rent + k * Denomination
      BY <2>2 DEF Backed
    <3>2. c.vault = Rent + (k + 1) * Denomination
      BY <1>1, <2>1, <3>1
    <3>3. QED
      BY <3>2 DEF Backed
  <2>3. Chain(p, c) /\ tampered' = tampered
    BY <1>3 DEF Deposit
  <2> HIDE DEF c
  <2>4. QED
    BY <1>2, <2>1, <2>2, <2>3, ChainKeeps
<1>4. ASSUME Withdraw(p)
      PROVE  IInv'
  <2> DEFINE c == [chain[p] EXCEPT !.vault = @ - Denomination]
  <2>1. c \in PoolStates /\ c.fields = chain[p].fields
        /\ c.vault = chain[p].vault - Denomination
    <3>1. chain[p].vault - Denomination \in Int
      BY <1>1
    <3>2. QED
      BY <1>1, <3>1 DEF PoolStates
  <2>2. ASSUME Backed(chain[p].vault)
        PROVE  Backed(c.vault)
    <3>1. PICK k \in Nat : chain[p].vault = Rent + k * Denomination
      BY <2>2 DEF Backed
    <3>2. k # 0
      BY <1>1, <1>4, <3>1 DEF Withdraw
    <3>3. k - 1 \in Nat /\ c.vault = Rent + (k - 1) * Denomination
      BY <1>1, <2>1, <3>1, <3>2
    <3>4. QED
      BY <3>3 DEF Backed
  <2>3. Chain(p, c) /\ tampered' = tampered
    BY <1>4 DEF Withdraw
  <2> HIDE DEF c
  <2>4. QED
    BY <1>2, <2>1, <2>2, <2>3, ChainKeeps
<1>5. ASSUME Pause(p)
      PROVE  IInv'
  <2> DEFINE c == [chain[p] EXCEPT !.paused = TRUE]
  <2>1. c \in PoolStates /\ c.fields = chain[p].fields /\ c.vault = chain[p].vault
    BY <1>1 DEF PoolStates
  <2>2. Chain(p, c) /\ tampered' = tampered
    BY <1>5 DEF Pause
  <2> HIDE DEF c
  <2>3. QED
    BY <1>2, <2>1, <2>2, ChainKeeps
<1>6. ASSUME Tamper(p)
      PROVE  IInv'
  <2>1. PICK c \in {[chain[p] EXCEPT !.vault = @ - 1], [chain[p] EXCEPT !.vault = @ + 1],
                    [chain[p] EXCEPT !.fields = "changed"]} : Chain(p, c)
    BY <1>6 DEF Tamper
  <2>2. c \in PoolStates
    BY <1>1, <2>1 DEF PoolStates, Fields
  <2>3. tampered' = tampered \cup {p}
    BY <1>6 DEF Tamper
  <2>4. QED
    BY <2>1, <2>2, <2>3, ChainKeeps
<1>7. QED
  BY <1>3, <1>4, <1>5, <1>6

LEMMA TakeOverStep == IInv /\ TakeOver => IInv'
<1>1. SUFFICES ASSUME IInv, TakeOver
               PROVE  IInv'
  OBVIOUS
<1>2. /\ UNCHANGED <<chain, tampered, mon, memory, file, kept, wrong>>
      /\ authority' # "expected"
  BY <1>1 DEF TakeOver
<1>3. TypeOK' /\ BaselineKept'
  BY <1>1, <1>2 DEF IInv, TypeOK, BaselineKept, Holds
<1>4. Honest' /\ ReadHonestly'
  BY <1>1, <1>2 DEF IInv, Honest, ReadHonestly, Original, Backed
<1>5. FoundHaveCauses'
  BY <1>1, <1>2 DEF IInv, FoundHaveCauses, Caused
<1>6. WrongIsSeen'
  BY <1>1, <1>2 DEF IInv, WrongIsSeen, Pending, Signed, OutOfStep
<1>7. QED
  BY <1>3, <1>4, <1>5, <1>6 DEF IInv

LEMMA TickStep == IInv /\ Tick => IInv'
<1>1. SUFFICES ASSUME IInv, Tick
               PROVE  IInv'
  OBVIOUS
<1>2. /\ UNCHANGED <<world, mon, kept, wrong>>
      /\ memory' = [memory EXCEPT !.alerts = {}]
      /\ file' = IF file = Nothing THEN Nothing ELSE [file EXCEPT !.alerts = {}]
  BY <1>1 DEF Tick, ghosts
<1>3. memory' \in Memories /\ memory'.pools = memory.pools
  BY <1>1, <1>2 DEF IInv, TypeOK, Memories
<1>4. /\ file = Nothing => file' = Nothing
      /\ file # Nothing => /\ file' \in Memories /\ file'.pools = file.pools
                           /\ file' # Nothing
  BY <1>1, <1>2, MonitorAssumption DEF IInv, TypeOK, Memories
<1>5. TypeOK'
  BY <1>1, <1>2, <1>3, <1>4 DEF IInv, TypeOK, world
<1>6. BaselineKept'
  BY <1>1, <1>2, <1>3, <1>4 DEF IInv, BaselineKept, Holds
<1>7. Honest'
  BY <1>1, <1>2, <1>3, <1>4 DEF IInv, Honest, Original, Backed, world
<1>8. ReadHonestly' /\ FoundHaveCauses'
  BY <1>1, <1>2 DEF IInv, ReadHonestly, FoundHaveCauses, Caused, Backed, world
<1>9. WrongIsSeen'
  BY <1>1, <1>2 DEF IInv, WrongIsSeen, Pending, Signed, OutOfStep, world
<1>10. QED
  BY <1>5, <1>6, <1>7, <1>8, <1>9 DEF IInv

-----------------------------------------------------------------------------
(* The theorems.                                                           *)

LEMMA InitIInv == Init => IInv
<1>1. SUFFICES ASSUME Init
               PROVE  IInv
  OBVIOUS
<1>2. mon.at = "down" /\ mon \in MonStates /\ memory \in Memories
  BY <1>1 DEF Init, Down, MonStates, Blank, Memories
<1>3. Rent \in Nat /\ Denomination \in Nat /\ Rent = Rent + 0 * Denomination
  BY MonitorAssumption
<1>4. TypeOK
  BY <1>1, <1>2, <1>3 DEF Init, TypeOK, PoolStates, Fields
<1>5. BaselineKept /\ ReadHonestly /\ FoundHaveCauses /\ WrongIsSeen
  BY <1>1, <1>2
  DEF Init, BaselineKept, ReadHonestly, FoundHaveCauses, WrongIsSeen, Passing
<1>6. Backed(Rent)
  BY <1>3 DEF Backed
<1>7. Honest
  BY <1>1, <1>6 DEF Init, Honest, Original, Blank
<1>8. QED
  BY <1>4, <1>5, <1>7 DEF IInv

LEMMA NextIInv == IInv /\ [Next]_vars => IInv'
<1>1. SUFFICES ASSUME IInv, [Next]_vars
               PROVE  IInv'
  OBVIOUS
<1>2. CASE Pass
  BY <1>1, <1>2, StartStep, BeginPassStep, ReadFirstStep, ReadSecondStep,
     ReadFailsStep, ReadAuthorityStep, ReadRelayerStep, EmitStep, SaveStep DEF Pass
<1>3. CASE Crash
  BY <1>1, <1>3, CrashStep
<1>4. CASE Environment
  BY <1>1, <1>4, ChainStep, TakeOverStep, TickStep DEF Environment
<1>5. CASE UNCHANGED vars
  <2>1. UNCHANGED <<chain, authority, tampered, mon, memory, file, kept, wrong>>
    BY <1>5 DEF vars
  <2>2. TypeOK' /\ BaselineKept' /\ Honest'
    BY <1>1, <2>1 DEF IInv, TypeOK, BaselineKept, Holds, Honest, Original, Backed
  <2>3. ReadHonestly' /\ FoundHaveCauses' /\ WrongIsSeen'
    BY <1>1, <2>1
    DEF IInv, ReadHonestly, Backed, FoundHaveCauses, Caused, WrongIsSeen,
        Pending, Signed, OutOfStep
  <2>4. QED
    BY <2>2, <2>3 DEF IInv
<1>6. QED
  BY <1>1, <1>2, <1>3, <1>4, <1>5 DEF Next

\* The baseline that was written first is the one every later pass compares
\* with, over restarts and failed writes (loadState, saveState, runOnce).
THEOREM BaselinesLast == Spec => []BaselineSurvives
<1>1. IInv => BaselineSurvives
  <2>1. SUFFICES ASSUME IInv, NEW p \in Pools, kept[p] # Nothing, mon # Down
                 PROVE  Holds(memory, p)
    BY DEF BaselineSurvives, Holds
  <2>2. mon.at # "down"
    BY <2>1 DEF IInv, TypeOK, MonStates, Down, Resting
  <2>3. QED
    BY <2>1, <2>2 DEF IInv, BaselineKept
<1>2. QED
  BY <1>1, InitIInv, NextIInv, PTL DEF Spec

\* No critical finding is made of a pool that only the program has written to,
\* however deposits and withdrawals fall between the two reads of it
\* (checkVaultIntegrity, readPool), nor of an authority that is the expected
\* one, but for a failed read of it: with a constant rent, and a node that reads
\* no account that exists as null.
THEOREM AlarmsHaveCauses == Spec => []CriticalHasACause
<1>1. IInv => CriticalHasACause
  BY DEF IInv, FoundHaveCauses, Caused, Passing, CriticalHasACause
<1>2. QED
  BY <1>1, InitIInv, NextIInv, PTL DEF Spec

\* A vault out of step through a whole pass is told of, or taken for a surplus:
\* no read in between makes it look clean, no cooldown keeps it quiet (runOnce,
\* emit).
THEOREM LeaksAreTold == Spec => []OutOfStepIsNoticed
<1>1. IInv => OutOfStepIsNoticed
  <2>1. SUFFICES ASSUME IInv, mon.at = "save", NEW p \in wrong
                 PROVE  \/ \E f \in mon.told : f.pool = p /\ f.code \in Critical
                        \/ \E f \in mon.found :
                             f.pool = p /\ f.code \in {"VAULT_SURPLUS", "RPC_ERROR"}
    BY DEF OutOfStepIsNoticed
  <2>2. Signed(p, mon.found)
    BY <2>1 DEF IInv, WrongIsSeen, Pending, Passing
  <2>3. QED
    BY <2>1, <2>2 DEF IInv, WrongIsSeen, Signed, Signs
<1>2. QED
  BY <1>1, InitIInv, NextIInv, PTL DEF Spec

-----------------------------------------------------------------------------
(* Passes end.                                                             *)

\* How many steps a pass that is under way still has to take: two for each pool,
\* and those that come after the pools.
StepsLeft ==
    CASE mon.at = "pools" -> 4 + 2 * Cardinality(mon.todo)
      [] mon.at \in {"vault", "account"} -> 5 + 2 * Cardinality(mon.todo)
      [] mon.at = "relayer" -> 3
      [] mon.at = "emit" -> 2
      [] mon.at = "save" -> 1
      [] OTHER -> 0

\* What is left of the pools is finite, and one fewer with each that is taken.
LEMMA TodoShrinks ==
    ASSUME NEW S \in SUBSET Pools
    PROVE  /\ Cardinality(S) \in Nat
           /\ \A p \in S : /\ Cardinality(S \ {p}) \in Nat
                           /\ Cardinality(S \ {p}) = Cardinality(S) - 1
<1>1. IsFiniteSet(S)
  BY MonitorAssumption, FS_Subset
<1>2. QED
  BY <1>1, FS_RemoveElement, FS_CardinalityType

LEMMA PassAdvances ==
    ASSUME IInv, Pass
    PROVE  \/ Start /\ mon' = Resting
           \/ BeginPass
           \/ mon.at \in Passing /\ StepsLeft' < StepsLeft
<1>1. CASE Start
  BY <1>1 DEF Start
<1>2. CASE ReadFirst
  <2>1. mon.todo \in SUBSET Pools
    BY <1>2 DEF ReadFirst, IInv, TypeOK, MonStates, Down, Resting
  <2>2. PICK p \in mon.todo :
          /\ mon.at = "pools"
          /\ mon'.at \in {"vault", "account"} /\ mon'.todo = mon.todo \ {p}
    BY <1>2 DEF ReadFirst
  <2>3. QED
    BY <2>1, <2>2, TodoShrinks DEF StepsLeft, Passing
<1>3. CASE ReadSecond \/ ReadFails
  <2>1. mon.at \in {"vault", "account"} /\ mon.todo \in SUBSET Pools
    BY <1>3 DEF ReadSecond, ReadFails, IInv, TypeOK, MonStates, Down, Resting
  <2>2. mon'.at = "pools" /\ mon'.todo = mon.todo
    BY <1>3 DEF ReadSecond, ReadFails, NextPool
  <2>3. QED
    BY <2>1, <2>2, TodoShrinks DEF StepsLeft, Passing
<1>4. CASE ReadAuthority
  <2>1. mon.at = "pools" /\ mon.todo \in SUBSET Pools /\ mon'.at = "relayer"
    BY <1>4 DEF ReadAuthority, IInv, TypeOK, MonStates, Down, Resting
  <2>2. QED
    BY <2>1, TodoShrinks DEF StepsLeft, Passing
<1>5. CASE ReadRelayer \/ Emit \/ Save
  BY <1>5 DEF ReadRelayer, Emit, Save, StepsLeft, Passing, Resting
<1>6. QED
  BY <1>1, <1>2, <1>3, <1>4, <1>5 DEF Pass

\* A pass under way comes nearer to its end with each of its steps, whichever of
\* its calls throw and whatever the chain does meanwhile; nothing but the start
\* of another pass puts work before it (runOnce, index.js).
PassIsBounded ==
    [][/\ Pass /\ mon.at \in Passing => StepsLeft' < StepsLeft
       /\ StepsLeft' > StepsLeft => BeginPass]_vars

THEOREM PassesAreShort == Spec => PassIsBounded
<1>1. IInv /\ IInv' /\ Next =>
        /\ Pass /\ mon.at \in Passing => StepsLeft' < StepsLeft
        /\ StepsLeft' > StepsLeft => BeginPass
  <2>1. SUFFICES ASSUME IInv, IInv', Next
                 PROVE  /\ Pass /\ mon.at \in Passing => StepsLeft' < StepsLeft
                        /\ StepsLeft' > StepsLeft => BeginPass
    OBVIOUS
  <2>2. StepsLeft \in Nat
    BY <2>1, TodoShrinks DEF IInv, TypeOK, MonStates, Down, Resting, StepsLeft
  <2>3. StepsLeft' \in Nat
    BY <2>1, TodoShrinks DEF IInv, TypeOK, MonStates, Down, Resting, StepsLeft
  <2>4. CASE Pass
    <3>1. CASE Start \/ BeginPass
      BY <3>1, <2>2, <2>3 DEF Start, BeginPass, StepsLeft, Down, Resting, Passing
    <3>2. QED
      BY <2>1, <2>2, <2>3, <2>4, <3>1, PassAdvances
  <2>5. CASE Crash
    <3>1. mon'.at = "down" /\ StepsLeft' = 0
      BY <2>5 DEF Crash, Down, StepsLeft
    <3>2. ~Pass
      BY <2>5 DEF Crash, Pass, Start, BeginPass, ReadFirst, ReadSecond, ReadFails,
                  ReadAuthority, ReadRelayer, Emit, Save, Down, Resting, NextPool
    <3>3. QED
      BY <3>1, <3>2, <2>2
  <2>6. CASE Environment
    <3>1. UNCHANGED mon
      BY <2>6 DEF Environment, Deposit, Withdraw, Pause, Tamper, Chain, TakeOver,
                  Tick
    <3>2. StepsLeft' = StepsLeft
      BY <3>1 DEF StepsLeft
    <3>3. mon.at \in Passing => ~Start /\ ~BeginPass
      BY DEF Start, BeginPass, Down, Resting, Passing
    <3>4. ~(Pass /\ mon.at \in Passing)
      BY <2>1, <2>2, <3>2, <3>3, PassAdvances
    <3>5. QED
      BY <2>2, <3>2, <3>4
  <2>7. QED
    BY <2>1, <2>4, <2>5, <2>6 DEF Next
<1>2. QED
  BY <1>1, InitIInv, NextIInv, PTL DEF Spec, PassIsBounded
=============================================================================
